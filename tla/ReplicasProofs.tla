---------------------------- MODULE ReplicasProofs ----------------------------
(***************************************************************************)
(* What is written is what is read, for every record and every event the   *)
(* constructors let through; what several clones make of the lines they    *)
(* write, lose, fetch and merge; and, behind the last line of stars, what  *)
(* one log of any length says however its lines arrived (LogFold), and what*)
(* the gate and a page make of it (Overview).                              *)
(***************************************************************************)
EXTENDS Replicas, Overview, ReviewLogProofs, FiniteSetTheorems

-----------------------------------------------------------------------------
(* Lines: what is written is what is read.                                 *)

(* A field a constructor trimmed is not trimmed any further.               *)
LEMMA SaidIsTrimmed == \A s \in Maybe : s \in Text /\ trim[s] = s
<1>1. SUFFICES ASSUME NEW s \in Maybe PROVE s \in Text /\ trim[s] = s
  OBVIOUS
<1>2. CASE s = Absent
  BY <1>2, WireAssumption
<1>3. CASE s \in Said
  <2>1. PICK t \in Text : s = trim[t]
    BY <1>3 DEF Said
  <2>2. QED
    BY <2>1, WireAssumption
<1>4. QED
  BY <1>2, <1>3 DEF Maybe

(* Nothing a constructor lets through is blank where it may not be.        *)
LEMMA SaidIsNotBlank == \A s \in Said : s # Absent /\ s \in Maybe
BY DEF Said, Maybe

(* A note or an explanation comes back as it was written, with its name.   *)
LEMMA NotesComeBack == \A r \in Notes : ParseLine(ToLine(r)) = Accept(r)
<1>1. SUFFICES ASSUME NEW r \in Notes PROVE ParseLine(ToLine(r)) = Accept(r)
  OBVIOUS
<1> DEFINE line == NoteLine(r)
<1>2. ToLine(r) = line
  BY DEF ToLine, Notes
<1>3. /\ line.v = Version /\ line.kind = r.kind /\ line.id = r.id /\ line.rev = r.rev
      /\ line.anchor = r.anchor /\ line.body = r.body /\ line.author = r.author
      /\ line.at = r.at
  BY DEF NoteLine, Signed, Plain
<1>4. /\ r.kind \in {"comment", "rationale"} /\ r.id \in Ids /\ r.rev \in Shas
      /\ r.anchor \in Anchors /\ r.body \in Said /\ r.author \in Said /\ r.at \in Moments
      /\ r = [kind |-> r.kind, id |-> r.id, rev |-> r.rev, anchor |-> r.anchor,
              body |-> r.body, author |-> r.author, at |-> r.at]
  BY DEF Notes
<1>5. /\ trim[r.body] = r.body /\ r.body # Absent
      /\ trim[r.author] = r.author /\ r.author # Absent
  BY <1>4, SaidIsTrimmed, SaidIsNotBlank
<1>6. Readable(line)
  BY <1>3, <1>4, <1>5 DEF Readable, Named, Kinds
<1>7. RecordOf(line) = r
  <2>1. NoteOf(line) = r
    BY <1>3, <1>4, <1>5 DEF NoteOf
  <2>2. line.id # Absent
    BY <1>3, <1>4 DEF Ids
  <2>3. QED
    BY <1>3, <1>4, <2>1, <2>2 DEF RecordOf, StoredId
<1>8. QED
  BY <1>2, <1>3, <1>4, <1>6, <1>7 DEF ParseLine, Kinds, Named

(* The same of a reply.                                                    *)
LEMMA RepliesComeBack == \A r \in Replies : ParseLine(ToLine(r)) = Accept(r)
<1>1. SUFFICES ASSUME NEW r \in Replies PROVE ParseLine(ToLine(r)) = Accept(r)
  OBVIOUS
<1> DEFINE line == ReplyLine(r)
<1>2. ToLine(r) = line
  BY DEF ToLine, Replies
<1>3. /\ line.v = Version
      /\ line.kind = r.kind
      /\ line.id = r.id
      /\ line.target = r.target
      /\ line.rev = r.rev
      /\ line.body = r.body
      /\ line.author = r.author
      /\ line.at = r.at
  BY DEF ReplyLine, Signed, Plain
<1>4. /\ r.kind = "reply"
      /\ r.id \in Ids /\ r.target \in Ids /\ r.rev \in Shas /\ r.body \in Said /\ r.author \in Said /\ r.at \in Moments
      /\ r = [kind |-> r.kind, id |-> r.id, target |-> r.target, rev |-> r.rev, body |-> r.body, author |-> r.author, at |-> r.at]
  BY DEF Replies
<1>5. /\ trim[r.body] = r.body /\ r.body # Absent
      /\ trim[r.author] = r.author /\ r.author # Absent
  BY <1>4, SaidIsTrimmed, SaidIsNotBlank
<1>6. Readable(line)
  BY <1>3, <1>4, <1>5 DEF Readable, Named, Kinds
<1>7. RecordOf(line) = r
  <2>1. ReplyOf(line) = r
    BY <1>3, <1>4, <1>5 DEF ReplyOf
  <2>2. line.id # Absent
    BY <1>3, <1>4 DEF Ids
  <2>3. QED
    BY <1>3, <1>4, <2>1, <2>2 DEF RecordOf, StoredId
<1>8. QED
  BY <1>2, <1>3, <1>4, <1>6, <1>7 DEF ParseLine, Kinds, Named

(* Of a resolution.                                                        *)
LEMMA ResolutionsComeBack == \A r \in Resolutions : ParseLine(ToLine(r)) = Accept(r)
<1>1. SUFFICES ASSUME NEW r \in Resolutions PROVE ParseLine(ToLine(r)) = Accept(r)
  OBVIOUS
<1> DEFINE line == ResolutionLine(r)
<1>2. ToLine(r) = line
  BY DEF ToLine, Resolutions
<1>3. /\ line.v = Version
      /\ line.kind = r.kind
      /\ line.id = r.id
      /\ line.target = r.target
      /\ line.author = r.author
      /\ line.at = r.at
  BY DEF ResolutionLine, Signed, Plain
<1>4. /\ r.kind = "resolve"
      /\ r.id \in Ids /\ r.target \in Ids /\ r.author \in Said /\ r.at \in Moments
      /\ r = [kind |-> r.kind, id |-> r.id, target |-> r.target, author |-> r.author, at |-> r.at]
  BY DEF Resolutions
<1>5. /\ trim[r.author] = r.author /\ r.author # Absent
  BY <1>4, SaidIsTrimmed, SaidIsNotBlank
<1>6. Readable(line)
  BY <1>3, <1>4, <1>5 DEF Readable, Named, Kinds
<1>7. RecordOf(line) = r
  <2>1. ResolutionOf(line) = r
    BY <1>3, <1>4, <1>5 DEF ResolutionOf
  <2>2. line.id # Absent
    BY <1>3, <1>4 DEF Ids
  <2>3. QED
    BY <1>3, <1>4, <2>1, <2>2 DEF RecordOf, StoredId
<1>8. QED
  BY <1>2, <1>3, <1>4, <1>6, <1>7 DEF ParseLine, Kinds, Named

(* Of what a check said.                                                   *)
LEMMA VerdictsComeBack == \A r \in Verdicts : ParseLine(ToLine(r)) = Accept(r)
<1>1. SUFFICES ASSUME NEW r \in Verdicts PROVE ParseLine(ToLine(r)) = Accept(r)
  OBVIOUS
<1> DEFINE line == VerdictLine(r)
<1>2. ToLine(r) = line
  BY DEF ToLine, Verdicts
<1>3. /\ line.v = Version
      /\ line.kind = r.kind
      /\ line.name = r.name
      /\ line.rev = r.rev
      /\ line.author = r.author
      /\ line.at = r.at
      /\ line.status = (IF r.passed THEN "passed" ELSE "failed")
  BY DEF VerdictLine, Signed, Plain
<1>4. /\ r.kind = "check"
      /\ r.name \in Said /\ r.passed \in BOOLEAN /\ r.rev \in Shas /\ r.author \in Said /\ r.at \in Moments
      /\ r = [kind |-> r.kind, name |-> r.name, passed |-> r.passed, rev |-> r.rev, author |-> r.author, at |-> r.at]
  BY DEF Verdicts
<1>5. /\ trim[r.name] = r.name /\ r.name # Absent
      /\ trim[r.author] = r.author /\ r.author # Absent
  BY <1>4, SaidIsTrimmed, SaidIsNotBlank
<1>6. Readable(line)
  BY <1>3, <1>4, <1>5 DEF Readable, Named, Kinds, Statuses
<1>7. RecordOf(line) = r
  <2>1. VerdictOf(line) = r
    BY <1>3, <1>4, <1>5 DEF VerdictOf
  <2>2. QED
    BY <1>3, <1>4, <2>1 DEF RecordOf
<1>8. QED
  BY <1>2, <1>3, <1>4, <1>6, <1>7 DEF ParseLine, Kinds, Named

(* Of a decision, whether or not it points at lines.                       *)
LEMMA DecisionsComeBack == \A r \in Decisions : ParseLine(ToLine(r)) = Accept(r)
<1>1. SUFFICES ASSUME NEW r \in Decisions PROVE ParseLine(ToLine(r)) = Accept(r)
  OBVIOUS
<1> DEFINE line == DecisionLine(r)
<1>2. ToLine(r) = line
  BY DEF ToLine, Decisions
<1>3. /\ line.v = Version
      /\ line.kind = r.kind
      /\ line.decision = r.decision
      /\ line.rejected = r.rejected
      /\ line.anchor = r.anchor
  BY DEF DecisionLine, Plain
<1>4. /\ r.kind = "chunk"
      /\ r.decision \in Said /\ r.rejected \in Maybe /\ r.anchor \in Anchors \cup {Absent}
      /\ r = [kind |-> r.kind, decision |-> r.decision, rejected |-> r.rejected, anchor |-> r.anchor]
  BY DEF Decisions
<1>5. /\ trim[r.decision] = r.decision /\ r.decision # Absent
      /\ trim[r.rejected] = r.rejected
  BY <1>4, SaidIsTrimmed, SaidIsNotBlank DEF Maybe
<1>6. Readable(line)
  BY <1>3, <1>4, <1>5 DEF Readable, Named, Kinds
<1>7. RecordOf(line) = r
  <2>1. DecisionOf(line) = r
    BY <1>3, <1>4, <1>5 DEF DecisionOf
  <2>2. QED
    BY <1>3, <1>4, <2>1 DEF RecordOf
<1>8. QED
  BY <1>2, <1>3, <1>4, <1>6, <1>7 DEF ParseLine, Kinds, Named

(* Of a line of work.                                                      *)
LEMMA WorkComesBack == \A r \in WorkLines : ParseLine(ToLine(r)) = Accept(r)
<1>1. SUFFICES ASSUME NEW r \in WorkLines PROVE ParseLine(ToLine(r)) = Accept(r)
  OBVIOUS
<1> DEFINE line == WorkLineOf(r)
<1>2. ToLine(r) = line
  BY DEF ToLine, WorkLines
<1>3. /\ line.v = Version
      /\ line.kind = r.kind
      /\ line.task = r.task
      /\ line.phase = r.phase
      /\ line.body = r.body
      /\ line.rev = r.rev
      /\ line.author = r.author
      /\ line.at = r.at
  BY DEF WorkLineOf, Signed, Plain
<1>4. /\ r.kind = "work"
      /\ r.task \in Tasks /\ r.phase \in TaskPhases /\ r.body \in Maybe /\ r.rev \in Shas /\ r.author \in Said /\ r.at \in Moments
      /\ r = [kind |-> r.kind, task |-> r.task, phase |-> r.phase, body |-> r.body, rev |-> r.rev, author |-> r.author, at |-> r.at]
  BY DEF WorkLines
<1>5. /\ trim[r.body] = r.body
      /\ trim[r.author] = r.author /\ r.author # Absent
  BY <1>4, SaidIsTrimmed, SaidIsNotBlank DEF Maybe
<1>6. Readable(line)
  BY <1>3, <1>4, <1>5 DEF Readable, Named, Kinds
<1>7. RecordOf(line) = r
  <2>1. WorkOf(line) = r
    BY <1>3, <1>4, <1>5 DEF WorkOf
  <2>2. QED
    BY <1>3, <1>4, <2>1 DEF RecordOf
<1>8. QED
  BY <1>2, <1>3, <1>4, <1>6, <1>7 DEF ParseLine, Kinds, Named

(* Of an ask.                                                              *)
LEMMA AsksComeBack == \A r \in Asks : ParseLine(ToLine(r)) = Accept(r)
<1>1. SUFFICES ASSUME NEW r \in Asks PROVE ParseLine(ToLine(r)) = Accept(r)
  OBVIOUS
<1> DEFINE line == AskLine(r)
<1>2. ToLine(r) = line
  BY DEF ToLine, Asks
<1>3. /\ line.v = Version
      /\ line.kind = r.kind
      /\ line.rev = r.rev
      /\ line.author = r.author
      /\ line.at = r.at
  BY DEF AskLine, Signed, Plain
<1>4. /\ r.kind = "dispatch"
      /\ r.rev \in Shas /\ r.author \in Said /\ r.at \in Moments
      /\ r = [kind |-> r.kind, rev |-> r.rev, author |-> r.author, at |-> r.at]
  BY DEF Asks
<1>5. /\ trim[r.author] = r.author /\ r.author # Absent
  BY <1>4, SaidIsTrimmed, SaidIsNotBlank
<1>6. Readable(line)
  BY <1>3, <1>4, <1>5 DEF Readable, Named, Kinds
<1>7. RecordOf(line) = r
  <2>1. AskOf(line) = r
    BY <1>3, <1>4, <1>5 DEF AskOf
  <2>2. QED
    BY <1>3, <1>4, <2>1 DEF RecordOf
<1>8. QED
  BY <1>2, <1>3, <1>4, <1>6, <1>7 DEF ParseLine, Kinds, Named

(* Every record a constructor lets through is read back from the line it   *)
(* is written as, whatever its texts: nothing another build of this version*)
(* writes is refused, and no name changes.  (wire/annotation.rs)           *)
THEOREM RecordsComeBack == \A r \in Records : ParseLine(ToLine(r)) = Accept(r)
BY NotesComeBack, RepliesComeBack, ResolutionsComeBack, VerdictsComeBack,
   DecisionsComeBack, WorkComesBack, AsksComeBack DEF Records

(* The same of the events of a proposal's life.  (wire/event.rs)           *)
THEOREM EventsComeBack == \A e \in Events : ParseEvent(EventLine(e)) = Accept(e)
<1>1. SUFFICES ASSUME NEW e \in Events PROVE ParseEvent(EventLine(e)) = Accept(e)
  OBVIOUS
<1> DEFINE line == EventLine(e)
<1>2. CASE e \in Openings
  <2>1. /\ e.kind = "opened" /\ e.id \in Ids /\ e.title \in Said /\ e.target \in Branches
        /\ e.base \in Shas /\ e.author \in Said /\ e.at \in Moments
        /\ e = [kind |-> e.kind, id |-> e.id, title |-> e.title, target |-> e.target,
                base |-> e.base, author |-> e.author, at |-> e.at]
    BY <1>2 DEF Openings
  <2>2. /\ line.v = Version /\ line.kind = e.kind /\ line.id = e.id /\ line.title = e.title
        /\ line.target = e.target /\ line.base = e.base /\ line.author = e.author
        /\ line.at = e.at
    BY <2>1 DEF EventLine, PlainEvent
  <2>3. /\ trim[e.title] = e.title /\ e.title # Absent
        /\ trim[e.author] = e.author /\ e.author # Absent
    BY <2>1, SaidIsTrimmed, SaidIsNotBlank
  <2>4. EventOf(line) = e
    BY <2>1, <2>2, <2>3 DEF EventOf
  <2>5. QED
    BY <2>1, <2>2, <2>3, <2>4 DEF ParseEvent, EventKinds
<1>3. CASE e \in Endings
  <2>1. /\ e.kind \in {"landed", "abandoned"} /\ e.id \in Ids /\ e.author \in Said
        /\ e.at \in Moments
        /\ e = [kind |-> e.kind, id |-> e.id, author |-> e.author, at |-> e.at]
    BY <1>3 DEF Endings
  <2>2. /\ line.v = Version /\ line.kind = e.kind /\ line.id = e.id
        /\ line.author = e.author /\ line.at = e.at
    BY <2>1 DEF EventLine, PlainEvent
  <2>3. trim[e.author] = e.author /\ e.author # Absent
    BY <2>1, SaidIsTrimmed, SaidIsNotBlank
  <2>4. EventOf(line) = e
    BY <2>1, <2>2, <2>3 DEF EventOf
  <2>5. QED
    BY <2>1, <2>2, <2>3, <2>4 DEF ParseEvent, EventKinds
<1>4. CASE e \in Retargets
  <2>1. /\ e.kind = "retargeted" /\ e.id \in Ids /\ e.target \in Branches
        /\ e.author \in Said /\ e.at \in Moments
        /\ e = [kind |-> e.kind, id |-> e.id, target |-> e.target, author |-> e.author,
                at |-> e.at]
    BY <1>4 DEF Retargets
  <2>2. /\ line.v = Version /\ line.kind = e.kind /\ line.id = e.id
        /\ line.target = e.target /\ line.author = e.author /\ line.at = e.at
    BY <2>1 DEF EventLine, PlainEvent
  <2>3. trim[e.author] = e.author /\ e.author # Absent
    BY <2>1, SaidIsTrimmed, SaidIsNotBlank
  <2>4. EventOf(line) = e
    BY <2>1, <2>2, <2>3 DEF EventOf
  <2>5. QED
    BY <2>1, <2>2, <2>3, <2>4 DEF ParseEvent, EventKinds
<1>5. QED
  BY <1>2, <1>3, <1>4 DEF Events

-----------------------------------------------------------------------------
(* The lines these clones write.                                           *)

AllVerdicts == {[kind |-> "check", name |-> Check, passed |-> ok, rev |-> Rev,
                 author |-> Author, at |-> t] : ok \in BOOLEAN, t \in Times}

WrittenRecords == Remarks \cup Settlings \cup AllVerdicts

TheOpening == [kind |-> "opened", id |-> Proposal, title |-> Body, target |-> Trunk,
               base |-> Rev, author |-> Author, at |-> 0]

AllEndings == {[kind |-> k, id |-> Proposal, author |-> Author, at |-> t] :
                  k \in {"landed", "abandoned"}, t \in Times}

AllMoves == {[kind |-> "retargeted", id |-> Proposal, target |-> b, author |-> Author,
              at |-> t] : b \in Branches, t \in Times}

WrittenEvents == {TheOpening} \cup AllEndings \cup AllMoves

RecordTexts == {ToLine(r) : r \in WrittenRecords}
               \cup {[Plain EXCEPT !.kind = "newer", !.author = Author, !.at = t] : t \in Times}

EventTexts == {EventLine(e) : e \in WrittenEvents}
              \cup {[PlainEvent EXCEPT !.kind = "newer", !.id = Proposal, !.author = Author,
                                       !.at = t] : t \in Times}

Texts(log) == IF log = "events" THEN EventTexts ELSE RecordTexts

LEMMA TheConstants ==
    /\ Rev \in Shas /\ Trunk \in Branches /\ Body \in Said /\ Author \in Said /\ Check \in Said
    /\ Proposal \in Ids /\ (CHOOSE a \in Anchors : TRUE) \in Anchors
    /\ Times \subseteq Moments /\ 0 \in Times
    /\ Rev # Absent
<1>1. Anchors # {}
  BY ReplicasAssumption
<1>2. (CHOOSE a \in Anchors : TRUE) \in Anchors
  BY <1>1
<1>3. Times \subseteq Moments /\ 0 \in Times
  BY ReplicasAssumption DEF Times, Moments
<1>. QED  BY <1>2, <1>3, ReplicasAssumption, WireAssumption

LEMMA RemarksAreNotes ==
    ASSUME NEW r \in Remarks
    PROVE  /\ r \in Notes /\ r.kind = "comment" /\ r.rev = Rev
           /\ \E t \in Times : r = CommentAt(t) /\ r.at = t
<1>1. PICK t \in Times : r = CommentAt(t)
  BY DEF Remarks
<1>2. PICK blank : blank = [kind |-> "comment", id |-> Absent, rev |-> Rev,
                            anchor |-> CHOOSE a \in Anchors : TRUE, body |-> Body,
                            author |-> Author, at |-> t]
  OBVIOUS
<1>3. PICK name : name = Digest([ToLine(blank) EXCEPT !.id = Absent])
  OBVIOUS
<1>4. r = [blank EXCEPT !.id = name]
  BY <1>1, <1>2, <1>3 DEF CommentAt, WithId
<1>5. r.id \in Ids
  BY ReplicasAssumption
<1>6. PICK place : place = (CHOOSE a \in Anchors : TRUE)
  OBVIOUS
<1>7. r = [kind |-> "comment", id |-> name, rev |-> Rev, anchor |-> place, body |-> Body,
           author |-> Author, at |-> t]
  BY <1>2, <1>4, <1>6
<1>8. place \in Anchors /\ name \in Ids
  BY <1>5, <1>6, <1>7, TheConstants
<1>. /\ Rev \in Shas /\ Body \in Said /\ Author \in Said /\ t \in Moments
     /\ "comment" \in {"comment", "rationale"}
  BY TheConstants
<1>9. r \in Notes
  BY <1>7, <1>8 DEF Notes
<1>10. r.kind = "comment" /\ r.rev = Rev /\ r.at = t
  BY <1>7
<1>. QED  BY <1>1, <1>9, <1>10

LEMMA SettlingsAreResolutions ==
    ASSUME NEW r \in Settlings
    PROVE  /\ r \in Resolutions /\ r.kind = "resolve"
           /\ \E note \in Remarks : r.target = note.id
<1>1. PICK note \in Remarks, t \in Times : r = ResolutionAt(note.id, t)
  BY DEF Settlings
<1>2. PICK blank : blank = [kind |-> "resolve", id |-> Absent, target |-> note.id,
                            author |-> Author, at |-> t]
  OBVIOUS
<1>3. PICK name : name = Digest([ToLine(blank) EXCEPT !.id = Absent])
  OBVIOUS
<1>4. r = [blank EXCEPT !.id = name]
  BY <1>1, <1>2, <1>3 DEF ResolutionAt, WithId
<1>5. r.id \in Ids /\ note.id \in Ids
  BY ReplicasAssumption
<1>6. r = [kind |-> "resolve", id |-> name, target |-> note.id, author |-> Author, at |-> t]
  BY <1>2, <1>4
<1>7. r \in Resolutions
  BY <1>5, <1>6, TheConstants DEF Resolutions
<1>. QED  BY <1>6, <1>7

LEMMA WrittenRecordsAreRecords ==
    /\ WrittenRecords \subseteq Records
    /\ AreLines(WrittenRecords)
    /\ \A r \in WrittenRecords : r.kind = "comment" <=> r \in Remarks
    /\ \A r \in WrittenRecords : r.kind = "resolve" <=> r \in Settlings
    /\ \A r \in WrittenRecords : r.kind \in {"comment", "resolve", "check"}
    /\ \A r \in WrittenRecords : r.kind # "resolve" => r.rev = Rev
<1>1. ASSUME NEW r \in AllVerdicts
      PROVE  r \in Verdicts /\ r.kind = "check" /\ r.rev = Rev
  <2>1. PICK ok \in BOOLEAN, t \in Times :
           r = [kind |-> "check", name |-> Check, passed |-> ok, rev |-> Rev,
                author |-> Author, at |-> t]
    BY DEF AllVerdicts
  <2>2. r \in Verdicts
    BY <2>1, TheConstants DEF Verdicts
  <2>. QED  BY <2>1, <2>2
<1>2. \A r \in Remarks : r \in Notes /\ r.kind = "comment" /\ r.rev = Rev
  BY RemarksAreNotes
<1>3. \A r \in Settlings : r \in Resolutions /\ r.kind = "resolve"
  BY SettlingsAreResolutions
<1>. QED  BY <1>1, <1>2, <1>3 DEF WrittenRecords, Records, AreLines, LineKinds

LEMMA WrittenEventsAreEvents ==
    /\ WrittenEvents \subseteq Events
    /\ \A e \in WrittenEvents : e.kind \in EventKinds /\ e.at \in Times
    /\ \A e \in WrittenEvents : e.kind = "opened" <=> e = TheOpening
    /\ \A e \in WrittenEvents : e.kind = "retargeted" => e.target \in Branches
<1>1. TheOpening \in Openings
  BY TheConstants DEF TheOpening, Openings, Moments
<1>2. ASSUME NEW e \in AllEndings
      PROVE  e \in Endings /\ e.kind \in {"landed", "abandoned"} /\ e.at \in Times
  <2>1. PICK k \in {"landed", "abandoned"}, t \in Times :
           e = [kind |-> k, id |-> Proposal, author |-> Author, at |-> t]
    BY DEF AllEndings
  <2>. QED  BY <2>1, TheConstants DEF Endings
<1>3. ASSUME NEW e \in AllMoves
      PROVE  /\ e \in Retargets /\ e.kind = "retargeted" /\ e.at \in Times
             /\ e.target \in Branches
  <2>1. PICK b \in Branches, t \in Times :
           e = [kind |-> "retargeted", id |-> Proposal, target |-> b, author |-> Author, at |-> t]
    BY DEF AllMoves
  <2>. QED  BY <2>1, TheConstants DEF Retargets
<1>4. TheOpening.kind = "opened" /\ TheOpening.at \in Times
  BY TheConstants DEF TheOpening
<1>. QED  BY <1>1, <1>2, <1>3, <1>4 DEF WrittenEvents, Events, EventKinds

(* A line of these clones is one of their records, or is passed over.      *)
LEMMA ARecordTextReads ==
    ASSUME NEW l \in RecordTexts
    PROVE  \/ \E r \in WrittenRecords : l = ToLine(r) /\ ParseLine(l) = Accept(r)
           \/ ParseLine(l) = Refuse("unknown kind")
<1>1. CASE \E r \in WrittenRecords : l = ToLine(r)
  BY <1>1, WrittenRecordsAreRecords, RecordsComeBack
<1>2. CASE \E t \in Times : l = [Plain EXCEPT !.kind = "newer", !.author = Author, !.at = t]
  <2>1. PICK t \in Times : l = [Plain EXCEPT !.kind = "newer", !.author = Author, !.at = t]
    BY <1>2
  <2>2. l.v = Version /\ l.kind = "newer" /\ l.at = t
    BY <2>1 DEF Plain
  <2>. QED  BY <2>2, TheConstants DEF ParseLine, Kinds, Named
<1>. QED  BY <1>1, <1>2 DEF RecordTexts

LEMMA AnEventTextReads ==
    ASSUME NEW l \in EventTexts
    PROVE  \/ \E e \in WrittenEvents : l = EventLine(e) /\ ParseEvent(l) = Accept(e)
           \/ ParseEvent(l) = Refuse("unknown kind") /\ l.kind = "newer"
<1>1. CASE \E e \in WrittenEvents : l = EventLine(e)
  BY <1>1, WrittenEventsAreEvents, EventsComeBack
<1>2. CASE \E t \in Times : l = [PlainEvent EXCEPT !.kind = "newer", !.id = Proposal,
                                                   !.author = Author, !.at = t]
  <2>1. PICK t \in Times : l = [PlainEvent EXCEPT !.kind = "newer", !.id = Proposal,
                                                  !.author = Author, !.at = t]
    BY <1>2
  <2>2. l.v = Version /\ l.kind = "newer" /\ l.at = t /\ l.id = Proposal /\ l.author = Author
    BY <2>1 DEF PlainEvent
  <2>3. trim[Author] # Absent
    BY TheConstants, SaidIsTrimmed, SaidIsNotBlank
  <2>. QED  BY <2>2, <2>3, TheConstants DEF ParseEvent, EventKinds
<1>. QED  BY <1>1, <1>2 DEF EventTexts

(* What of an event its line shows.                                        *)
LEMMA AnEventShows ==
    ASSUME NEW e \in WrittenEvents, NEW l, l = EventLine(e)
    PROVE  /\ l.kind = e.kind /\ l.at = e.at
           /\ e.kind = "retargeted" => l.target = e.target
           /\ "status" \notin DOMAIN l
<1>1. PICK common : common = [PlainEvent EXCEPT !.kind = e.kind, !.id = e.id,
                                                !.author = e.author, !.at = e.at]
  OBVIOUS
<1>2. /\ common.kind = e.kind /\ common.at = e.at
      /\ DOMAIN common = {"v", "kind", "id", "title", "target", "base", "author", "at"}
  BY <1>1 DEF PlainEvent
<1>3. e.kind \in EventKinds
  BY WrittenEventsAreEvents
<1>4. CASE e.kind = "opened"
  <2>1. l = [common EXCEPT !.title = e.title, !.target = e.target, !.base = e.base]
    BY <1>1, <1>4 DEF EventLine
  <2>. QED  BY <1>2, <1>4, <2>1
<1>5. CASE e.kind = "retargeted"
  <2>1. l = [common EXCEPT !.target = e.target]
    BY <1>1, <1>5 DEF EventLine
  <2>. QED  BY <1>2, <1>5, <2>1
<1>6. CASE e.kind \in {"landed", "abandoned"}
  <2>1. l = common
    BY <1>1, <1>6 DEF EventLine
  <2>. QED  BY <1>2, <1>6, <2>1
<1>. QED  BY <1>3, <1>4, <1>5, <1>6 DEF EventKinds

-----------------------------------------------------------------------------
(* What a clone reads out of its two logs.                                 *)

(* What lines say, in no order.                                            *)
HeardIn(S) == {r \in WrittenRecords : ToLine(r) \in S}
ToldIn(S)  == {e \in WrittenEvents : EventLine(e) \in S}

(* Every answer among these lines is to a note among those.                *)
Tended(S, T) == \A r \in HeardIn(S) : IsAnchored(r, HeardIn(T))
Anchored(S)  == Tended(S, S)

LEMMA LinesAreRead ==
    ASSUME NEW texts \in Seq(RecordTexts), NEW read, read = ReadNote(ParsedLines(texts))
    PROVE  /\ read.ok
           /\ read.records \in Seq(WrittenRecords)
           /\ ToSet(read.records) = HeardIn(ToSet(texts))
<1>1. PICK lines : lines = ParsedLines(texts)
  OBVIOUS
<1>2. /\ DOMAIN lines = DOMAIN texts /\ DOMAIN lines = 1..Len(texts) /\ Len(texts) \in Nat
      /\ \A i \in DOMAIN lines : lines[i] = ParseLine(texts[i]) /\ texts[i] \in RecordTexts
  BY <1>1 DEF ParsedLines
<1>3. Len(lines) = Len(texts)
  BY <1>1, <1>2 DEF ParsedLines
<1>4. ASSUME NEW i \in DOMAIN lines
      PROVE  /\ lines[i].ok \/ lines[i].why = "unknown kind"
             /\ lines[i].ok => /\ lines[i].record \in WrittenRecords
                               /\ texts[i] = ToLine(lines[i].record)
  <2>1. PICK l : l = texts[i]
    OBVIOUS
  <2>2. PICK line : line = lines[i]
    OBVIOUS
  <2>5. l \in RecordTexts /\ line = ParseLine(l)
    BY <1>2, <2>1, <2>2
  <2>3. CASE \E r \in WrittenRecords : l = ToLine(r) /\ ParseLine(l) = Accept(r)
    BY <2>1, <2>2, <2>3, <2>5 DEF Accept
  <2>4. CASE ParseLine(l) = Refuse("unknown kind")
    <3>1. line = [ok |-> FALSE, why |-> "unknown kind"]
      BY <2>4, <2>5 DEF Refuse
    <3>2. line.why = "unknown kind" /\ ~line.ok
      BY <3>1
    <3>. QED  BY <2>2, <3>2
  <2>. QED  BY <2>3, <2>4, <2>5, ARecordTextReads
<1>5. PICK kept : kept = FoldLeft(Keep, <<>>, lines)
  OBVIOUS
<1>6. kept \in Seq(WrittenRecords) /\ KeptInOrder(kept, lines, Len(lines))
  BY <1>2, <1>3, <1>4, <1>5, ANoteKeeps
<1>7. PICK at \in Seq(Nat) : IsKept(kept, lines, Len(lines), at)
  BY <1>6 DEF KeptInOrder
<1>8. read.records = kept /\ read.ok
  BY <1>1, <1>4, <1>5 DEF ReadNote
<1>9. ASSUME NEW r \in ToSet(kept)  PROVE r \in HeardIn(ToSet(texts))
  <2>1. PICK k \in DOMAIN kept : r = kept[k]
    BY <1>9 DEF ToSet
  <2>2. at[k] \in DOMAIN texts /\ texts[at[k]] = ToLine(r) /\ r \in WrittenRecords
    BY <1>2, <1>3, <1>4, <1>7, <2>1 DEF IsKept
  <2>. QED  BY <2>2 DEF HeardIn, ToSet
<1>10. ASSUME NEW r \in HeardIn(ToSet(texts))  PROVE r \in ToSet(kept)
  <2>1. PICK i \in DOMAIN texts : ToLine(r) = texts[i]
    BY <1>10 DEF HeardIn, ToSet
  <2>2. r \in WrittenRecords
    BY <1>10 DEF HeardIn
  <2>3. ParseLine(texts[i]) = Accept(r)
    BY <2>1, <2>2, WrittenRecordsAreRecords, RecordsComeBack
  <2>4. lines[i].ok /\ lines[i].record = r /\ i \in 1..Len(lines)
    BY <1>2, <1>3, <2>3 DEF Accept
  <2>5. PICK k \in DOMAIN kept : at[k] = i
    BY <1>7, <2>4 DEF IsKept
  <2>6. kept[k] = r
    BY <1>7, <2>4, <2>5 DEF IsKept
  <2>. QED  BY <2>6 DEF ToSet
<1>. QED  BY <1>6, <1>8, <1>9, <1>10

LEMMA EventsAreRead ==
    ASSUME NEW texts \in Seq(EventTexts), NEW read, read = ReadNote(ParsedEvents(texts))
    PROVE  /\ read.ok
           /\ read.records \in Seq(WrittenEvents)
           /\ ToSet(read.records) = ToldIn(ToSet(texts))
           /\ \A k, m \in DOMAIN read.records : k < m =>
                 \E i, j \in DOMAIN texts : /\ i < j
                                            /\ texts[i] = EventLine(read.records[k])
                                            /\ texts[j] = EventLine(read.records[m])
<1>1. PICK lines : lines = ParsedEvents(texts)
  OBVIOUS
<1>2. /\ DOMAIN lines = DOMAIN texts /\ DOMAIN lines = 1..Len(texts) /\ Len(texts) \in Nat
      /\ \A i \in DOMAIN lines : lines[i] = ParseEvent(texts[i]) /\ texts[i] \in EventTexts
  BY <1>1 DEF ParsedEvents
<1>3. Len(lines) = Len(texts)
  BY <1>1, <1>2 DEF ParsedEvents
<1>4. ASSUME NEW i \in DOMAIN lines
      PROVE  /\ lines[i].ok \/ lines[i].why = "unknown kind"
             /\ lines[i].ok => /\ lines[i].record \in WrittenEvents
                               /\ texts[i] = EventLine(lines[i].record)
  <2>1. PICK l : l = texts[i]
    OBVIOUS
  <2>2. PICK line : line = lines[i]
    OBVIOUS
  <2>5. l \in EventTexts /\ line = ParseEvent(l)
    BY <1>2, <2>1, <2>2
  <2>3. CASE \E e \in WrittenEvents : l = EventLine(e) /\ ParseEvent(l) = Accept(e)
    BY <2>1, <2>2, <2>3, <2>5 DEF Accept
  <2>4. CASE ParseEvent(l) = Refuse("unknown kind")
    <3>1. line = [ok |-> FALSE, why |-> "unknown kind"]
      BY <2>4, <2>5 DEF Refuse
    <3>2. line.why = "unknown kind" /\ ~line.ok
      BY <3>1
    <3>. QED  BY <2>2, <3>2
  <2>. QED  BY <2>3, <2>4, <2>5, AnEventTextReads
<1>5. PICK kept : kept = FoldLeft(Keep, <<>>, lines)
  OBVIOUS
<1>6. kept \in Seq(WrittenEvents) /\ KeptInOrder(kept, lines, Len(lines))
  BY <1>2, <1>3, <1>4, <1>5, ANoteKeeps
<1>7. PICK at \in Seq(Nat) : IsKept(kept, lines, Len(lines), at)
  BY <1>6 DEF KeptInOrder
<1>8. read.records = kept /\ read.ok
  BY <1>1, <1>4, <1>5 DEF ReadNote
<1>9. ASSUME NEW k \in DOMAIN kept
      PROVE  at[k] \in DOMAIN texts /\ texts[at[k]] = EventLine(kept[k]) /\ kept[k] \in WrittenEvents
  BY <1>2, <1>3, <1>4, <1>7 DEF IsKept
<1>10. ASSUME NEW e \in ToldIn(ToSet(texts))  PROVE e \in ToSet(kept)
  <2>1. PICK i \in DOMAIN texts : EventLine(e) = texts[i]
    BY <1>10 DEF ToldIn, ToSet
  <2>2. e \in WrittenEvents
    BY <1>10 DEF ToldIn
  <2>3. ParseEvent(texts[i]) = Accept(e)
    BY <2>1, <2>2, WrittenEventsAreEvents, EventsComeBack
  <2>4. lines[i].ok /\ lines[i].record = e /\ i \in 1..Len(lines)
    BY <1>2, <1>3, <2>3 DEF Accept
  <2>5. PICK k \in DOMAIN kept : at[k] = i
    BY <1>7, <2>4 DEF IsKept
  <2>6. kept[k] = e
    BY <1>7, <2>4, <2>5 DEF IsKept
  <2>. QED  BY <2>6 DEF ToSet
<1>11. ASSUME NEW k \in DOMAIN kept, NEW m \in DOMAIN kept, k < m
       PROVE  \E i, j \in DOMAIN texts : /\ i < j /\ texts[i] = EventLine(kept[k])
                                         /\ texts[j] = EventLine(kept[m])
  <2>1. at[k] < at[m]
    BY <1>7, <1>11 DEF IsKept
  <2>. QED  BY <1>9, <2>1
<1>12. ToSet(kept) \subseteq ToldIn(ToSet(texts))
  BY <1>9 DEF ToSet, ToldIn
<1>13. /\ read.ok /\ read.records \in Seq(WrittenEvents)
       /\ ToSet(read.records) = ToldIn(ToSet(texts))
  BY <1>6, <1>8, <1>10, <1>12
<1>. QED  BY <1>8, <1>11, <1>13

Told(ledger) == ReadNote(ParsedEvents(ledger)).records

(* A log that was opened reads exactly when its answers are to notes of it,*)
(* and is then the review its lines say it is.                             *)
LEMMA AReviewReads ==
    ASSUME NEW ledger \in Seq(EventTexts), Opening \in ToSet(ledger),
           NEW records \in Seq(RecordTexts),
           NEW told, told = Told(ledger), NEW p, p = ReadLogs(ledger, records)
    PROVE  /\ p.ok \in BOOLEAN /\ (p.ok <=> Anchored(ToSet(records)))
           /\ p.ok => /\ p.revs = <<Rev>>
                      /\ p.state = StateOf(told)
                      /\ p.target = Target(OpeningOf(told).target, told)
                      /\ p.comments \in Seq(WrittenRecords)
                      /\ Says(p, HeardIn(ToSet(records)))
<1>1. PICK e : e = ReadNote(ParsedEvents(ledger))
  OBVIOUS
<1>2. PICK r : r = ReadNote(ParsedLines(records))
  OBVIOUS
<1>3. /\ e.ok /\ e.records \in Seq(WrittenEvents) /\ ToSet(e.records) = ToldIn(ToSet(ledger))
      /\ told = e.records
  BY <1>1, EventsAreRead DEF Told
<1>4. /\ r.ok /\ r.records \in Seq(WrittenRecords)
      /\ ToSet(r.records) = HeardIn(ToSet(records))
  BY <1>2, LinesAreRead
<1>5. PICK solo : solo = <<Rev>>
  OBVIOUS
<1>6. PICK tales : tales = [c \in {Rev} |-> told]
  OBVIOUS
<1>7. PICK filed : filed = [c \in {Rev} |-> r.records]
  OBVIOUS
<1>8. p = Rebuild(solo, tales, filed)
  BY <1>1, <1>2, <1>3, <1>4, <1>5, <1>6, <1>7 DEF ReadLogs
<1>9. /\ solo \in Seq({Rev}) /\ solo # <<>> /\ Len(solo) = 1 /\ solo[1] = Rev
      /\ DOMAIN solo = {1} /\ ToSet(solo) = {Rev}
  BY <1>5 DEF ToSet
<1>10. tales[solo[1]] = told /\ filed[solo[1]] = r.records
  BY <1>6, <1>7, <1>9
<1>11. PICK logs : logs = NotesOf(solo, filed)
  OBVIOUS
<1>12. Len(logs) = 1 /\ logs[1] = r.records
  BY <1>9, <1>10, <1>11 DEF NotesOf
<1>13. UpToNote(logs, 1) = HeardIn(ToSet(records))
  <2>1. 1..1 = {1}
    OBVIOUS
  <2>. QED  BY <1>4, <1>12, <2>1 DEF UpToNote
<1>14. HasOpening(told)
  <2>1. TheOpening \in WrittenEvents /\ TheOpening.kind = "opened" /\ Opening = EventLine(TheOpening)
    BY DEF WrittenEvents, TheOpening, Opening
  <2>2. TheOpening \in ToSet(told)
    BY <1>3, <2>1 DEF ToldIn
  <2>. QED  BY <2>1, <2>2 DEF HasOpening, IsOpening, ToSet
<1>15. NoneTwice(solo)
  BY <1>9 DEF NoneTwice
<1>16. LogsRead(solo, logs) <=> Anchored(ToSet(records))
  <2>1. \A x \in ToSet(r.records) : IsPlaced(x, solo)
    <3>1. ASSUME NEW x \in ToSet(r.records)  PROVE IsPlaced(x, solo)
      <4>1. x \in WrittenRecords
        BY <1>4 DEF HeardIn
      <4>. QED  BY <1>9, <4>1, WrittenRecordsAreRecords DEF IsPlaced, IsAboutCode
    <3>. QED  BY <3>1
  <2>2. NoteReads(solo, logs[1], UpToNote(logs, 1)) <=> Anchored(ToSet(records))
    BY <1>4, <1>12, <1>13, <2>1 DEF NoteReads, Anchored, Tended
  <2>3. 1..Len(logs) = {1}
    BY <1>12
  <2>. QED  BY <2>2, <2>3 DEF LogsRead
<1>17. /\ p.ok \in BOOLEAN /\ (p.ok <=> Anchored(ToSet(records)))
       /\ p.ok => ReadsAs(p, solo, told, logs, WrittenRecords)
  <2>1. PICK L : L = WrittenRecords
    OBVIOUS
  <2>2. AreLines(L) /\ \A i \in DOMAIN solo : filed[solo[i]] \in Seq(L)
    BY <1>4, <1>9, <1>10, <2>1, WrittenRecordsAreRecords
  <2>3. tales[solo[1]] \in Seq(WrittenEvents)
    BY <1>3, <1>10
  <2>4. /\ p.ok \in BOOLEAN
        /\ p.ok <=> /\ HasOpening(tales[solo[1]]) /\ NoneTwice(solo) /\ LogsRead(solo, logs)
        /\ p.ok => ReadsAs(p, solo, tales[solo[1]], logs, L)
    BY <1>8, <1>9, <1>11, <2>2, <2>3, WhatALogSays
  <2>. QED  BY <1>10, <1>14, <1>15, <1>16, <2>1, <2>4
<1>. QED  BY <1>5, <1>12, <1>13, <1>17 DEF ReadsAs

-----------------------------------------------------------------------------
(* The inductive invariant.                                                *)

AllTexts == EventTexts \cup RecordTexts

VersionsOK ==
    /\ versions \in [Logs -> Seq([lines : Seq(AllTexts), past : SUBSET Nat])]
    /\ \A log \in Logs : \A v \in DOMAIN versions[log] :
          /\ LinesAt(log, v) \in Seq(Texts(log))
          /\ versions[log][v].past \subseteq 1..(v - 1)
          /\ 1 \in History(log, v)

RefsOK ==
    /\ tip \in [Clones -> [Logs -> Nat]] /\ fetched \in [Clones -> [Logs -> Nat]]
    /\ \A c \in Clones, log \in Logs : /\ tip[c][log] \in DOMAIN versions[log]
                                       /\ fetched[c][log] \in DOMAIN versions[log]

WritingOK ==
    \A w \in writing : /\ w.clone \in Clones /\ w.log \in Logs
                       /\ w.line \in Texts(w.log) /\ w.read \in Seq(Texts(w.log))

DecidingOK ==
    \A d \in deciding : d.clone \in Clones /\ d.log \in Logs /\ d.line \in Texts(d.log)

TypeOK ==
    /\ VersionsOK /\ RefsOK /\ WritingOK /\ DecidingOK
    /\ risked \in [Logs -> SUBSET AllTexts]
    /\ now \in Times /\ appends \in Nat /\ merges \in Nat

(* What an append did not read when it began is at risk from then on.      *)
ReadOrRisked ==
    \A w \in writing : ToSet(LinesIn(w.clone, w.log)) \subseteq ToSet(w.read) \cup risked[w.log]

(* Merging sorts the endings of a log; an append puts one behind another   *)
(* only where it wrote late.                                               *)
EndsInOrder(s) ==
    \A i, j \in DOMAIN s : s[i].kind = "landed" /\ s[j].kind = "abandoned" => j < i

(* Of a log, with the lines at risk and the endings written late: what it  *)
(* may lack is a note that was at risk, and its endings are in order       *)
(* unless one of them was late.                                            *)
Sound(log, s, atRisk, tooLate) ==
    /\ log = "events"  => Opening \in ToSet(s) /\ (EndsInOrder(s) \/ tooLate \cap ToSet(s) # {})
    /\ log = "records" => Tended(ToSet(s), ToSet(s) \cup atRisk)

(* A line somebody decided on answers a note of the log, or one at risk.   *)
Fits(log, s, line, atRisk) == log = "records" => Tended({line}, ToSet(s) \cup atRisk)

VersionsAreSound ==
    \A log \in Logs : \A v \in DOMAIN versions[log] :
        Sound(log, LinesAt(log, v), risked["records"], late)

AppendsAreSound ==
    \A w \in writing : /\ Sound(w.log, w.read, risked["records"], late)
                       /\ Fits(w.log, w.read, w.line, risked["records"])

DecisionsAreSound ==
    \A d \in deciding : Fits(d.log, LinesIn(d.clone, d.log), d.line, risked["records"])

Inv == /\ TypeOK /\ VersionsAreSound /\ AppendsAreSound /\ DecisionsAreSound
       /\ ReadOrRisked /\ AppendsAreNotUndone

LEMMA TendedByMore ==
    ASSUME NEW S, NEW T, NEW U, Tended(S, T), T \subseteq U
    PROVE  Tended(S, U)
<1>1. HeardIn(T) \subseteq HeardIn(U)
  BY DEF HeardIn
<1>. QED  BY <1>1 DEF Tended, IsAnchored

LEMMA TendedTogether ==
    ASSUME NEW S, NEW T, NEW U, Tended(S, U), Tended(T, U)
    PROVE  Tended(S \cup T, U)
BY DEF Tended, HeardIn

(* What is sound stays so as more is at risk and more was late.            *)
LEMMA SoundForGood ==
    ASSUME NEW log, NEW s, NEW R, NEW R2, R \subseteq R2, NEW L, NEW L2, L \subseteq L2
    PROVE  /\ Sound(log, s, R, L) => Sound(log, s, R2, L2)
           /\ \A line : Fits(log, s, line, R) => Fits(log, s, line, R2)
<1>1. ToSet(s) \cup R \subseteq ToSet(s) \cup R2
  OBVIOUS
<1>2. \A S : Tended(S, ToSet(s) \cup R) => Tended(S, ToSet(s) \cup R2)
  BY <1>1, TendedByMore
<1>. QED  BY <1>2 DEF Sound, Fits

(* A line that is no answer, or an answer to a note that is there.         *)
LEMMA OneMoreIsTended ==
    ASSUME NEW T, NEW r \in WrittenRecords, NEW l, l = ToLine(r), IsAnchored(r, HeardIn(T))
    PROVE  Tended({l}, T)
<1>1. ASSUME NEW x \in HeardIn({l})  PROVE x = r
  <2>1. x \in WrittenRecords /\ ToLine(x) = ToLine(r)
    BY DEF HeardIn
  <2>2. Accept(x) = Accept(r)
    BY <2>1, WrittenRecordsAreRecords, RecordsComeBack
  <2>. QED  BY <2>2 DEF Accept
<1>. QED  BY <1>1 DEF Tended

LEMMA ANewerLineIsTended ==
    ASSUME NEW T, NEW l, ParseLine(l) = Refuse("unknown kind")
    PROVE  Tended({l}, T)
<1>1. ASSUME NEW x \in WrittenRecords  PROVE ToLine(x) # l
  <2>1. ParseLine(ToLine(x)) = Accept(x)
    BY WrittenRecordsAreRecords, RecordsComeBack
  <2>2. Accept(x).why = "read" /\ Refuse("unknown kind").why = "unknown kind"
    BY DEF Accept, Refuse
  <2>. QED  BY <2>1, <2>2
<1>2. HeardIn({l}) = {}
  BY <1>1 DEF HeardIn
<1>. QED  BY <1>2 DEF Tended

LEMMA EveryCloneReads ==
    ASSUME TypeOK, VersionsAreSound, NEW c \in Clones, NEW p, p = Review(c)
    PROVE  /\ LinesIn(c, "events") \in Seq(EventTexts)
           /\ LinesIn(c, "records") \in Seq(RecordTexts)
           /\ p.ok \in BOOLEAN /\ (p.ok <=> Anchored(ToSet(LinesIn(c, "records"))))
           /\ p.ok => /\ p.revs = <<Rev>>
                      /\ p.state = StateOf(Told(LinesIn(c, "events")))
                      /\ p.target = Target(OpeningOf(Told(LinesIn(c, "events"))).target,
                                           Told(LinesIn(c, "events")))
                      /\ p.comments \in Seq(WrittenRecords)
                      /\ Says(p, HeardIn(ToSet(LinesIn(c, "records"))))
<1>1. PICK ledger : ledger = LinesIn(c, "events")
  OBVIOUS
<1>2. PICK records : records = LinesIn(c, "records")
  OBVIOUS
<1>3. "events" \in Logs /\ "records" \in Logs
  BY DEF Logs
<1>4. ledger \in Seq(EventTexts) /\ Opening \in ToSet(ledger)
  <2>1. tip[c]["events"] \in DOMAIN versions["events"]
    BY <1>3 DEF TypeOK, RefsOK
  <2>. QED  BY <1>1, <1>3, <2>1 DEF TypeOK, VersionsOK, VersionsAreSound, LinesIn, Texts, Sound
<1>5. records \in Seq(RecordTexts)
  <2>1. tip[c]["records"] \in DOMAIN versions["records"]
    BY <1>3 DEF TypeOK, RefsOK
  <2>. QED  BY <1>2, <1>3, <2>1 DEF TypeOK, VersionsOK, LinesIn, Texts
<1>6. p = ReadLogs(ledger, records)
  BY <1>1, <1>2 DEF Review
<1>. QED  BY <1>1, <1>2, <1>4, <1>5, <1>6, AReviewReads

LEMMA WhatIsWritten ==
    ASSUME TypeOK, VersionsAreSound, NEW c \in Clones, NEW what \in Writable(Review(c))
    PROVE  /\ what.log \in Logs /\ what.line \in Texts(what.log)
           /\ Fits(what.log, LinesIn(c, what.log), what.line, risked["records"])
<1>1. PICK p : p = Review(c)
  OBVIOUS
<1>2. PICK S : S = ToSet(LinesIn(c, "records"))
  OBVIOUS
<1>3. PICK T : T = S \cup risked["records"]
  OBVIOUS
<1>4. HeardIn(S) \subseteq HeardIn(T)
  BY <1>3 DEF HeardIn
<1>5. p.ok
  BY <1>1 DEF Writable
<1>6. /\ Says(p, HeardIn(S))
      /\ \/ \E r \in RecordsOf(p) : what = [log |-> "records", line |-> ToLine(r)]
         \/ \E e \in EventsOf(p) : what = [log |-> "events", line |-> EventLine(e)]
         \/ what = [log |-> "records", line |-> NewerRecord]
         \/ what = [log |-> "events", line |-> NewerEvent]
  BY <1>1, <1>2, <1>5, EveryCloneReads DEF Writable
<1>8. now \in Times
  BY DEF TypeOK
<1>9. ASSUME NEW r \in RecordsOf(p)
      PROVE  r \in WrittenRecords /\ IsAnchored(r, HeardIn(T))
  <2>1. CASE r = NewComment
    <3>1. r \in Remarks
      BY <1>8, <2>1 DEF NewComment, Remarks
    <3>. QED  BY <3>1, RemarksAreNotes DEF WrittenRecords, IsAnchored, IsAnswer
  <2>2. CASE \E note \in Conversation(p) : r = NewResolution(note.id)
    <3>1. PICK note \in Conversation(p) : r = NewResolution(note.id)
      BY <2>2
    <3>2. note \in HeardIn(T) /\ note.kind = "comment"
      BY <1>4, <1>6, <3>1 DEF Conversation, Says, ToSet
    <3>3. note \in Remarks
      BY <3>2, WrittenRecordsAreRecords DEF HeardIn
    <3>4. r \in Settlings
      BY <1>8, <3>1, <3>3 DEF NewResolution, Settlings
    <3>5. PICK blank : blank = [kind |-> "resolve", id |-> Absent, target |-> note.id,
                                author |-> Author, at |-> now]
      OBVIOUS
    <3>6. r = [blank EXCEPT !.id = Digest([ToLine(blank) EXCEPT !.id = Absent])]
      BY <3>1, <3>5 DEF NewResolution, ResolutionAt, WithId
    <3>7. r.target = note.id
      BY <3>5, <3>6
    <3>. QED  BY <3>2, <3>4, <3>7 DEF WrittenRecords, IsAnchored
  <2>3. CASE \E ok \in BOOLEAN : r = NewVerdict(ok)
    <3>1. PICK ok \in BOOLEAN : r = NewVerdict(ok)
      BY <2>3
    <3>2. r \in AllVerdicts /\ r.kind = "check"
      BY <1>8, <3>1 DEF NewVerdict, AllVerdicts
    <3>. QED  BY <3>2 DEF WrittenRecords, IsAnchored, IsAnswer
  <2>. QED  BY <2>1, <2>2, <2>3 DEF RecordsOf
<1>10. ASSUME NEW e \in EventsOf(p)  PROVE e \in WrittenEvents
  <2>1. CASE e \in {NewEnding("abandoned"), NewEnding("landed")}
    BY <1>8, <2>1 DEF NewEnding, AllEndings, WrittenEvents
  <2>2. CASE \E b \in Branches : e = NewRetarget(b)
    BY <1>8, <2>2 DEF NewRetarget, AllMoves, WrittenEvents
  <2>. QED  BY <2>1, <2>2 DEF EventsOf
<1>11. CASE \E r \in RecordsOf(p) : what = [log |-> "records", line |-> ToLine(r)]
  <2>1. PICK r \in RecordsOf(p) : what = [log |-> "records", line |-> ToLine(r)]
    BY <1>11
  <2>2. what.log = "records" /\ what.line = ToLine(r)
    BY <2>1
  <2>3. r \in WrittenRecords /\ Tended({what.line}, T)
    BY <1>9, <2>2, OneMoreIsTended
  <2>. QED  BY <1>2, <1>3, <2>2, <2>3 DEF Logs, Texts, RecordTexts, Fits
<1>12. CASE \E e \in EventsOf(p) : what = [log |-> "events", line |-> EventLine(e)]
  <2>1. PICK e \in EventsOf(p) : what = [log |-> "events", line |-> EventLine(e)]
    BY <1>12
  <2>2. what.log = "events" /\ what.line = EventLine(e) /\ e \in WrittenEvents
    BY <1>10, <2>1
  <2>. QED  BY <2>2 DEF Logs, Texts, EventTexts, Fits
<1>13. CASE what = [log |-> "records", line |-> NewerRecord]
  <2>1. what.log = "records" /\ what.line = NewerRecord
    BY <1>13
  <2>2. NewerRecord \in RecordTexts
    BY <1>8 DEF NewerRecord, RecordTexts
  <2>3. ParseLine(NewerRecord) = Refuse("unknown kind")
    <3>1. /\ NewerRecord.v = Version /\ NewerRecord.kind = "newer" /\ NewerRecord.at = now
      BY DEF NewerRecord, Plain
    <3>. QED  BY <1>8, <3>1, TheConstants DEF ParseLine, Kinds, Named
  <2>4. Tended({NewerRecord}, T)
    BY <2>3, ANewerLineIsTended
  <2>. QED  BY <1>2, <1>3, <2>1, <2>2, <2>4 DEF Logs, Texts, Fits
<1>14. CASE what = [log |-> "events", line |-> NewerEvent]
  <2>1. what.log = "events" /\ what.line = NewerEvent
    BY <1>14
  <2>2. NewerEvent \in EventTexts
    BY <1>8 DEF NewerEvent, EventTexts
  <2>. QED  BY <2>1, <2>2 DEF Logs, Texts, Fits
<1>. QED  BY <1>6, <1>11, <1>12, <1>13, <1>14

-----------------------------------------------------------------------------
(* Merging.                                                                *)

LEMMA ASequenceIsFinite ==
    ASSUME NEW E, NEW s \in Seq(E)
    PROVE  IsFiniteSet(ToSet(s))
<1>1. s \in Surjection(DOMAIN s, ToSet(s))
  BY DEF Surjection, ToSet
<1>2. IsFiniteSet(DOMAIN s)
  <2>1. DOMAIN s = 1..Len(s) /\ Len(s) \in Nat
    OBVIOUS
  <2>. QED  BY <2>1, FS_Interval
<1>. QED  BY <1>1, <1>2, FS_Surjection

(* Every arrangement of a finite set is a sequence of all of it.           *)
LEMMA ArrangementsHaveAll ==
    ASSUME NEW S, IsFiniteSet(S), NEW s \in SetToSeqs(S)
    PROVE  s \in Seq(S) /\ ToSet(s) = S
<1>1. PICK n : n = Cardinality(S)
  OBVIOUS
<1>2. n \in Nat
  BY <1>1, FS_CardinalityType
<1>3. s \in [1..n -> S] /\ \A i, j \in 1..n : i # j => s[i] # s[j]
  BY <1>1 DEF SetToSeqs
<1>4. s \in Injection(1..n, S)
  BY <1>3 DEF Injection, IsInjective
<1>5. Cardinality(1..n) = n
  BY <1>2, FS_Interval
<1>6. s \in Surjection(1..n, S)
  BY <1>1, <1>4, <1>5, FS_Injection
<1>. QED  BY <1>2, <1>3, <1>6 DEF Surjection, ToSet

LEMMA AbandonedComesFirst ==
    ASSUME NEW one, NEW other, one.kind = "abandoned", other.kind = "landed"
    PROVE  TextBefore(one, other)
<1>1. ASSUME NEW text \in {"abandoned", "landed"}
      PROVE  Rank(text) \in DOMAIN Alphabet /\ Alphabet[Rank(text)] = text
  <2>1. text \in ToSet(Alphabet)
    BY ReplicasAssumption
  <2>2. \E i \in DOMAIN Alphabet : Alphabet[i] = text
    BY <2>1 DEF ToSet
  <2>. QED  BY <2>1, <2>2 DEF Rank
<1>2. Rank("abandoned") < Rank("landed")
  BY <1>1, ReplicasAssumption
<1>3. Key(one)[1] = Rank("abandoned")
  BY DEF Key, Named
<1>4. Key(other)[1] = Rank("landed")
  BY DEF Key, Named
<1>5. 1 \in 1..4 /\ 1..(1 - 1) = {}
  OBVIOUS
<1>. QED  BY <1>2, <1>3, <1>4, <1>5 DEF TextBefore

(* A merged note is one of the two, of which the other took nothing, or all*)
(* the lines of both.                                                      *)
LEMMA MergedIs ==
    ASSUME NEW log \in Logs, NEW base, NEW R, NEW L,
           NEW mine \in Seq(Texts(log)), Sound(log, mine, R, L),
           NEW theirs \in Seq(Texts(log)), Sound(log, theirs, R, L),
           NEW m \in MergeNotes(base, mine, theirs)
    PROVE  /\ m \in Seq(Texts(log)) /\ Sound(log, m, R, L)
           /\ \/ m = mine /\ theirs \in {base, mine}
              \/ m = theirs /\ mine = base
              \/ ToSet(m) = ToSet(mine) \cup ToSet(theirs)
<1>1. CASE theirs \in {base, mine}
  BY <1>1 DEF MergeNotes
<1>2. CASE theirs \notin {base, mine} /\ mine = base
  BY <1>2 DEF MergeNotes
<1>3. CASE theirs \notin {base, mine} /\ mine # base
  <2>1. PICK both : both = ToSet(mine) \cup ToSet(theirs)
    OBVIOUS
  <2>2. m \in CatSortUniq(mine, theirs)
    BY <1>3 DEF MergeNotes
  <2>3. m \in SetToSeqs(both) /\ \A i, j \in DOMAIN m : ~(i < j /\ TextBefore(m[j], m[i]))
    BY <2>1, <2>2 DEF CatSortUniq
  <2>4. IsFiniteSet(both)
    BY <2>1, ASequenceIsFinite, FS_Union
  <2>5. m \in Seq(both) /\ ToSet(m) = both
    BY <2>3, <2>4, ArrangementsHaveAll
  <2>6. both \subseteq Texts(log)
    BY <2>1 DEF ToSet
  <2>7. m \in Seq(Texts(log))
    BY <2>5, <2>6
  <2>8. EndsInOrder(m)
    <3>1. ASSUME NEW i \in DOMAIN m, NEW j \in DOMAIN m,
                 m[i].kind = "landed", m[j].kind = "abandoned"
          PROVE  j < i
      <4>1. TextBefore(m[j], m[i])
        BY <3>1, AbandonedComesFirst
      <4>2. i # j /\ i \in Nat /\ j \in Nat
        BY <2>5, <3>1
      <4>. QED  BY <2>3, <4>1, <4>2
    <3>. QED  BY <3>1 DEF EndsInOrder
  <2>9. log = "events" => Opening \in ToSet(m)
    BY <2>1, <2>5 DEF Sound
  <2>10. ASSUME log = "records"  PROVE Tended(ToSet(m), ToSet(m) \cup R)
    <3>1. /\ ToSet(mine) \cup R \subseteq ToSet(m) \cup R
          /\ ToSet(theirs) \cup R \subseteq ToSet(m) \cup R
      BY <2>1, <2>5
    <3>2. Tended(ToSet(mine), ToSet(m) \cup R) /\ Tended(ToSet(theirs), ToSet(m) \cup R)
      BY <2>10, <3>1, TendedByMore DEF Sound
    <3>. QED  BY <2>1, <2>5, <3>2, TendedTogether
  <2>. QED  BY <2>1, <2>5, <2>7, <2>8, <2>9, <2>10 DEF Sound
<1>. QED  BY <1>1, <1>2, <1>3

-----------------------------------------------------------------------------
(* Every step keeps the invariant.                                         *)

LEMMA TextsAreTexts ==
    ASSUME NEW log \in Logs, NEW s \in Seq(Texts(log))
    PROVE  s \in Seq(AllTexts) /\ ToSet(s) \subseteq AllTexts
<1>1. Texts(log) \subseteq AllTexts
  BY DEF Texts, AllTexts
<1>2. s \in Seq(AllTexts)
  BY <1>1
<1>. QED  BY <1>2 DEF ToSet

(* A history is of versions there are.                                     *)
LEMMA HistoriesAreVersions ==
    ASSUME VersionsOK, NEW log \in Logs, NEW v \in DOMAIN versions[log]
    PROVE  /\ History(log, v) \subseteq 1..v /\ History(log, v) \subseteq DOMAIN versions[log]
           /\ 1 \in History(log, v)
<1>1. DOMAIN versions[log] = 1..Len(versions[log]) /\ Len(versions[log]) \in Nat
  BY DEF VersionsOK
<1>2. versions[log][v].past \subseteq 1..(v - 1) /\ 1 \in History(log, v)
  BY DEF VersionsOK
<1>. QED  BY <1>1, <1>2 DEF History

(* Version n is new, it is where c is now, and what c's appends did not     *)
(* read of it is at risk.                                                  *)
Grows(c, log, lines, past, others, n) ==
    /\ VersionsOK'
    /\ n \notin DOMAIN versions[log]
    /\ \A l \in Logs : DOMAIN versions'[l] =
          IF l = log THEN DOMAIN versions[l] \cup {n} ELSE DOMAIN versions[l]
    /\ \A l \in Logs : \A v \in DOMAIN versions[l] : versions'[l][v] = versions[l][v]
    /\ versions'[log][n] = [lines |-> lines, past |-> past]
    /\ tip' \in [Clones -> [Logs -> Nat]]
    /\ \A d \in Clones, l \in Logs :
          tip'[d][l] = IF d = c /\ l = log THEN n ELSE tip[d][l]
    /\ risked' \in [Logs -> SUBSET AllTexts]
    /\ \A l \in Logs : risked[l] \subseteq risked'[l]
    /\ AtRisk(c, log, lines, others) \subseteq risked'[log]

LEMMA PutDoes ==
    ASSUME VersionsOK, RefsOK, risked \in [Logs -> SUBSET AllTexts],
           NEW c \in Clones, NEW log \in Logs, NEW lines \in Seq(Texts(log)), NEW past,
           past \subseteq DOMAIN versions[log], 1 \in past, NEW others,
           Put(c, log, lines, past, others), NEW n, n = Len(versions[log]) + 1
    PROVE  Grows(c, log, lines, past, others, n)
<1>1. PICK new : new = [lines |-> lines, past |-> past]
  OBVIOUS
<1>2. PICK Version0 : Version0 = [lines : Seq(AllTexts), past : SUBSET Nat]
  OBVIOUS
<1>0. versions \in [Logs -> Seq(Version0)]
  BY <1>2 DEF VersionsOK
<1>3. /\ versions \in [Logs -> Seq(Version0)]
      /\ \A l \in Logs : DOMAIN versions[l] = 1..Len(versions[l]) /\ Len(versions[l]) \in Nat
  BY <1>0
<1>4. past \subseteq 1..(n - 1) /\ n \in Nat /\ n \notin DOMAIN versions[log] /\ n > 0
  BY <1>3
<1>5. new \in Version0 /\ new.lines = lines /\ new.past = past
  BY <1>1, <1>2, <1>4, TextsAreTexts
<1>6. versions' = [versions EXCEPT ![log] = Append(versions[log], new)]
  BY <1>1 DEF Put
<1>7. /\ Append(versions[log], new) \in Seq(Version0)
      /\ DOMAIN Append(versions[log], new) = DOMAIN versions[log] \cup {n}
      /\ \A v \in DOMAIN versions[log] : Append(versions[log], new)[v] = versions[log][v]
      /\ Append(versions[log], new)[n] = new
  BY <1>3, <1>4, <1>5
<1>8. versions' \in [Logs -> Seq(Version0)]
  BY <1>3, <1>6, <1>7
<1>9. versions'[log] = Append(versions[log], new) /\ \A l \in Logs \ {log} : versions'[l] = versions[l]
  BY <1>3, <1>6
<1>10. /\ \A l \in Logs : DOMAIN versions'[l] =
             IF l = log THEN DOMAIN versions[l] \cup {n} ELSE DOMAIN versions[l]
       /\ \A l \in Logs : \A v \in DOMAIN versions[l] : versions'[l][v] = versions[l][v]
       /\ versions'[log][n] = new
  BY <1>7, <1>9
<1>11. ASSUME NEW l \in Logs, NEW v \in DOMAIN versions'[l]
       PROVE  /\ versions'[l][v].lines \in Seq(Texts(l))
              /\ versions'[l][v].past \subseteq 1..(v - 1)
              /\ 1 \in versions'[l][v].past \cup {v}
  <2>1. CASE l = log /\ v = n
    BY <1>4, <1>5, <1>10, <2>1
  <2>2. CASE v \in DOMAIN versions[l]
    <3>1. versions'[l][v] = versions[l][v]
      BY <1>10, <2>2
    <3>2. /\ versions[l][v].lines \in Seq(Texts(l)) /\ versions[l][v].past \subseteq 1..(v - 1)
          /\ 1 \in versions[l][v].past \cup {v}
      BY <2>2 DEF VersionsOK, LinesAt, History
    <3>. QED  BY <3>1, <3>2
  <2>. QED  BY <1>10, <2>1, <2>2
<1>12. VersionsOK'
  BY <1>2, <1>8, <1>11 DEF VersionsOK, LinesAt, History
<1>13. /\ tip' = [tip EXCEPT ![c][log] = n] /\ tip \in [Clones -> [Logs -> Nat]]
  BY DEF Put, RefsOK
<1>14. /\ tip' \in [Clones -> [Logs -> Nat]]
       /\ \A d \in Clones, l \in Logs :
             tip'[d][l] = IF d = c /\ l = log THEN n ELSE tip[d][l]
  BY <1>4, <1>13
<1>15. PICK more : more = AtRisk(c, log, lines, others)
  OBVIOUS
<1>16. more \subseteq AllTexts
  BY <1>15, TextsAreTexts DEF AtRisk
<1>17. risked' = [risked EXCEPT ![log] = @ \cup more]
  BY <1>15 DEF Put
<1>18. /\ risked' \in [Logs -> SUBSET AllTexts]
       /\ \A l \in Logs : risked[l] \subseteq risked'[l]
       /\ more \subseteq risked'[log]
  BY <1>16, <1>17
<1>. QED  BY <1>1, <1>4, <1>10, <1>12, <1>14, <1>15, <1>18 DEF Grows

(* A new version keeps the invariant when it has all lines of what it      *)
(* descends from, but for those that were at risk.                         *)
LEMMA PutKeeps ==
    ASSUME Inv, NEW c \in Clones, NEW log \in Logs,
           NEW lines \in Seq(Texts(log)), Sound(log, lines, risked["records"], late'), NEW past,
           past \subseteq DOMAIN versions[log], 1 \in past, tip[c][log] \in past,
           \A u \in past : ToSet(LinesAt(log, u)) \subseteq ToSet(lines) \cup risked[log],
           NEW others, others \subseteq writing, writing' = others,
           Put(c, log, lines, past, others), late \subseteq late', deciding' = deciding,
           fetched' = fetched, now' = now, appends' \in Nat, merges' \in Nat
    PROVE  Inv'
<1>1. PICK n : n = Len(versions[log]) + 1
  OBVIOUS
<1>2. /\ VersionsOK'
      /\ n \notin DOMAIN versions[log]
      /\ \A l \in Logs : DOMAIN versions'[l] =
            IF l = log THEN DOMAIN versions[l] \cup {n} ELSE DOMAIN versions[l]
      /\ \A l \in Logs : \A v \in DOMAIN versions[l] : versions'[l][v] = versions[l][v]
      /\ versions'[log][n] = [lines |-> lines, past |-> past]
      /\ tip' \in [Clones -> [Logs -> Nat]]
      /\ \A d \in Clones, l \in Logs :
            tip'[d][l] = IF d = c /\ l = log THEN n ELSE tip[d][l]
      /\ risked' \in [Logs -> SUBSET AllTexts]
      /\ \A l \in Logs : risked[l] \subseteq risked'[l]
      /\ AtRisk(c, log, lines, others) \subseteq risked'[log]
  <2>1. VersionsOK /\ RefsOK /\ risked \in [Logs -> SUBSET AllTexts]
    BY DEF Inv, TypeOK
  <2>2. Grows(c, log, lines, past, others, n)
    BY <1>1, <2>1, PutDoes
  <2>. QED  BY <2>2 DEF Grows
<1>3. versions'[log][n].lines = lines /\ versions'[log][n].past = past
  BY <1>2
<1>11. /\ \A l \in Logs : \A v \in DOMAIN versions'[l] :
             v \in DOMAIN versions[l] \/ (l = log /\ v = n)
       /\ \A l \in Logs : DOMAIN versions[l] \subseteq DOMAIN versions'[l]
       /\ n \in DOMAIN versions'[log]
  <2>1. \A l \in Logs : DOMAIN versions'[l] =
           IF l = log THEN DOMAIN versions[l] \cup {n} ELSE DOMAIN versions[l]
    BY <1>2
  <2>. QED  BY <2>1
<1>4. RefsOK'
  <2>1. RefsOK
    BY DEF Inv, TypeOK
  <2>2. ASSUME NEW d \in Clones, NEW l \in Logs
        PROVE  tip'[d][l] \in DOMAIN versions'[l] /\ fetched'[d][l] \in DOMAIN versions'[l]
    <3>1. fetched'[d][l] \in DOMAIN versions'[l] /\ tip[d][l] \in DOMAIN versions'[l]
      BY <1>11, <2>1 DEF RefsOK
    <3>. QED  BY <1>2, <1>11, <3>1
  <2>3. tip' \in [Clones -> [Logs -> Nat]] /\ fetched' \in [Clones -> [Logs -> Nat]]
    BY <1>2, <2>1 DEF RefsOK
  <2>. QED  BY <2>2, <2>3 DEF RefsOK
<1>5. WritingOK' /\ DecidingOK'
  <2>1. \A w \in writing' : /\ w.clone \in Clones /\ w.log \in Logs
                             /\ w.line \in Texts(w.log) /\ w.read \in Seq(Texts(w.log))
    BY DEF Inv, TypeOK, WritingOK
  <2>2. \A d \in deciding' : d.clone \in Clones /\ d.log \in Logs /\ d.line \in Texts(d.log)
    BY DEF Inv, TypeOK, DecidingOK
  <2>. QED  BY <2>1, <2>2 DEF WritingOK, DecidingOK, Texts
<1>14. risked["records"] \subseteq risked'["records"]
  BY <1>2 DEF Logs
<1>6. TypeOK'
  BY <1>2, <1>4, <1>5 DEF Inv, TypeOK
<1>7. VersionsAreSound'
  <2>1. ASSUME NEW l \in Logs, NEW v \in DOMAIN versions'[l]
        PROVE  Sound(l, versions'[l][v].lines, risked'["records"], late')
    <3>1. CASE l = log /\ v = n
      <4>1. Sound(log, lines, risked'["records"], late')
        BY <1>14, SoundForGood
      <4>. QED  BY <1>3, <3>1, <4>1
    <3>2. CASE v \in DOMAIN versions[l]
      <4>1. Sound(l, versions[l][v].lines, risked["records"], late)
        BY <3>2 DEF Inv, VersionsAreSound, LinesAt
      <4>2. Sound(l, versions[l][v].lines, risked'["records"], late')
        BY <1>14, <4>1, SoundForGood
      <4>3. versions'[l][v] = versions[l][v]
        BY <1>2, <3>2
      <4>. QED  BY <4>2, <4>3
    <3>. QED  BY <1>11, <3>1, <3>2
  <2>2. \A l \in Logs : \A v \in DOMAIN versions'[l] :
           Sound(l, versions'[l][v].lines, risked'["records"], late')
    BY <2>1
  <2>. QED  BY <2>2 DEF VersionsAreSound, LinesAt, Sound, Tended, HeardIn
<1>8. AppendsAreSound'
  <2>1. ASSUME NEW w \in others
        PROVE  /\ Sound(w.log, w.read, risked'["records"], late')
               /\ Fits(w.log, w.read, w.line, risked'["records"])
    <3>1. /\ Sound(w.log, w.read, risked["records"], late)
          /\ Fits(w.log, w.read, w.line, risked["records"])
      BY DEF Inv, AppendsAreSound
    <3>. QED  BY <1>14, <3>1, SoundForGood
  <2>. QED  BY <2>1 DEF AppendsAreSound, Sound, Fits, Tended, HeardIn
<1>13. DecisionsAreSound'
  <2>1. ASSUME NEW d \in deciding
        PROVE  Fits(d.log, versions'[d.log][tip'[d.clone][d.log]].lines, d.line, risked'["records"])
    <3>0. d.clone \in Clones /\ d.log \in Logs
      BY DEF Inv, TypeOK, DecidingOK
    <3>1. Fits(d.log, LinesIn(d.clone, d.log), d.line, risked["records"])
      BY DEF Inv, DecisionsAreSound
    <3>2. CASE d.clone = c /\ d.log = log
      <4>1. versions'[d.log][tip'[d.clone][d.log]].lines = lines
        BY <1>2, <1>3, <3>0, <3>2
      <4>2. ToSet(LinesIn(c, log)) \subseteq ToSet(lines) \cup risked[log]
        BY DEF LinesIn
      <4>3. log = "records" =>
               ToSet(LinesIn(c, log)) \cup risked["records"] \subseteq ToSet(lines) \cup risked'["records"]
        BY <1>14, <4>2
      <4>. QED  BY <3>1, <3>2, <4>1, <4>3, TendedByMore DEF Fits
    <3>3. CASE ~(d.clone = c /\ d.log = log)
      <4>1. tip'[d.clone][d.log] = tip[d.clone][d.log] /\ tip[d.clone][d.log] \in DOMAIN versions[d.log]
        BY <1>2, <3>0, <3>3 DEF Inv, TypeOK, RefsOK
      <4>2. versions'[d.log][tip'[d.clone][d.log]].lines = LinesIn(d.clone, d.log)
        BY <1>2, <3>0, <4>1 DEF LinesIn, LinesAt
      <4>. QED  BY <1>14, <3>1, <4>2, SoundForGood
    <3>. QED  BY <3>2, <3>3
  <2>. QED  BY <2>1 DEF DecisionsAreSound, LinesIn, LinesAt, Fits, Tended, HeardIn
<1>9. ReadOrRisked'
  <2>1. ASSUME NEW w \in others, NEW x \in ToSet(versions'[w.log][tip'[w.clone][w.log]].lines)
        PROVE  x \in ToSet(w.read) \cup risked'[w.log]
    <3>0. w.clone \in Clones /\ w.log \in Logs /\ w \in writing
      BY DEF Inv, TypeOK, WritingOK
    <3>1. CASE w.clone = c /\ w.log = log
      <4>1. x \in ToSet(lines)
        BY <1>2, <1>3, <3>0, <3>1, <2>1
      <4>2. x \in ToSet(w.read) \/ x \in AtRisk(c, log, lines, others)
        BY <3>1, <4>1 DEF AtRisk
      <4>. QED  BY <1>2, <3>1, <4>2
    <3>2. CASE ~(w.clone = c /\ w.log = log)
      <4>1. tip'[w.clone][w.log] = tip[w.clone][w.log]
        BY <1>2, <3>0, <3>2
      <4>2. tip[w.clone][w.log] \in DOMAIN versions[w.log]
        BY <3>0 DEF Inv, TypeOK, RefsOK
      <4>3. x \in ToSet(LinesIn(w.clone, w.log))
        <5>1. versions'[w.log][tip[w.clone][w.log]] = versions[w.log][tip[w.clone][w.log]]
          BY <1>2, <3>0, <4>2
        <5>. QED  BY <2>1, <4>1, <5>1 DEF LinesIn, LinesAt
      <4>4. x \in ToSet(w.read) \cup risked[w.log]
        BY <3>0, <4>3 DEF Inv, ReadOrRisked
      <4>. QED  BY <1>2, <3>0, <4>4
    <3>. QED  BY <3>1, <3>2
  <2>. QED  BY <2>1 DEF ReadOrRisked, LinesIn, LinesAt
<1>10. AppendsAreNotUndone'
  <2>1. ASSUME NEW l \in Logs, NEW v \in DOMAIN versions'[l], NEW u \in versions'[l][v].past,
               NEW x \in ToSet(versions'[l][u].lines)
        PROVE  x \in ToSet(versions'[l][v].lines) \cup risked'[l]
    <3>1. CASE l = log /\ v = n
      <4>1. u \in past /\ u \in DOMAIN versions[log]
        BY <1>3, <2>1, <3>1
      <4>2. x \in ToSet(LinesAt(log, u))
        BY <1>2, <2>1, <3>1, <4>1 DEF LinesAt
      <4>3. x \in ToSet(lines) \cup risked[log]
        BY <4>1, <4>2
      <4>. QED  BY <1>2, <1>3, <3>1, <4>3
    <3>2. CASE v \in DOMAIN versions[l]
      <4>1. versions'[l][v] = versions[l][v]
        BY <1>2, <3>2
      <4>2. u \in DOMAIN versions[l]
        BY <2>1, <3>2, <4>1, HistoriesAreVersions DEF Inv, TypeOK, History
      <4>3. x \in ToSet(LinesAt(l, u)) /\ u \in versions[l][v].past
        BY <1>2, <2>1, <4>1, <4>2 DEF LinesAt
      <4>4. x \in ToSet(LinesAt(l, v)) \cup risked[l]
        BY <3>2, <4>3 DEF Inv, AppendsAreNotUndone
      <4>5. risked[l] \subseteq risked'[l]
        BY <1>2
      <4>. QED  BY <4>1, <4>4, <4>5 DEF LinesAt
    <3>. QED  BY <1>11, <3>1, <3>2
  <2>. QED  BY <2>1 DEF AppendsAreNotUndone, LinesAt
<1>. QED  BY <1>6, <1>7, <1>8, <1>9, <1>10, <1>13 DEF Inv

LEMMA AncestorsAreIn ==
    ASSUME Inv, NEW log \in Logs, NEW v \in DOMAIN versions[log], NEW u \in History(log, v)
    PROVE  ToSet(LinesAt(log, u)) \subseteq ToSet(LinesAt(log, v)) \cup risked[log]
BY DEF Inv, AppendsAreNotUndone, History

LEMMA Greatest ==
    ASSUME NEW n \in Nat, NEW S \in SUBSET (1..n), S # {}
    PROVE  Max(S) \in S
<1>. DEFINE T == {n - x : x \in S}
<1>1. T \in SUBSET Nat /\ T # {}
  <2>1. \A x \in S : n - x \in Nat
    OBVIOUS
  <2>2. T # {}
    OBVIOUS
  <2>. QED  BY <2>1, <2>2
<1>2. PICK y \in T : \A z \in T : y <= z
  BY <1>1, Least
<1>3. PICK x \in S : y = n - x
  BY <1>2
<1>4. ASSUME NEW z \in S  PROVE x >= z
  <2>1. n - z \in T
    BY <1>4
  <2>2. n - x <= n - z
    BY <1>2, <1>3, <2>1
  <2>. QED  BY <2>2
<1>. QED  BY <1>4 DEF Max

LEMMA TheStart == Init => Inv
<1>. SUFFICES ASSUME Init PROVE Inv
  OBVIOUS
<1>1. PICK none : none = <<>>
  OBVIOUS
<1>2. PICK told : told = <<Opening>>
  OBVIOUS
<1>3. Opening \in EventTexts /\ Opening.kind = "opened"
  <2>1. TheOpening \in WrittenEvents /\ TheOpening.kind = "opened" /\ Opening = EventLine(TheOpening)
    BY DEF WrittenEvents, TheOpening, Opening
  <2>. QED  BY <2>1, AnEventShows DEF EventTexts
<1>4. /\ told \in Seq(EventTexts) /\ ToSet(told) = {Opening} /\ DOMAIN told = {1} /\ told[1] = Opening
  BY <1>2, <1>3 DEF ToSet
<1>5. none \in Seq(RecordTexts) /\ ToSet(none) = {}
  BY <1>1 DEF ToSet
<1>6. Sound("events", told, risked["records"], late)
  BY <1>3, <1>4 DEF Sound, EndsInOrder
<1>7. Sound("records", none, risked["records"], late)
  BY <1>5 DEF Sound, Tended, HeardIn
<1>8. PICK start : start = [log \in Logs |-> <<[lines |-> IF log = "events" THEN told ELSE none,
                                                past |-> {}]>>]
  OBVIOUS
<1>9. versions = start
  BY <1>1, <1>2, <1>8 DEF Init
<1>10. ASSUME NEW log \in Logs
       PROVE  /\ DOMAIN versions[log] = {1} /\ versions[log][1].past = {}
              /\ LinesAt(log, 1) \in Seq(Texts(log))
              /\ Sound(log, LinesAt(log, 1), risked["records"], late)
              /\ versions[log] \in Seq([lines : Seq(AllTexts), past : SUBSET Nat])
  <2>1. PICK first : first = [lines |-> IF log = "events" THEN told ELSE none, past |-> {}]
    OBVIOUS
  <2>2. versions[log] = <<first>> /\ first.lines = (IF log = "events" THEN told ELSE none)
        /\ first.past = {}
    BY <1>8, <1>9, <2>1
  <2>3. first.lines \in Seq(Texts(log)) /\ Sound(log, first.lines, risked["records"], late)
    BY <1>4, <1>5, <1>6, <1>7, <2>2 DEF Texts, Logs
  <2>4. first.lines \in Seq(AllTexts)
    BY <2>3, TextsAreTexts
  <2>5. first \in [lines : Seq(AllTexts), past : SUBSET Nat]
    BY <2>1, <2>2, <2>4
  <2>6. versions[log][1] = first /\ DOMAIN versions[log] = {1}
    BY <2>2
  <2>. QED  BY <2>2, <2>3, <2>5, <2>6 DEF LinesAt
<1>11. VersionsOK
  <2>1. versions \in [Logs -> Seq([lines : Seq(AllTexts), past : SUBSET Nat])]
    BY <1>8, <1>9, <1>10
  <2>. QED  BY <1>10, <2>1 DEF VersionsOK, History
<1>12. RefsOK
  BY <1>10 DEF Init, RefsOK
<1>13. WritingOK /\ DecidingOK /\ AppendsAreSound /\ DecisionsAreSound /\ ReadOrRisked
  BY DEF Init, WritingOK, DecidingOK, AppendsAreSound, DecisionsAreSound, ReadOrRisked
<1>14. risked \in [Logs -> SUBSET AllTexts] /\ now \in Times /\ appends \in Nat /\ merges \in Nat
  BY TheConstants DEF Init
<1>15. VersionsAreSound /\ AppendsAreNotUndone
  BY <1>10 DEF VersionsAreSound, AppendsAreNotUndone
<1>. QED  BY <1>11, <1>12, <1>13, <1>14, <1>15 DEF Inv, TypeOK

(* A step that writes no version and loses none, and after which whatever  *)
(* is under way still fits, keeps the invariant.                           *)
LEMMA NothingWritten ==
    ASSUME Inv, UNCHANGED <<versions, late>>, risked' \in [Logs -> SUBSET AllTexts],
           \A log \in Logs : risked[log] \subseteq risked'[log],
           RefsOK', WritingOK', DecidingOK', AppendsAreSound', DecisionsAreSound', ReadOrRisked',
           now' \in Times, appends' \in Nat, merges' \in Nat
    PROVE  Inv'
<1>1. VersionsOK'
  BY DEF Inv, TypeOK, VersionsOK, LinesAt, History, Texts
<1>2. VersionsAreSound'
  <2>1. risked["records"] \subseteq risked'["records"]
    BY DEF Logs
  <2>2. ASSUME NEW log \in Logs, NEW v \in DOMAIN versions[log]
        PROVE  Sound(log, LinesAt(log, v), risked'["records"], late)
    BY <2>1, SoundForGood DEF Inv, VersionsAreSound
  <2>. QED  BY <2>2 DEF VersionsAreSound, LinesAt, Sound, Tended, HeardIn
<1>3. AppendsAreNotUndone'
  <2>1. ASSUME NEW log \in Logs, NEW v \in DOMAIN versions[log], NEW u \in versions[log][v].past
        PROVE  ToSet(LinesAt(log, u)) \subseteq ToSet(LinesAt(log, v)) \cup risked'[log]
    BY DEF Inv, AppendsAreNotUndone
  <2>. QED  BY <2>1 DEF AppendsAreNotUndone, LinesAt
<1>. QED  BY <1>1, <1>2, <1>3 DEF Inv, TypeOK

LEMMA DecideKeeps ==
    ASSUME Inv, NEW c \in Clones, Decide(c)
    PROVE  Inv'
<1>1. PICK what \in Writable(Review(c)) :
         deciding' = deciding \cup {[clone |-> c, log |-> what.log, line |-> what.line,
                                     turn |-> Turn(c, what.line)]}
  BY DEF Decide
<1>2. PICK d : d = [clone |-> c, log |-> what.log, line |-> what.line, turn |-> Turn(c, what.line)]
  OBVIOUS
<1>3. deciding' = deciding \cup {d} /\ d.clone = c /\ d.log = what.log /\ d.line = what.line
  BY <1>1, <1>2
<1>4. /\ d.log \in Logs /\ d.line \in Texts(d.log)
      /\ Fits(d.log, LinesIn(c, d.log), d.line, risked["records"])
  BY <1>3, WhatIsWritten DEF Inv
<1>5. /\ UNCHANGED <<versions, tip, fetched, writing, risked, late, now, merges>>
      /\ appends' \in Nat
  BY DEF Decide, Inv, TypeOK
<1>6. DecidingOK'
  BY <1>3, <1>4 DEF Inv, TypeOK, DecidingOK, Texts
<1>7. DecisionsAreSound'
  <2>1. \A e \in deciding' : Fits(e.log, LinesIn(e.clone, e.log), e.line, risked["records"])
    BY <1>3, <1>4 DEF Inv, DecisionsAreSound
  <2>. QED  BY <1>5, <2>1 DEF DecisionsAreSound, LinesIn, LinesAt, Fits, Tended, HeardIn
<1>8. RefsOK' /\ WritingOK'
  BY <1>5 DEF Inv, TypeOK, RefsOK, WritingOK, Texts
<1>9. AppendsAreSound' /\ ReadOrRisked'
  BY <1>5 DEF Inv, AppendsAreSound, ReadOrRisked, LinesIn, LinesAt, Sound, Fits, Tended, HeardIn
<1>. QED  BY <1>5, <1>6, <1>7, <1>8, <1>9, NothingWritten DEF Inv, TypeOK

LEMMA BeginAppendKeeps ==
    ASSUME Inv, NEW d \in deciding, BeginAppend(d)
    PROVE  Inv'
<1>1. PICK w : w = [clone |-> d.clone, log |-> d.log, line |-> d.line, turn |-> d.turn,
                    read |-> LinesIn(d.clone, d.log)]
  OBVIOUS
<1>2. PICK c : c = d.clone
  OBVIOUS
<1>3. PICK log : log = d.log
  OBVIOUS
<1>4. PICK lines : lines = LinesIn(c, log)
  OBVIOUS
<1>5. w.clone = c /\ w.log = log /\ w.line = d.line /\ w.read = lines
  BY <1>1, <1>2, <1>3, <1>4
<1>6. /\ writing' = writing \cup {w} /\ deciding' = deciding \ {d}
      /\ UNCHANGED <<versions, tip, fetched, risked, late, now, appends, merges>>
  BY <1>1 DEF BeginAppend
<1>7. /\ c \in Clones /\ log \in Logs /\ d.line \in Texts(log)
      /\ Fits(log, lines, d.line, risked["records"])
  BY <1>2, <1>3, <1>4 DEF Inv, TypeOK, DecidingOK, DecisionsAreSound
<1>8. lines \in Seq(Texts(log)) /\ Sound(log, lines, risked["records"], late)
  <2>1. tip[c][log] \in DOMAIN versions[log]
    BY <1>7 DEF Inv, TypeOK, RefsOK
  <2>. QED  BY <1>4, <1>7, <2>1 DEF Inv, TypeOK, VersionsOK, VersionsAreSound, LinesIn
<1>9. WritingOK' /\ DecidingOK'
  BY <1>5, <1>6, <1>7, <1>8 DEF Inv, TypeOK, WritingOK, DecidingOK, Texts
<1>10. RefsOK'
  BY <1>6 DEF Inv, TypeOK, RefsOK
<1>11. AppendsAreSound'
  <2>1. \A v \in writing' : /\ Sound(v.log, v.read, risked["records"], late)
                             /\ Fits(v.log, v.read, v.line, risked["records"])
    BY <1>5, <1>6, <1>7, <1>8 DEF Inv, AppendsAreSound
  <2>. QED  BY <1>6, <2>1 DEF AppendsAreSound, Sound, Fits, Tended, HeardIn
<1>12. DecisionsAreSound'
  <2>1. \A e \in deciding' : Fits(e.log, LinesIn(e.clone, e.log), e.line, risked["records"])
    BY <1>6 DEF Inv, DecisionsAreSound
  <2>. QED  BY <1>6, <2>1 DEF DecisionsAreSound, LinesIn, LinesAt, Fits, Tended, HeardIn
<1>13. ReadOrRisked'
  <2>1. ASSUME NEW v \in writing'
        PROVE  ToSet(LinesIn(v.clone, v.log)) \subseteq ToSet(v.read) \cup risked[v.log]
    BY <1>4, <1>5, <1>6 DEF Inv, ReadOrRisked
  <2>. QED  BY <1>6, <2>1 DEF ReadOrRisked, LinesIn, LinesAt
<1>. QED  BY <1>6, <1>9, <1>10, <1>11, <1>12, <1>13, NothingWritten DEF Inv, TypeOK

LEMMA FinishAppendKeeps ==
    ASSUME Inv, NEW w \in writing, FinishAppend(w)
    PROVE  Inv'
<1>1. PICK c : c = w.clone
  OBVIOUS
<1>2. PICK log : log = w.log
  OBVIOUS
<1>3. PICK lines : lines = Append(w.read, w.line)
  OBVIOUS
<1>4. PICK past : past = History(log, tip[c][log])
  OBVIOUS
<1>5. /\ c \in Clones /\ log \in Logs /\ w.line \in Texts(log) /\ w.read \in Seq(Texts(log))
      /\ Sound(log, w.read, risked["records"], late)
      /\ Fits(log, w.read, w.line, risked["records"])
  BY <1>1, <1>2 DEF Inv, TypeOK, WritingOK, AppendsAreSound
<1>6. /\ lines \in Seq(Texts(log)) /\ DOMAIN lines = DOMAIN w.read \cup {Len(w.read) + 1}
      /\ \A i \in DOMAIN w.read : lines[i] = w.read[i]
      /\ lines[Len(w.read) + 1] = w.line
  BY <1>3, <1>5
<1>7. ToSet(lines) = ToSet(w.read) \cup {w.line}
  BY <1>6 DEF ToSet
<1>14. late' = late \cup {l \in {w.line} : IsEnding(l) /\ \E e \in ToSet(w.read) : IsEnding(e)}
  BY DEF FinishAppend
<1>15. ASSUME log = "events"  PROVE EndsInOrder(lines) \/ late' \cap ToSet(lines) # {}
  <2>1. CASE late \cap ToSet(w.read) # {}
    BY <1>7, <1>14, <2>1
  <2>2. CASE IsEnding(w.line) /\ \E e \in ToSet(w.read) : IsEnding(e)
    BY <1>7, <1>14, <2>2
  <2>3. CASE EndsInOrder(w.read) /\ ~IsEnding(w.line)
    BY <1>6, <2>3 DEF EndsInOrder, IsEnding
  <2>4. CASE ~\E e \in ToSet(w.read) : IsEnding(e)
    <3>1. \A i \in DOMAIN w.read : w.read[i].kind \notin {"landed", "abandoned"}
      BY <2>4 DEF ToSet, IsEnding
    <3>. QED  BY <1>6, <3>1 DEF EndsInOrder
  <2>. QED  BY <1>5, <1>15, <2>1, <2>2, <2>3, <2>4 DEF Sound
<1>16. ASSUME log = "records"
       PROVE  Tended(ToSet(lines), ToSet(lines) \cup risked["records"])
  <2>1. ToSet(w.read) \cup risked["records"] \subseteq ToSet(lines) \cup risked["records"]
    BY <1>7
  <2>2. Tended(ToSet(w.read), ToSet(lines) \cup risked["records"])
    BY <1>5, <1>16, <2>1, TendedByMore DEF Sound
  <2>3. Tended({w.line}, ToSet(lines) \cup risked["records"])
    BY <1>5, <1>16, <2>1, TendedByMore DEF Fits
  <2>. QED  BY <1>7, <2>2, <2>3, TendedTogether
<1>8. Sound(log, lines, risked["records"], late')
  BY <1>5, <1>7, <1>15, <1>16 DEF Sound
<1>9. tip[c][log] \in DOMAIN versions[log]
  BY <1>5 DEF Inv, TypeOK, RefsOK
<1>10. past \subseteq DOMAIN versions[log] /\ 1 \in past /\ tip[c][log] \in past
  BY <1>4, <1>5, <1>9, HistoriesAreVersions DEF Inv, TypeOK, History
<1>11. \A u \in past : ToSet(LinesAt(log, u)) \subseteq ToSet(lines) \cup risked[log]
  <2>1. ASSUME NEW u \in past
        PROVE  ToSet(LinesAt(log, u)) \subseteq ToSet(LinesIn(c, log)) \cup risked[log]
    BY <1>4, <1>5, <1>9, AncestorsAreIn DEF LinesIn
  <2>2. ToSet(LinesIn(c, log)) \subseteq ToSet(w.read) \cup risked[log]
    BY <1>1, <1>2 DEF Inv, ReadOrRisked
  <2>. QED  BY <1>7, <2>1, <2>2
<1>12. PICK others : others = writing \ {w}
  OBVIOUS
<1>13. /\ Put(c, log, lines, past, others) /\ writing' = others /\ others \subseteq writing
       /\ late \subseteq late' /\ deciding' = deciding
       /\ fetched' = fetched /\ now' = now /\ appends' \in Nat /\ merges' \in Nat
  BY <1>1, <1>2, <1>3, <1>4, <1>12 DEF FinishAppend, Inv, TypeOK
<1>. QED  BY <1>5, <1>6, <1>8, <1>10, <1>11, <1>13, PutKeeps

LEMMA MergeKeeps ==
    ASSUME Inv, NEW c \in Clones, NEW log \in Logs, Merge(c, log)
    PROVE  Inv'
<1>1. PICK mine : mine = tip[c][log]
  OBVIOUS
<1>2. PICK theirs : theirs = fetched[c][log]
  OBVIOUS
<1>3. PICK base : base = Max(History(log, mine) \cap History(log, theirs))
  OBVIOUS
<1>4. PICK past : past = History(log, mine) \cup History(log, theirs)
  OBVIOUS
<1>5. PICK ours : ours = LinesAt(log, mine)
  OBVIOUS
<1>6. PICK others : others = LinesAt(log, theirs)
  OBVIOUS
<1>7. PICK old : old = LinesAt(log, base)
  OBVIOUS
<1>8. PICK lines \in MergeNotes(old, ours, others) : Put(c, log, lines, past, writing)
  BY <1>1, <1>2, <1>3, <1>4, <1>5, <1>6, <1>7 DEF Merge
<1>9. mine \in DOMAIN versions[log] /\ theirs \in DOMAIN versions[log]
  BY <1>1, <1>2 DEF Inv, TypeOK, RefsOK
<1>10. /\ ours \in Seq(Texts(log)) /\ Sound(log, ours, risked["records"], late)
       /\ others \in Seq(Texts(log)) /\ Sound(log, others, risked["records"], late)
  BY <1>5, <1>6, <1>9 DEF Inv, TypeOK, VersionsOK, VersionsAreSound
<1>11. /\ lines \in Seq(Texts(log)) /\ Sound(log, lines, risked["records"], late)
       /\ \/ lines = ours /\ others \in {old, ours}
          \/ lines = others /\ ours = old
          \/ ToSet(lines) = ToSet(ours) \cup ToSet(others)
  BY <1>8, <1>10, MergedIs
<1>12. /\ History(log, mine) \subseteq 1..mine /\ History(log, mine) \subseteq DOMAIN versions[log]
       /\ 1 \in History(log, mine)
       /\ History(log, theirs) \subseteq DOMAIN versions[log] /\ 1 \in History(log, theirs)
  BY <1>9, HistoriesAreVersions DEF Inv, TypeOK
<1>13. base \in History(log, mine) /\ base \in History(log, theirs)
  <2>1. mine \in Nat
    BY <1>1 DEF Inv, TypeOK, RefsOK
  <2>2. PICK both : both = History(log, mine) \cap History(log, theirs)
    OBVIOUS
  <2>3. both \in SUBSET (1..mine) /\ both # {}
    BY <1>12, <2>2
  <2>4. Max(both) \in both
    BY <2>1, <2>3, Greatest
  <2>. QED  BY <1>3, <2>2, <2>4
<1>14. ToSet(old) \subseteq ToSet(ours) \cup risked[log] /\ ToSet(old) \subseteq ToSet(others) \cup risked[log]
  BY <1>5, <1>6, <1>7, <1>9, <1>13, AncestorsAreIn
<1>15. ToSet(ours) \subseteq ToSet(lines) \cup risked[log] /\ ToSet(others) \subseteq ToSet(lines) \cup risked[log]
  BY <1>11, <1>14
<1>16. \A u \in past : ToSet(LinesAt(log, u)) \subseteq ToSet(lines) \cup risked[log]
  <2>1. ASSUME NEW u \in History(log, mine)
        PROVE  ToSet(LinesAt(log, u)) \subseteq ToSet(lines) \cup risked[log]
    BY <1>5, <1>9, <1>15, AncestorsAreIn
  <2>2. ASSUME NEW u \in History(log, theirs)
        PROVE  ToSet(LinesAt(log, u)) \subseteq ToSet(lines) \cup risked[log]
    BY <1>6, <1>9, <1>15, AncestorsAreIn
  <2>. QED  BY <1>4, <2>1, <2>2
<1>17. past \subseteq DOMAIN versions[log] /\ 1 \in past /\ mine \in past
  BY <1>4, <1>12 DEF History
<1>18. /\ late' = late /\ deciding' = deciding /\ writing' = writing /\ fetched' = fetched /\ now' = now
       /\ appends' \in Nat /\ merges' \in Nat
  BY DEF Merge, Inv, TypeOK
<1>. QED  BY <1>1, <1>8, <1>11, <1>16, <1>17, <1>18, PutKeeps

LEMMA FetchKeeps ==
    ASSUME Inv, NEW c \in Clones, NEW d \in Clones, Fetch(c, d)
    PROVE  Inv'
<1>1. /\ fetched' = [fetched EXCEPT ![c] = tip[d]]
      /\ UNCHANGED <<versions, tip, deciding, writing, risked, late, now, appends, merges>>
  BY DEF Fetch
<1>2. RefsOK' /\ WritingOK' /\ DecidingOK'
  BY <1>1 DEF Inv, TypeOK, RefsOK, WritingOK, DecidingOK, Texts
<1>3. AppendsAreSound' /\ DecisionsAreSound' /\ ReadOrRisked'
  BY <1>1 DEF Inv, AppendsAreSound, DecisionsAreSound, ReadOrRisked, LinesIn, LinesAt,
              Sound, Fits, Tended, HeardIn
<1>. QED  BY <1>1, <1>2, <1>3, NothingWritten DEF Inv, TypeOK

LEMMA FastForwardKeeps ==
    ASSUME Inv, NEW c \in Clones, NEW log \in Logs, FastForward(c, log)
    PROVE  Inv'
<1>1. PICK theirs : theirs = fetched[c][log]
  OBVIOUS
<1>2. PICK lines : lines = LinesAt(log, theirs)
  OBVIOUS
<1>3. PICK more : more = AtRisk(c, log, lines, writing)
  OBVIOUS
<1>4. /\ tip' = [tip EXCEPT ![c][log] = theirs]
      /\ risked' = [risked EXCEPT ![log] = @ \cup more]
      /\ UNCHANGED <<versions, fetched, deciding, writing, late, now, appends, merges>>
      /\ tip[c][log] \in versions[log][theirs].past
  BY <1>1, <1>2, <1>3 DEF FastForward
<1>5. tip \in [Clones -> [Logs -> Nat]] /\ risked \in [Logs -> SUBSET AllTexts]
  BY DEF Inv, TypeOK, RefsOK
<1>6. theirs \in Nat /\ theirs \in DOMAIN versions[log]
  BY <1>1 DEF Inv, TypeOK, RefsOK
<1>7. /\ tip' \in [Clones -> [Logs -> Nat]]
      /\ \A d \in Clones, l \in Logs :
            tip'[d][l] = IF d = c /\ l = log THEN theirs ELSE tip[d][l]
  BY <1>4, <1>5, <1>6
<1>8. RefsOK'
  BY <1>4, <1>6, <1>7 DEF Inv, TypeOK, RefsOK
<1>9. more \subseteq AllTexts
  <2>1. lines \in Seq(Texts(log))
    BY <1>2, <1>6 DEF Inv, TypeOK, VersionsOK
  <2>. QED  BY <1>3, <2>1, TextsAreTexts DEF AtRisk
<1>10. /\ risked' \in [Logs -> SUBSET AllTexts]
       /\ \A l \in Logs : risked[l] \subseteq risked'[l]
       /\ more \subseteq risked'[log]
  BY <1>4, <1>5, <1>9
<1>11. ReadOrRisked'
  <2>1. ASSUME NEW w \in writing, NEW x \in ToSet(versions[w.log][tip'[w.clone][w.log]].lines)
        PROVE  x \in ToSet(w.read) \cup risked'[w.log]
    <3>0. w.clone \in Clones /\ w.log \in Logs
      BY DEF Inv, TypeOK, WritingOK
    <3>1. CASE w.clone = c /\ w.log = log
      <4>1. x \in ToSet(lines)
        BY <1>2, <1>7, <2>1, <3>0, <3>1 DEF LinesAt
      <4>2. x \in ToSet(w.read) \/ x \in more
        BY <1>3, <3>1, <4>1 DEF AtRisk
      <4>. QED  BY <1>10, <3>1, <4>2
    <3>2. CASE ~(w.clone = c /\ w.log = log)
      <4>1. x \in ToSet(LinesIn(w.clone, w.log))
        BY <1>7, <2>1, <3>0, <3>2 DEF LinesIn, LinesAt
      <4>2. x \in ToSet(w.read) \cup risked[w.log]
        BY <4>1 DEF Inv, ReadOrRisked
      <4>. QED  BY <1>10, <3>0, <4>2
    <3>. QED  BY <3>1, <3>2
  <2>. QED  BY <1>4, <2>1 DEF ReadOrRisked, LinesIn, LinesAt
<1>12. risked["records"] \subseteq risked'["records"]
  BY <1>10 DEF Logs
<1>13. AppendsAreSound'
  <2>1. ASSUME NEW w \in writing
        PROVE  /\ Sound(w.log, w.read, risked'["records"], late)
               /\ Fits(w.log, w.read, w.line, risked'["records"])
    BY <1>12, SoundForGood DEF Inv, AppendsAreSound
  <2>. QED  BY <1>4, <2>1 DEF AppendsAreSound, Sound, Fits, Tended, HeardIn
<1>14. DecisionsAreSound'
  <2>1. ASSUME NEW d \in deciding
        PROVE  Fits(d.log, versions[d.log][tip'[d.clone][d.log]].lines, d.line, risked'["records"])
    <3>0. d.clone \in Clones /\ d.log \in Logs
      BY DEF Inv, TypeOK, DecidingOK
    <3>1. Fits(d.log, LinesIn(d.clone, d.log), d.line, risked["records"])
      BY DEF Inv, DecisionsAreSound
    <3>2. CASE d.clone = c /\ d.log = log
      <4>1. versions[d.log][tip'[d.clone][d.log]].lines = lines
        BY <1>2, <1>7, <3>0, <3>2 DEF LinesAt
      <4>2. ToSet(LinesIn(c, log)) \subseteq ToSet(lines) \cup risked[log]
        BY <1>2, <1>4, <1>6, AncestorsAreIn DEF LinesIn, History
      <4>3. log = "records" =>
               ToSet(LinesIn(c, log)) \cup risked["records"] \subseteq ToSet(lines) \cup risked'["records"]
        BY <1>12, <4>2
      <4>. QED  BY <3>1, <3>2, <4>1, <4>3, TendedByMore DEF Fits
    <3>3. CASE ~(d.clone = c /\ d.log = log)
      <4>1. versions[d.log][tip'[d.clone][d.log]].lines = LinesIn(d.clone, d.log)
        BY <1>7, <3>0, <3>3 DEF LinesIn, LinesAt
      <4>. QED  BY <1>12, <3>1, <4>1, SoundForGood
    <3>. QED  BY <3>2, <3>3
  <2>. QED  BY <1>4, <2>1 DEF DecisionsAreSound, LinesIn, LinesAt, Fits, Tended, HeardIn
<1>15. WritingOK' /\ DecidingOK'
  BY <1>4 DEF Inv, TypeOK, WritingOK, DecidingOK, Texts
<1>. QED  BY <1>4, <1>8, <1>10, <1>11, <1>13, <1>14, <1>15, NothingWritten DEF Inv, TypeOK

LEMMA TheSteps == Inv /\ [Next]_vars => Inv'
<1>. SUFFICES ASSUME Inv, [Next]_vars PROVE Inv'
  OBVIOUS
<1>0. CASE \E c \in Clones : Decide(c)
  BY <1>0, DecideKeeps
<1>1. CASE \E d \in deciding : BeginAppend(d)
  BY <1>1, BeginAppendKeeps
<1>2. CASE \E w \in writing : FinishAppend(w)
  BY <1>2, FinishAppendKeeps
<1>3. CASE \E c, d \in Clones : Fetch(c, d)
  BY <1>3, FetchKeeps
<1>4. CASE \E c \in Clones, log \in Logs : FastForward(c, log) \/ Merge(c, log)
  BY <1>4, FastForwardKeeps, MergeKeeps
<1>5. CASE Tick \/ UNCHANGED vars
  <2>1. /\ UNCHANGED <<versions, tip, fetched, deciding, writing, risked, late, appends, merges>>
        /\ now' \in Times
    BY <1>5, ReplicasAssumption DEF Tick, vars, Inv, TypeOK, Times
  <2>2. RefsOK' /\ WritingOK' /\ DecidingOK'
    BY <2>1 DEF Inv, TypeOK, RefsOK, WritingOK, DecidingOK, Texts
  <2>3. AppendsAreSound' /\ DecisionsAreSound' /\ ReadOrRisked'
    BY <2>1 DEF Inv, AppendsAreSound, DecisionsAreSound, ReadOrRisked, LinesIn, LinesAt,
                Sound, Fits, Tended, HeardIn
  <2>. QED  BY <2>1, <2>2, <2>3, NothingWritten DEF Inv, TypeOK
<1>. QED  BY <1>0, <1>1, <1>2, <1>3, <1>4, <1>5 DEF Next

THEOREM InvHolds == Spec => []Inv
BY TheStart, TheSteps, PTL DEF Spec

(* However many clones write, fetch, merge and lose the race of two        *)
(* appends, a line is undone only by an append that read the note before   *)
(* the line was there: no merge, by the strategy the store configures,     *)
(* drops a line of either side.  (Repo::note_append, Store::configure)     *)
THEOREM NoAppendIsUndone == Spec => []AppendsAreNotUndone
<1>1. Inv => AppendsAreNotUndone
  BY DEF Inv
<1>. QED  BY <1>1, InvHolds, PTL

(* What of a record its line shows.                                        *)
LEMMA ARecordShows ==
    ASSUME NEW r \in WrittenRecords, NEW l, l = ToLine(r)
    PROVE  /\ l.kind = r.kind
           /\ r.kind = "comment" => l.id = r.id
           /\ r.kind = "resolve" => l.target = r.target
<1>1. PICK signed : signed = Signed(r)
  OBVIOUS
<1>2. /\ signed.kind = r.kind
      /\ DOMAIN signed = DOMAIN Plain
      /\ {"kind", "id", "target", "rev", "anchor", "body", "name", "status"} \subseteq DOMAIN signed
  BY <1>1 DEF Signed, Plain
<1>3. r.kind \in {"comment", "resolve", "check"}
  BY WrittenRecordsAreRecords
<1>4. CASE r.kind = "comment"
  <2>1. l = [signed EXCEPT !.id = r.id, !.rev = r.rev, !.anchor = r.anchor, !.body = r.body]
    BY <1>1, <1>4 DEF ToLine, NoteLine
  <2>. QED  BY <1>2, <1>4, <2>1
<1>5. CASE r.kind = "resolve"
  <2>1. l = [signed EXCEPT !.id = r.id, !.target = r.target]
    BY <1>1, <1>5 DEF ToLine, ResolutionLine
  <2>. QED  BY <1>2, <1>5, <2>1
<1>6. CASE r.kind = "check"
  <2>1. l = [signed EXCEPT !.rev = r.rev, !.name = r.name,
                           !.status = IF r.passed THEN "passed" ELSE "failed"]
    BY <1>1, <1>6 DEF ToLine, VerdictLine
  <2>. QED  BY <1>2, <1>6, <2>1
<1>. QED  BY <1>3, <1>4, <1>5, <1>6

(* A line of a newer build is no line of this one.                         *)
LEMMA LinesOfThisBuild ==
    ASSUME NEW l \in RecordTexts, l.kind # "newer"
    PROVE  \E r \in WrittenRecords : l = ToLine(r) /\ r.kind = l.kind
<1>1. ASSUME NEW t \in Times  PROVE [Plain EXCEPT !.kind = "newer", !.author = Author, !.at = t].kind = "newer"
  BY DEF Plain
<1>2. PICK r \in WrittenRecords : l = ToLine(r)
  BY <1>1 DEF RecordTexts
<1>. QED  BY <1>2, ARecordShows

(* The answers without a note, in the words of the log's lines.            *)
LEMMA OrphansAreUntended ==
    ASSUME NEW S, S \subseteq RecordTexts
    PROVE  /\ Anchored(S) <=> Orphans(S) = {}
           /\ \A R : Tended(S, S \cup R) =>
                 \A l \in Orphans(S) : NotesUnder(l, R) # {}
<1>1. ASSUME NEW r \in HeardIn(S), r.kind = "resolve", NEW T, NEW x \in HeardIn(T),
             x.kind = "comment", x.id = r.target
      PROVE  ToLine(x) \in NotesUnder(ToLine(r), T)
  <2>1. PICK l : l = ToLine(r)
    OBVIOUS
  <2>2. PICK m : m = ToLine(x)
    OBVIOUS
  <2>3. r \in WrittenRecords /\ x \in WrittenRecords /\ m \in T
    BY <2>2 DEF HeardIn
  <2>4. l.target = r.target /\ m.kind = "comment" /\ m.id = x.id
    BY <1>1, <2>1, <2>2, <2>3, ARecordShows
  <2>. QED  BY <1>1, <2>1, <2>2, <2>3, <2>4 DEF NotesUnder
<1>2. ASSUME NEW l \in S, l.kind = "resolve"
      PROVE  \E r \in HeardIn(S) : l = ToLine(r) /\ r.kind = "resolve" /\ IsAnswer(r)
                                   /\ l.target = r.target
  <2>1. PICK r \in WrittenRecords : l = ToLine(r) /\ r.kind = "resolve"
    BY <1>2, LinesOfThisBuild
  <2>. QED  BY <2>1, ARecordShows DEF HeardIn, IsAnswer
<1>3. ASSUME NEW R, Tended(S, S \cup R), NEW l \in Orphans(S)  PROVE NotesUnder(l, R) # {}
  <2>1. l \in S /\ l.kind = "resolve" /\ NotesUnder(l, S) = {}
    BY <1>3 DEF Orphans
  <2>2. PICK r \in HeardIn(S) : l = ToLine(r) /\ r.kind = "resolve" /\ IsAnswer(r)
    BY <1>2, <2>1
  <2>3. PICK x \in HeardIn(S \cup R) : x.kind = "comment" /\ x.id = r.target
    BY <1>3, <2>2 DEF Tended, IsAnchored
  <2>4. ToLine(x) \in NotesUnder(l, S \cup R)
    BY <1>1, <2>2, <2>3
  <2>. QED  BY <2>1, <2>4 DEF NotesUnder
<1>4. ASSUME Orphans(S) = {}  PROVE Anchored(S)
  <2>1. ASSUME NEW r \in HeardIn(S), IsAnswer(r)
        PROVE  \E x \in HeardIn(S) : x.kind = "comment" /\ x.id = r.target
    <3>1. r \in WrittenRecords /\ ToLine(r) \in S
      BY DEF HeardIn
    <3>2. r.kind = "resolve"
      BY <2>1, <3>1, WrittenRecordsAreRecords DEF IsAnswer
    <3>3. PICK l : l = ToLine(r)
      OBVIOUS
    <3>4. l.kind = "resolve" /\ l.target = r.target /\ l \in S
      BY <3>1, <3>2, <3>3, ARecordShows
    <3>5. PICK m \in S : m.kind = "comment" /\ m.id = l.target
      BY <1>4, <3>4 DEF Orphans, NotesUnder
    <3>6. PICK x \in WrittenRecords : m = ToLine(x) /\ x.kind = "comment"
      BY <3>5, LinesOfThisBuild
    <3>7. m.id = x.id
      BY <3>6, ARecordShows
    <3>. QED  BY <3>4, <3>5, <3>6, <3>7 DEF HeardIn
  <2>. QED  BY <2>1 DEF Anchored, Tended, IsAnchored
<1>5. ASSUME Anchored(S)  PROVE Orphans(S) = {}
  <2>1. S \cup {} = S
    OBVIOUS
  <2>2. Tended(S, S \cup {})
    BY <1>5, <2>1 DEF Anchored
  <2>3. \A l : NotesUnder(l, {}) = {}
    BY DEF NotesUnder
  <2>. QED  BY <1>3, <2>2, <2>3
<1>. QED  BY <1>3, <1>4, <1>5

(* A clone reads its logs exactly when every answer of them has its note,  *)
(* whatever a newer build wrote among them; and where a note is gone from  *)
(* under an answer, an append that did not read the note has written.      *)
(* (snapshot.rs read, Proposal::fold, Repo::note_append)                   *)
THEOREM OnlyRacedNotesAreMissed == Spec => []OnlyRacesStopReading
<1>1. ASSUME Inv, NEW c \in Clones, NEW S, S = ToSet(LinesIn(c, "records"))
      PROVE  /\ Review(c).ok <=> Orphans(S) = {}
             /\ \A l \in Orphans(S) : NotesUnder(l, risked["records"]) # {}
  <2>1. PICK R : R = risked["records"]
    OBVIOUS
  <2>2. LinesIn(c, "records") \in Seq(RecordTexts) /\ (Review(c).ok <=> Anchored(S))
    BY <1>1, EveryCloneReads DEF Inv
  <2>3. S \subseteq RecordTexts
    BY <1>1, <2>2 DEF ToSet
  <2>4. Tended(S, S \cup R)
    <3>1. "records" \in Logs /\ tip[c]["records"] \in DOMAIN versions["records"]
      BY <1>1 DEF Logs, Inv, TypeOK, RefsOK
    <3>. QED  BY <1>1, <2>1, <3>1 DEF Inv, VersionsAreSound, Sound, LinesIn
  <2>. QED  BY <2>1, <2>2, <2>3, <2>4, OrphansAreUntended
<1>2. Inv => OnlyRacesStopReading
  BY <1>1 DEF OnlyRacesStopReading
<1>. QED  BY <1>2, InvHolds, PTL

-----------------------------------------------------------------------------
(* What clones with the same lines make of them.                           *)

(* Remarks that differ in their name alone do not: the name is a digest of *)
(* all the rest.                                                           *)
LEMMA RemarksAreNamedByContent ==
    ASSUME NEW r \in Remarks, NEW s \in Remarks,
           [r EXCEPT !.id = Absent] = [s EXCEPT !.id = Absent]
    PROVE  r = s
<1>1. PICK t \in Times : r = CommentAt(t) /\ r.at = t
  BY RemarksAreNotes
<1>2. PICK u \in Times : s = CommentAt(u) /\ s.at = u
  BY RemarksAreNotes
<1>3. r \in Notes /\ s \in Notes
  BY RemarksAreNotes
<1>4. [r EXCEPT !.id = Absent].at = r.at /\ [s EXCEPT !.id = Absent].at = s.at
  BY <1>3 DEF Notes
<1>. QED  BY <1>1, <1>2, <1>4

(* The same annotation written twice, in one clone or in two, is one: a    *)
(* review never shows two notes that say the same, whatever the digest.    *)
(* (identity.rs:51)                                                        *)
THEOREM ANoteIsShownOnce == Spec => []OneNoteOnce
<1>1. ASSUME Inv, NEW c \in Clones, NEW p, p = Review(c), p.ok
      PROVE  \A i, j \in DOMAIN p.comments :
                [p.comments[i] EXCEPT !.id = Absent] = [p.comments[j] EXCEPT !.id = Absent] => i = j
  <2>1. PICK H : H = HeardIn(ToSet(LinesIn(c, "records")))
    OBVIOUS
  <2>2. Says(p, H)
    BY <1>1, <2>1, EveryCloneReads DEF Inv
  <2>3. ASSUME NEW i \in DOMAIN p.comments  PROVE p.comments[i] \in Remarks
    <3>1. p.comments[i] \in H /\ p.comments[i].kind = "comment"
      BY <2>2 DEF Says
    <3>. QED  BY <2>1, <3>1, WrittenRecordsAreRecords DEF HeardIn
  <2>4. ASSUME NEW i \in DOMAIN p.comments, NEW j \in DOMAIN p.comments,
               [p.comments[i] EXCEPT !.id = Absent] = [p.comments[j] EXCEPT !.id = Absent]
        PROVE  i = j
    <3>1. PICK r : r = p.comments[i]
      OBVIOUS
    <3>2. PICK s : s = p.comments[j]
      OBVIOUS
    <3>3. r \in Remarks /\ s \in Remarks /\ [r EXCEPT !.id = Absent] = [s EXCEPT !.id = Absent]
      BY <2>3, <2>4, <3>1, <3>2
    <3>4. r = s
      BY <3>3, RemarksAreNamedByContent
    <3>. QED  BY <2>2, <3>1, <3>2, <3>4 DEF Says
  <2>. QED  BY <2>4
<1>2. Inv => OneNoteOnce
  BY <1>1 DEF OneNoteOnce
<1>. QED  BY <1>2, InvHolds, PTL

(* No two annotations of these clones have one digest.  A name has twelve  *)
(* characters, so nothing but luck says so.                                *)
NoCollisions == \A r, s \in Remarks : r.id = s.id => r = s

LEMMA AllCommentsAreShown ==
    ASSUME NoCollisions, NEW S, NEW p, Says(p, HeardIn(S))
    PROVE  ToSet(p.comments) = {r \in HeardIn(S) : r.kind = "comment"}
<1>1. ASSUME NEW r \in HeardIn(S), r.kind = "comment"  PROVE r \in ToSet(p.comments)
  <2>1. PICK i \in DOMAIN p.comments : p.comments[i].id = r.id
    BY <1>1 DEF Says
  <2>2. p.comments[i] \in HeardIn(S) /\ p.comments[i].kind = "comment"
    BY <2>1 DEF Says
  <2>3. p.comments[i] \in Remarks /\ r \in Remarks
    BY <1>1, <2>2, WrittenRecordsAreRecords DEF HeardIn
  <2>4. p.comments[i] = r
    BY <2>1, <2>3 DEF NoCollisions
  <2>. QED  BY <2>4 DEF ToSet
<1>2. ToSet(p.comments) \subseteq {r \in HeardIn(S) : r.kind = "comment"}
  BY DEF Says, ToSet
<1>. QED  BY <1>1, <1>2

Ended(S, kind) == \E e \in ToldIn(S) : e.kind = kind

(* Which ending counts is a matter of which there are.                     *)
LEMMA TheEndingIsTheLines ==
    ASSUME NEW ledger \in Seq(EventTexts), EndsInOrder(ledger), NEW S, S = ToSet(ledger)
    PROVE  StateOf(Told(ledger)) = IF Ended(S, "abandoned") THEN "abandoned"
                                   ELSE IF Ended(S, "landed") THEN "landed" ELSE "open"
<1>1. PICK told : told = Told(ledger)
  OBVIOUS
<1>2. /\ told \in Seq(WrittenEvents) /\ ToSet(told) = ToldIn(S)
      /\ \A k, m \in DOMAIN told : k < m =>
            \E i, j \in DOMAIN ledger : /\ i < j
                                        /\ ledger[i] = EventLine(told[k])
                                        /\ ledger[j] = EventLine(told[m])
  BY <1>1, EventsAreRead DEF Told
<1>3. PICK n : n = SelectInSeq(told, IsEnding)
  OBVIOUS
<1>4. /\ n = 0 <=> ~\E i \in DOMAIN told : told[i].kind \in {"landed", "abandoned"}
      /\ n # 0 => /\ n \in DOMAIN told /\ told[n].kind \in {"landed", "abandoned"}
                  /\ \A i \in DOMAIN told : told[i].kind \in {"landed", "abandoned"} => n <= i
  BY <1>2, <1>3, FirstEnding
<1>5. StateOf(told) = IF n = 0 THEN "open" ELSE told[n].kind
  BY <1>3 DEF StateOf
<1>6. /\ Ended(S, "abandoned") <=> \E i \in DOMAIN told : told[i].kind = "abandoned"
      /\ Ended(S, "landed") <=> \E i \in DOMAIN told : told[i].kind = "landed"
  BY <1>2 DEF Ended, ToSet
<1>7. CASE n = 0
  BY <1>1, <1>4, <1>5, <1>6, <1>7
<1>8. CASE n # 0 /\ told[n].kind = "abandoned"
  BY <1>1, <1>4, <1>5, <1>6, <1>8
<1>9. CASE n # 0 /\ told[n].kind = "landed"
  <2>1. ASSUME NEW m \in DOMAIN told, told[m].kind = "abandoned"  PROVE FALSE
    <3>1. n < m
      <4>1. n <= m /\ n # m /\ n \in Nat /\ m \in Nat
        BY <1>2, <1>4, <1>9, <2>1
      <4>. QED  BY <4>1
    <3>2. PICK i \in DOMAIN ledger, j \in DOMAIN ledger :
             i < j /\ ledger[i] = EventLine(told[n]) /\ ledger[j] = EventLine(told[m])
      BY <1>2, <1>4, <1>9, <3>1
    <3>3. ledger[i].kind = "landed" /\ ledger[j].kind = "abandoned"
      <4>1. told[n] \in WrittenEvents /\ told[m] \in WrittenEvents
        BY <1>2, <1>4, <1>9
      <4>. QED  BY <1>9, <2>1, <3>2, <4>1, AnEventShows
    <3>4. j < i /\ i \in Nat /\ j \in Nat
      BY <3>3 DEF EndsInOrder
    <3>. QED  BY <3>2, <3>4
  <2>. QED  BY <1>1, <1>4, <1>5, <1>6, <1>9, <2>1
<1>. QED  BY <1>4, <1>7, <1>8, <1>9

(* Where it lands is a matter of which retargets there are, when no two    *)
(* are of one moment.                                                      *)
LEMMA TheTargetIsTheLines ==
    ASSUME NEW here \in Seq(EventTexts), NEW there \in Seq(EventTexts),
           ToSet(here) = ToSet(there), Opening \in ToSet(here),
           \A m, n \in {l \in ToSet(here) : l.kind = "retargeted"} : m.at = n.at => m = n,
           NEW mine, mine = Told(here), NEW theirs, theirs = Told(there)
    PROVE  Target(OpeningOf(mine).target, mine) = Target(OpeningOf(theirs).target, theirs)
<1>1. /\ mine \in Seq(WrittenEvents) /\ theirs \in Seq(WrittenEvents)
      /\ ToSet(mine) = ToldIn(ToSet(here)) /\ ToSet(mine) = ToSet(theirs)
  BY EventsAreRead DEF Told
<1>2. ASSUME NEW told \in Seq(WrittenEvents), ToSet(told) = ToSet(mine)
      PROVE  OpeningOf(told) = TheOpening
  <2>1. TheOpening \in WrittenEvents /\ TheOpening.kind = "opened" /\ Opening = EventLine(TheOpening)
    BY DEF WrittenEvents, TheOpening, Opening
  <2>2. TheOpening \in ToSet(told)
    BY <1>1, <1>2, <2>1 DEF ToldIn
  <2>3. PICK n : n = SelectInSeq(told, IsOpening)
    OBVIOUS
  <2>4. n # 0 /\ n \in DOMAIN told /\ told[n].kind = "opened"
    <3>1. \E i \in DOMAIN told : told[i].kind = "opened"
      BY <2>1, <2>2 DEF ToSet
    <3>. QED  BY <2>3, <3>1, FirstOpening
  <2>5. told[n] = TheOpening
    BY <2>4, WrittenEventsAreEvents
  <2>. QED  BY <2>3, <2>5 DEF OpeningOf
<1>3. PICK b : b = TheOpening.target
  OBVIOUS
<1>4. OpeningOf(mine).target = b /\ OpeningOf(theirs).target = b
  BY <1>1, <1>2, <1>3
<1>5. ASSUME NEW told \in Seq(WrittenEvents)
      PROVE  /\ \A i \in Moves(told) : told[i].at \in Int /\ i \in DOMAIN told
             /\ \A i \in DOMAIN told : i \in Moves(told) <=> told[i].kind = "retargeted"
             /\ \A i \in DOMAIN told : told[i] \in WrittenEvents
             /\ Moves(told) # {} => \E i \in Moves(told) : /\ IsLatestMove(told, i)
                                                         /\ Target(b, told) = told[i].target
  <2>1. \A i \in DOMAIN told : told[i] \in WrittenEvents
    OBVIOUS
  <2>2. \A i \in DOMAIN told : told[i].at \in Int
    <3>1. Times \subseteq Int
      BY DEF Times
    <3>2. \A i \in DOMAIN told : told[i].at \in Times
      BY <2>1, WrittenEventsAreEvents
    <3>. QED  BY <3>1, <3>2
  <2>3. \A i \in Moves(told) : told[i].at \in Int /\ i \in DOMAIN told
    BY <2>2 DEF Moves
  <2>4. Moves(told) # {} => \E i \in Moves(told) : /\ IsLatestMove(told, i)
                                                  /\ Target(b, told) = told[i].target
    BY <2>3, TargetIsOfTheLatest
  <2>. QED  BY <2>1, <2>3, <2>4 DEF Moves, IsMove
<1>6. CASE Moves(mine) = {}
  <2>1. Moves(theirs) = {}
    <3>1. ASSUME NEW j \in Moves(theirs)  PROVE FALSE
      <4>1. theirs[j] \in ToSet(mine) /\ theirs[j].kind = "retargeted"
        BY <1>1, <1>5 DEF ToSet
      <4>2. PICK i \in DOMAIN mine : mine[i] = theirs[j]
        BY <4>1 DEF ToSet
      <4>3. i \in Moves(mine)
        BY <1>1, <1>5, <4>1, <4>2
      <4>. QED  BY <1>6, <4>3
    <3>. QED  BY <3>1
  <2>. QED  BY <1>4, <1>6, <2>1 DEF Target
<1>7. CASE Moves(mine) # {}
  <2>1. PICK i \in Moves(mine) : IsLatestMove(mine, i) /\ Target(b, mine) = mine[i].target
    BY <1>1, <1>5, <1>7
  <2>2. /\ i \in DOMAIN mine /\ mine[i] \in WrittenEvents /\ mine[i].kind = "retargeted"
        /\ mine[i] \in ToSet(theirs)
    BY <1>1, <1>5 DEF ToSet
  <2>3. PICK k \in DOMAIN theirs : theirs[k] = mine[i]
    BY <2>2 DEF ToSet
  <2>4. k \in Moves(theirs)
    BY <1>1, <1>5, <2>2, <2>3
  <2>5. PICK j \in Moves(theirs) : IsLatestMove(theirs, j) /\ Target(b, theirs) = theirs[j].target
    BY <1>1, <1>5, <2>4
  <2>6. /\ j \in DOMAIN theirs /\ theirs[j] \in WrittenEvents /\ theirs[j].kind = "retargeted"
        /\ theirs[j] \in ToSet(mine)
    BY <1>1, <1>5 DEF ToSet
  <2>7. PICK m \in DOMAIN mine : mine[m] = theirs[j]
    BY <2>6 DEF ToSet
  <2>8. m \in Moves(mine)
    BY <1>1, <1>5, <2>6, <2>7
  <2>9. mine[i].at = theirs[j].at
    <3>1. mine[i].at \in Int /\ theirs[j].at \in Int
      BY <1>1, <1>5
    <3>2. mine[m].at <= mine[i].at
      BY <2>1, <2>7, <2>8, <3>1 DEF IsLatestMove
    <3>3. theirs[k].at <= theirs[j].at
      BY <2>3, <2>4, <2>5, <3>1 DEF IsLatestMove
    <3>. QED  BY <2>3, <2>7, <3>1, <3>2, <3>3
  <2>10. PICK one : one = EventLine(mine[i])
    OBVIOUS
  <2>11. PICK other : other = EventLine(theirs[j])
    OBVIOUS
  <2>12. /\ one.kind = "retargeted" /\ one.at = mine[i].at /\ one.target = mine[i].target
    BY <2>2, <2>10, AnEventShows
  <2>13. /\ other.kind = "retargeted" /\ other.at = theirs[j].at
         /\ other.target = theirs[j].target
    BY <2>6, <2>11, AnEventShows
  <2>14. one \in ToSet(here) /\ other \in ToSet(here)
    <3>1. mine[i] \in ToldIn(ToSet(here)) /\ theirs[j] \in ToldIn(ToSet(here))
      BY <1>1, <2>2, <2>6 DEF ToSet
    <3>. QED  BY <2>10, <2>11, <3>1 DEF ToldIn
  <2>15. one = other
    BY <2>9, <2>12, <2>13, <2>14
  <2>. QED  BY <1>4, <2>1, <2>5, <2>12, <2>13, <2>15
<1>. QED  BY <1>6, <1>7

(* Two clones that hold the same lines, in whatever order merging left     *)
(* them, read the same review out of them, or neither can: what is open,   *)
(* where it lands and whether it ended.  Two endings none of which was     *)
(* written late are in one log only after a merge, which puts them in the  *)
(* order of their text.  (snapshot.rs moves and end, Proposal::fold,       *)
(* Store::configure)                                                       *)
THEOREM ClonesAgree ==
    ASSUME NoCollisions
    PROVE  Spec => []SameLinesSameReview
<1>1. ASSUME Inv, NEW c \in Clones, NEW d \in Clones, NEW here, here = Review(c),
             NEW there, there = Review(d),
             \A log \in Logs : ToSet(LinesIn(c, log)) = ToSet(LinesIn(d, log)),
             \A m, n \in {l \in ToSet(LinesIn(c, "events")) : l.kind = "retargeted"} :
                m.at = n.at => m = n,
             late \cap ToSet(LinesIn(c, "events")) = {}
      PROVE  /\ here.ok = there.ok
             /\ here.ok => /\ here.state = there.state /\ here.target = there.target
                           /\ Conversation(here) = Conversation(there)
                           /\ OpenComments(here) = OpenComments(there)
  <2>1. PICK mine : mine = LinesIn(c, "events")
    OBVIOUS
  <2>2. PICK theirs : theirs = LinesIn(d, "events")
    OBVIOUS
  <2>3. PICK S : S = ToSet(LinesIn(c, "records"))
    OBVIOUS
  <2>4. "events" \in Logs /\ "records" \in Logs
    BY DEF Logs
  <2>5. ToSet(mine) = ToSet(theirs) /\ S = ToSet(LinesIn(d, "records"))
    BY <1>1, <2>1, <2>2, <2>3, <2>4
  <2>14. /\ mine \in Seq(EventTexts) /\ here.ok \in BOOLEAN /\ (here.ok <=> Anchored(S))
         /\ theirs \in Seq(EventTexts) /\ there.ok \in BOOLEAN /\ (there.ok <=> Anchored(S))
    <3>0. TypeOK /\ VersionsAreSound
      BY <1>1 DEF Inv
    <3>1. /\ LinesIn(c, "events") \in Seq(EventTexts) /\ here.ok \in BOOLEAN
          /\ (here.ok <=> Anchored(ToSet(LinesIn(c, "records"))))
      BY <1>1, <3>0, EveryCloneReads
    <3>2. /\ LinesIn(d, "events") \in Seq(EventTexts) /\ there.ok \in BOOLEAN
          /\ (there.ok <=> Anchored(ToSet(LinesIn(d, "records"))))
      BY <1>1, <3>0, EveryCloneReads
    <3>. QED  BY <2>1, <2>2, <2>3, <2>5, <3>1, <3>2
  <2>15. here.ok = there.ok
    BY <2>14
  <2>16. SUFFICES ASSUME here.ok
                  PROVE  /\ here.state = there.state /\ here.target = there.target
                         /\ Conversation(here) = Conversation(there)
                         /\ OpenComments(here) = OpenComments(there)
    BY <2>15
  <2>6. /\ here.revs = <<Rev>> /\ here.state = StateOf(Told(mine))
        /\ here.target = Target(OpeningOf(Told(mine)).target, Told(mine))
        /\ Says(here, HeardIn(S))
    BY <1>1, <2>1, <2>3, <2>16, EveryCloneReads DEF Inv
  <2>7. /\ there.revs = <<Rev>> /\ there.state = StateOf(Told(theirs))
        /\ there.target = Target(OpeningOf(Told(theirs)).target, Told(theirs))
        /\ Says(there, HeardIn(S))
    BY <1>1, <2>2, <2>5, <2>15, <2>16, EveryCloneReads DEF Inv
  <2>8. /\ Sound("events", mine, risked["records"], late)
        /\ Sound("events", theirs, risked["records"], late)
    <3>1. tip[c]["events"] \in DOMAIN versions["events"] /\ tip[d]["events"] \in DOMAIN versions["events"]
      BY <1>1, <2>4 DEF Inv, TypeOK, RefsOK
    <3>. QED  BY <1>1, <2>1, <2>2, <2>4, <3>1 DEF Inv, VersionsAreSound, LinesIn
  <2>9. here.state = there.state
    <3>1. PICK E : E = ToSet(mine)
      OBVIOUS
    <3>2. EndsInOrder(mine) /\ EndsInOrder(theirs) /\ E = ToSet(theirs)
      BY <1>1, <2>1, <2>5, <2>8, <3>1 DEF Sound
    <3>. QED  BY <2>6, <2>7, <2>14, <3>1, <3>2, TheEndingIsTheLines
  <2>10. here.target = there.target
    <3>1. Opening \in ToSet(mine)
      BY <2>8 DEF Sound
    <3>2. \A m, n \in {l \in ToSet(mine) : l.kind = "retargeted"} : m.at = n.at => m = n
      BY <1>1, <2>1
    <3>. QED  BY <2>5, <2>6, <2>7, <2>14, <3>1, <3>2, TheTargetIsTheLines
  <2>11. ToSet(here.comments) = ToSet(there.comments) /\ here.resolved = there.resolved
    <3>1. ToSet(here.comments) = ToSet(there.comments)
      BY <2>6, <2>7, AllCommentsAreShown
    <3>. QED  BY <2>6, <2>7, <3>1 DEF Says
  <2>12. Conversation(here) = Conversation(there)
    BY <2>11 DEF Conversation
  <2>13. HeadRev(here) = HeadRev(there)
    BY <2>6, <2>7 DEF HeadRev
  <2>. QED  BY <2>9, <2>10, <2>12, <2>13 DEF OpenComments
<1>2. Inv => SameLinesSameReview
  BY <1>1 DEF SameLinesSameReview
<1>. QED  BY <1>2, InvHolds, PTL

-----------------------------------------------------------------------------
(***************************************************************************)
(* One log, whatever the commits, the names and the moments and however    *)
(* long it grows: it reads exactly when its lines name what it contains,   *)
(* the order in which lines reached a note is forgotten, and the gate asks *)
(* what the lines of the newest commit say.                                *)
(***************************************************************************)

AllLines == UNION {LinesFor(c) : c \in Commits}

(* A note holds lines written to its commit.                               *)
Held(n) == /\ n \in [Commits -> Seq(AllLines)]
           /\ \A c \in Commits : n[c] \in Seq(LinesFor(c))

LogInv ==
    /\ revs \in Seq(Commits) /\ revs # <<>> /\ revs[1] = First /\ NoneTwice(revs)
    /\ endings \in Seq({Landed(0), Abandoned(0)})
    /\ Held(notes)

LEMMA LinesAre ==
    ASSUME NEW c \in Commits, NEW r \in LinesFor(c)
    PROVE  /\ r \in AllLines /\ r.kind \in LineKinds
           /\ IsAboutCode(r) => r.rev = c
           /\ r.kind \in ListKinds => r.rev = c /\ r.at \in Int
           /\ r.kind = "comment" => r = Comment(r.id, c) /\ Home[r.id] = c
           /\ r.kind \in OnceKinds => Home[r.id] = c
           /\ r.kind = "check" => r = Verdict(r.name, r.passed, c) /\ r.passed \in BOOLEAN
<1>1. r \in AllLines
  BY DEF AllLines
<1>2. \/ \E n \in NoteIds : r = Comment(n, c) /\ Home[n] = c
      \/ \E n \in ReplyIds : r = Reply(n, ReplyTo[n]) /\ Home[n] = c
      \/ \E n \in NoteIds : r = Resolve(n)
      \/ \E k \in Names, ok \in BOOLEAN : r = Verdict(k, ok, c)
      \/ \E n \in WhyIds : r = Rationale(n, c) /\ Home[n] = c
      \/ r = Chunk("chunk")
      \/ \E ph \in Phases, t \in LogTimes : r = WorkLine(ph, c, t)
      \/ \E t \in LogTimes : r = Ask(c, t)
  BY DEF LinesFor
<1>3. CASE \E n \in NoteIds : r = Comment(n, c) /\ Home[n] = c
  BY <1>1, <1>3 DEF Comment, LineKinds, IsAboutCode, ListKinds, OnceKinds
<1>4. CASE \E n \in ReplyIds : r = Reply(n, ReplyTo[n]) /\ Home[n] = c
  BY <1>1, <1>4 DEF Reply, LineKinds, IsAboutCode, ListKinds, OnceKinds
<1>5. CASE \E n \in NoteIds : r = Resolve(n)
  BY <1>1, <1>5 DEF Resolve, LineKinds, IsAboutCode, ListKinds, OnceKinds
<1>6. CASE \E k \in Names, ok \in BOOLEAN : r = Verdict(k, ok, c)
  BY <1>1, <1>6 DEF Verdict, LineKinds, IsAboutCode, ListKinds, OnceKinds
<1>7. CASE \E n \in WhyIds : r = Rationale(n, c) /\ Home[n] = c
  BY <1>1, <1>7 DEF Rationale, LineKinds, IsAboutCode, ListKinds, OnceKinds
<1>8. CASE r = Chunk("chunk")
  BY <1>1, <1>8 DEF Chunk, LineKinds, IsAboutCode, ListKinds, OnceKinds
<1>9. CASE \E ph \in Phases, t \in LogTimes : r = WorkLine(ph, c, t)
  BY <1>1, <1>9, LogFoldAssumption DEF WorkLine, LineKinds, IsAboutCode, ListKinds, OnceKinds
<1>10. CASE \E t \in LogTimes : r = Ask(c, t)
  BY <1>1, <1>10, LogFoldAssumption DEF Ask, LineKinds, IsAboutCode, ListKinds, OnceKinds
<1>. QED  BY <1>2, <1>3, <1>4, <1>5, <1>6, <1>7, <1>8, <1>9, <1>10

LEMMA LogInvHolds == LogSpec => []LogInv
<1>1. LogInit => LogInv
  <2>1. SUFFICES ASSUME LogInit PROVE LogInv
    OBVIOUS
  <2>2. First \in Commits
    BY LogFoldAssumption
  <2>3. revs \in Seq(Commits) /\ revs # <<>> /\ revs[1] = First /\ NoneTwice(revs)
    BY <2>1, <2>2 DEF LogInit, NoneTwice
  <2>4. \A S : <<>> \in Seq(S)
    OBVIOUS
  <2>. QED  BY <2>1, <2>3, <2>4 DEF LogInit, LogInv, Held
<1>2. LogInv /\ [LogNext]_logVars => LogInv'
  <2>1. SUFFICES ASSUME LogInv, [LogNext]_logVars PROVE LogInv'
    OBVIOUS
  <2>2. ASSUME NEW c \in Commits, Revise(c)  PROVE LogInv'
    <3>1. /\ revs \in Seq(Commits) /\ c \notin ToSet(revs) /\ revs' = Append(revs, c)
          /\ revs # <<>> /\ revs[1] = First
      BY <2>1, <2>2 DEF LogInv, Revise
    <3>2. /\ revs' \in Seq(Commits) /\ revs' # <<>> /\ revs'[1] = First
          /\ DOMAIN revs' = DOMAIN revs \cup {Len(revs) + 1}
          /\ \A i \in DOMAIN revs : revs'[i] = revs[i]
          /\ revs'[Len(revs) + 1] = c
      BY <3>1
    <3>3. \A i \in DOMAIN revs : revs[i] # c
      BY <3>1 DEF ToSet
    <3>4. NoneTwice(revs)'
      BY <2>1, <3>2, <3>3 DEF LogInv, NoneTwice
    <3>. QED  BY <2>1, <2>2, <3>2, <3>4 DEF LogInv, Revise, Held
  <2>3. ASSUME NEW e \in {Landed(0), Abandoned(0)}, EndWith(e)  PROVE LogInv'
    BY <2>1, <2>3 DEF LogInv, EndWith, Held
  <2>4. ASSUME NEW c \in Commits, NEW r \in LinesOf[c], Annotate(c, r)  PROVE LogInv'
    <3>1. r \in LinesFor(c) /\ r \in AllLines
      BY <2>4, LinesAre DEF LinesOf
    <3>2. /\ notes \in [Commits -> Seq(AllLines)] /\ notes[c] \in Seq(LinesFor(c))
          /\ notes' = [notes EXCEPT ![c] = Append(@, r)]
      BY <2>1, <2>4 DEF LogInv, Held, Annotate
    <3>3. Append(notes[c], r) \in Seq(LinesFor(c)) /\ Append(notes[c], r) \in Seq(AllLines)
      BY <3>1, <3>2
    <3>4. Held(notes)'
      BY <2>1, <3>2, <3>3 DEF LogInv, Held, AllLines
    <3>. QED  BY <2>1, <2>4, <3>4 DEF LogInv, Annotate
  <2>5. CASE UNCHANGED logVars
    BY <2>1, <2>5 DEF logVars, LogInv, Held
  <2>. QED  BY <2>1, <2>2, <2>3, <2>4, <2>5 DEF LogNext
<1>. QED  BY <1>1, <1>2, PTL DEF LogSpec

-----------------------------------------------------------------------------
(* What a log is read as.                                                  *)

LEMMA ReadingIt ==
    ASSUME LogInv, NEW n, Held(n), NEW p, p = Read(n),
           NEW logs, logs = NotesOf(revs, n)
    PROVE  /\ p.ok \in BOOLEAN
           /\ p.ok <=> LogsRead(revs, logs)
           /\ p.ok => ReadsAs(p, revs, events[First], logs, AllLines)
<1>. DEFINE E == {Opened("main", 0), Landed(0), Abandoned(0)}
<1>1. First \in Commits /\ revs \in Seq(Commits) /\ revs # <<>> /\ revs[1] = First
  BY LogFoldAssumption DEF LogInv
<1>2. PICK told : told = events[First]
  OBVIOUS
<1>3. told \in Seq(E) /\ told = <<Opened("main", 0)>> \o endings /\ told[1] = Opened("main", 0)
      /\ 1 \in DOMAIN told
  <2>1. told = <<Opened("main", 0)>> \o endings
    BY <1>1, <1>2 DEF events
  <2>2. endings \in Seq(E) /\ <<Opened("main", 0)>> \in Seq(E)
    BY DEF LogInv
  <2>. HIDE DEF E
  <2>. QED  BY <2>1, <2>2
<1>4. HasOpening(told)
  BY <1>3 DEF HasOpening, IsOpening, Opened
<1>5. AreLines(AllLines)
  BY LinesAre DEF AreLines, AllLines
<1>6. \A i \in DOMAIN revs : n[revs[i]] \in Seq(AllLines)
  BY <1>1 DEF Held
<1>7. p = Rebuild(revs, events, n)
  BY DEF Read
<1>8. PICK ev : ev = events
  OBVIOUS
<1>9. ev[revs[1]] = told
  BY <1>1, <1>2, <1>8
<1>. HIDE DEF E
<1>10. /\ p.ok \in BOOLEAN
       /\ p.ok <=> HasOpening(ev[revs[1]]) /\ NoneTwice(revs) /\ LogsRead(revs, logs)
       /\ p.ok => ReadsAs(p, revs, ev[revs[1]], logs, AllLines)
  <2>1. ev[revs[1]] \in Seq(E) /\ p = Rebuild(revs, ev, n)
    BY <1>3, <1>7, <1>8, <1>9
  <2>. QED  BY <1>1, <1>5, <1>6, <2>1, WhatALogSays
<1>. QED  BY <1>2, <1>4, <1>9, <1>10 DEF LogInv

(* The lines of the first i revisions.                                     *)
LEMMA LinesUpTo ==
    ASSUME LogInv, NEW n, NEW i \in 0..Len(revs), NEW r
    PROVE  r \in UpToNote(NotesOf(revs, n), i) <=> \E j \in 1..i : r \in ToSet(n[revs[j]])
<1>1. \A j \in 1..i : j \in DOMAIN revs
  BY DEF LogInv
<1>2. \A j \in 1..i : NotesOf(revs, n)[j] = n[revs[j]]
  BY <1>1 DEF NotesOf
<1>. QED  BY <1>2 DEF UpToNote

LEMMA AsManyNotes ==
    ASSUME LogInv, NEW n
    PROVE  /\ Len(NotesOf(revs, n)) = Len(revs) /\ DOMAIN NotesOf(revs, n) = 1..Len(revs)
           /\ NotesOf(revs, n) # <<>> /\ Len(revs) \in Nat /\ Len(revs) # 0
           /\ \A i \in 1..Len(revs) : NotesOf(revs, n)[i] = n[revs[i]] /\ revs[i] \in Commits
           /\ Last(NotesOf(revs, n)) = n[Last(revs)] /\ Last(revs) = revs[Len(revs)]
<1>1. revs \in Seq(Commits) /\ revs # <<>> /\ DOMAIN revs = 1..Len(revs)
      /\ Len(revs) \in Nat /\ Len(revs) # 0
  BY DEF LogInv
<1>2. PICK logs : logs = NotesOf(revs, n)
  OBVIOUS
<1>3. logs = [i \in 1..Len(revs) |-> n[revs[i]]]
  BY <1>1, <1>2 DEF NotesOf
<1>4. Len(logs) = Len(revs) /\ DOMAIN logs = 1..Len(revs)
  BY <1>1, <1>3
<1>5. logs # <<>>
  BY <1>1, <1>4
<1>. QED  BY <1>1, <1>2, <1>3, <1>4, <1>5 DEF Last

(* A log reads exactly when its lines name what it contains: `AllNamed`    *)
(* says so without folding.  (snapshot.rs, proposal.rs `fold`)             *)
THEOREM ReadsWhatItNames == LogSpec => []FoldAgrees
<1>1. ASSUME LogInv  PROVE FoldAgrees
  <2>1. Held(notes)
    BY <1>1 DEF LogInv
  <2>2. PICK logs : logs = NotesOf(revs, notes)
    OBVIOUS
  <2>3. Folded.ok <=> LogsRead(revs, logs)
    BY <1>1, <2>1, <2>2, ReadingIt DEF Folded
  <2>4. IsInjective(revs)
    BY <1>1 DEF LogInv, NoneTwice, IsInjective
  <2>5. DOMAIN revs = 1..Len(revs) /\ 1..Len(revs) \subseteq 0..Len(revs)
    BY <1>1, AsManyNotes DEF LogInv
  <2>6. ASSUME NEW i \in 1..Len(revs)
        PROVE  NoteReads(revs, logs[i], UpToNote(logs, i)) <=>
                  \A r \in ToSet(notes[revs[i]]) :
                     /\ r.kind \in {"comment", "rationale", "check"} => r.rev \in ToSet(revs)
                     /\ IsAnswer(r) => \E j \in 1..i : \E s \in ToSet(notes[revs[j]]) :
                                            s.kind = "comment" /\ s.id = r.target
    <3>1. logs[i] = notes[revs[i]] /\ i \in 0..Len(revs)
      BY <1>1, <2>2, <2>5, AsManyNotes
    <3>2. \A r : IsAnchored(r, UpToNote(logs, i)) <=>
                    (IsAnswer(r) => \E j \in 1..i : \E s \in ToSet(notes[revs[j]]) :
                                       s.kind = "comment" /\ s.id = r.target)
      <4>1. \A s : s \in UpToNote(logs, i) <=> \E j \in 1..i : s \in ToSet(notes[revs[j]])
        BY <1>1, <2>2, <3>1, LinesUpTo
      <4>. QED  BY <4>1 DEF IsAnchored
    <3>. QED  BY <3>1, <3>2 DEF NoteReads, IsPlaced, IsAboutCode
  <2>7. LogsRead(revs, logs) <=> AllNamed
    <3>1. Len(logs) = Len(revs)
      BY <1>1, <2>2, AsManyNotes
    <3>. QED  BY <2>4, <2>5, <2>6, <3>1 DEF LogsRead, AllNamed
  <2>. QED  BY <2>3, <2>7 DEF FoldAgrees
<1>. QED  BY <1>1, LogInvHolds, PTL

-----------------------------------------------------------------------------
(* Two machines whose notes hold the same lines, in whatever order.        *)

SameLines(n, m) == \A c \in Commits : ToSet(n[c]) = ToSet(m[c])

LEMMA AShuffleHolds ==
    ASSUME LogInv, NEW c \in Commits, NEW other \in Shuffled(c)
    PROVE  /\ Held(other) /\ SameLines(other, notes)
           /\ \A d \in Commits : d # c => other[d] = notes[d]
           /\ \E f : IsShuffle(f, other[c], notes[c])
<1>1. PICK s : s = notes[c]
  OBVIOUS
<1>2. /\ notes \in [Commits -> Seq(AllLines)] /\ s \in Seq(LinesFor(c)) /\ s \in Seq(AllLines)
      /\ \A d \in Commits : notes[d] \in Seq(LinesFor(d))
  BY <1>1 DEF LogInv, Held
<1>3. PICK f \in Bijection(DOMAIN s, DOMAIN s) :
         other = [notes EXCEPT ![c] = [i \in DOMAIN @ |-> @[f[i]]]]
  BY <1>1 DEF Shuffled
<1>4. f \in [DOMAIN s -> DOMAIN s] /\ \A j \in DOMAIN s : \E i \in DOMAIN s : f[i] = j
  BY DEF Bijection, Injection, Surjection
<1>5. PICK t : t = [i \in DOMAIN s |-> s[f[i]]]
  OBVIOUS
<1>6. other = [notes EXCEPT ![c] = t]
  BY <1>1, <1>3, <1>5
<1>7. \A S : s \in Seq(S) => t \in Seq(S)
  <2>1. SUFFICES ASSUME NEW S, s \in Seq(S) PROVE t \in Seq(S)
    OBVIOUS
  <2>2. DOMAIN s = 1..Len(s) /\ Len(s) \in Nat /\ \A i \in DOMAIN s : s[f[i]] \in S
    BY <1>4, <2>1
  <2>3. t \in [1..Len(s) -> S]
    BY <1>5, <2>2
  <2>. QED  BY <2>2, <2>3
<1>8. IsShuffle(f, t, s)
  BY <1>4, <1>5 DEF IsShuffle
<1>9. ToSet(t) = ToSet(s)
  <2>1. ToSet(t) = {t[i] : i \in DOMAIN t} /\ ToSet(s) = {s[i] : i \in DOMAIN s}
    BY DEF ToSet
  <2>2. \A i \in DOMAIN t : i \in DOMAIN s /\ f[i] \in DOMAIN s /\ t[i] = s[f[i]]
    BY <1>4, <1>5
  <2>3. \A j \in DOMAIN s : \E i \in DOMAIN t : t[i] = s[j]
    BY <1>4, <1>5
  <2>. QED  BY <2>1, <2>2, <2>3
<1>10. t \in Seq(LinesFor(c)) /\ t \in Seq(AllLines)
  BY <1>2, <1>7
<1>11. other[c] = t /\ \A d \in Commits : d # c => other[d] = notes[d]
  BY <1>2, <1>6
<1>12. Held(other)
  BY <1>2, <1>6, <1>10 DEF Held
<1>13. SameLines(other, notes)
  BY <1>1, <1>9, <1>11 DEF SameLines
<1>. QED  BY <1>1, <1>8, <1>11, <1>12, <1>13

(* Both or neither read,                                                   *)
LEMMA BothRead ==
    ASSUME LogInv, NEW n, Held(n), NEW m, Held(m), SameLines(n, m)
    PROVE  /\ Read(n).ok = Read(m).ok
           /\ UpToNote(NotesOf(revs, n), Len(revs)) = UpToNote(NotesOf(revs, m), Len(revs))
<1>1. PICK ln, lm : ln = NotesOf(revs, n) /\ lm = NotesOf(revs, m)
  OBVIOUS
<1>2. /\ Len(ln) = Len(revs) /\ Len(lm) = Len(revs) /\ Len(revs) \in Nat
      /\ \A i \in 1..Len(revs) : /\ ln[i] = n[revs[i]] /\ lm[i] = m[revs[i]]
                                 /\ revs[i] \in Commits
  BY <1>1, AsManyNotes
<1>3. ASSUME NEW i \in 0..Len(revs)  PROVE UpToNote(ln, i) = UpToNote(lm, i)
  <2>1. \A j \in 1..i : j \in 1..Len(revs)
    BY <1>2
  <2>2. \A j \in 1..i : ToSet(n[revs[j]]) = ToSet(m[revs[j]])
    BY <1>2, <2>1 DEF SameLines
  <2>3. \A r : r \in UpToNote(ln, i) <=> \E j \in 1..i : r \in ToSet(n[revs[j]])
    BY <1>1, LinesUpTo
  <2>4. \A r : r \in UpToNote(lm, i) <=> \E j \in 1..i : r \in ToSet(m[revs[j]])
    BY <1>1, LinesUpTo
  <2>5. \A r : r \in UpToNote(ln, i) <=> r \in UpToNote(lm, i)
    BY <2>2, <2>3, <2>4
  <2>. QED  BY <2>5
<1>4. ASSUME NEW i \in 1..Len(revs)
      PROVE  NoteReads(revs, ln[i], UpToNote(ln, i)) <=> NoteReads(revs, lm[i], UpToNote(lm, i))
  <2>1. i \in 0..Len(revs)
    BY <1>2
  <2>2. UpToNote(ln, i) = UpToNote(lm, i)
    BY <1>3, <2>1
  <2>3. ToSet(ln[i]) = ToSet(lm[i])
    BY <1>2 DEF SameLines
  <2>. QED  BY <2>2, <2>3 DEF NoteReads
<1>5. LogsRead(revs, ln) <=> LogsRead(revs, lm)
  BY <1>2, <1>4 DEF LogsRead
<1>6. Read(n).ok \in BOOLEAN /\ (Read(n).ok <=> LogsRead(revs, ln))
  BY <1>1, ReadingIt
<1>7. Read(m).ok \in BOOLEAN /\ (Read(m).ok <=> LogsRead(revs, lm))
  BY <1>1, ReadingIt
<1>8. Len(revs) \in 0..Len(revs)
  BY <1>2
<1>. QED  BY <1>1, <1>3, <1>5, <1>6, <1>7, <1>8

(* and what is said in a log that reads is the comments in its lines.      *)
LEMMA WhatIsSaid ==
    ASSUME LogInv, NEW n, Held(n), Read(n).ok,
           NEW S, S = UpToNote(NotesOf(revs, n), Len(revs))
    PROVE  /\ HeadRev(Read(n)) = Last(revs)
           /\ ToSet(Read(n).comments) = OfKind(S, "comment")
           /\ Read(n).resolved = {r.target : r \in OfKind(S, "resolve")}
<1>1. PICK p : p = Read(n)
  OBVIOUS
<1>2. ReadsAs(p, revs, events[First], NotesOf(revs, n), AllLines)
  BY <1>1, ReadingIt
<1>3. Says(p, S) /\ p.revs = revs
  BY <1>2, AsManyNotes DEF ReadsAs
<1>4. ASSUME NEW r \in S, NEW x \in S, r.kind = "comment", x.kind = "comment", r.id = x.id
      PROVE  r = x
  <2>0. Len(revs) \in 0..Len(revs)
    BY AsManyNotes
  <2>1. PICK i \in 1..Len(revs) : r \in ToSet(n[revs[i]])
    BY <1>4, <2>0, LinesUpTo
  <2>2. PICK j \in 1..Len(revs) : x \in ToSet(n[revs[j]])
    BY <1>4, <2>0, LinesUpTo
  <2>3. revs[i] \in Commits /\ revs[j] \in Commits
    BY AsManyNotes
  <2>4. r \in LinesFor(revs[i]) /\ x \in LinesFor(revs[j])
    BY <2>1, <2>2, <2>3 DEF Held, ToSet
  <2>5. r = Comment(r.id, revs[i]) /\ Home[r.id] = revs[i]
    BY <1>4, <2>3, <2>4, LinesAre
  <2>6. x = Comment(x.id, revs[j]) /\ Home[x.id] = revs[j]
    BY <1>4, <2>3, <2>4, LinesAre
  <2>. QED  BY <1>4, <2>5, <2>6
<1>5. ToSet(p.comments) = OfKind(S, "comment")
  <2>1. \A i \in DOMAIN p.comments : p.comments[i] \in S /\ p.comments[i].kind = "comment"
    BY <1>3 DEF Says
  <2>2. ASSUME NEW r \in S, r.kind = "comment"  PROVE \E i \in DOMAIN p.comments : p.comments[i] = r
    <3>1. PICK i \in DOMAIN p.comments : p.comments[i].id = r.id
      BY <1>3, <2>2 DEF Says
    <3>. QED  BY <1>4, <2>1, <2>2, <3>1
  <2>. QED  BY <2>1, <2>2 DEF ToSet, OfKind
<1>6. p.resolved = {r.target : r \in OfKind(S, "resolve")}
  BY <1>3 DEF Says, OfKind
<1>. QED  BY <1>1, <1>3, <1>5, <1>6 DEF HeadRev

(* Which notes stand between a proposal and the trunk depends on its lines *)
(* and not on the order they arrived in.  (proposal.rs, `fold`)            *)
THEOREM OrderIsForgotten == LogSpec => []ArrivalOrderIsForgotten
<1>1. ASSUME LogInv  PROVE ArrivalOrderIsForgotten
  <2>1. SUFFICES ASSUME NEW c \in Commits, NEW other \in Shuffled(c)
                 PROVE  /\ Read(other).ok = Folded.ok
                        /\ Folded.ok => /\ Conversation(Read(other)) = Conversation(Folded)
                                        /\ OpenComments(Read(other)) = OpenComments(Folded)
    BY DEF ArrivalOrderIsForgotten
  <2>2. Held(notes) /\ Held(other) /\ SameLines(other, notes)
    BY <1>1, AShuffleHolds DEF LogInv
  <2>3. /\ Read(other).ok = Read(notes).ok
        /\ UpToNote(NotesOf(revs, other), Len(revs)) = UpToNote(NotesOf(revs, notes), Len(revs))
    BY <1>1, <2>2, BothRead
  <2>4. ASSUME Read(notes).ok
        PROVE  /\ Conversation(Read(other)) = Conversation(Read(notes))
               /\ OpenComments(Read(other)) = OpenComments(Read(notes))
    <3>1. PICK S : S = UpToNote(NotesOf(revs, notes), Len(revs))
      OBVIOUS
    <3>2. PICK p, q : p = Read(notes) /\ q = Read(other)
      OBVIOUS
    <3>3. /\ HeadRev(p) = Last(revs) /\ ToSet(p.comments) = OfKind(S, "comment")
          /\ p.resolved = {r.target : r \in OfKind(S, "resolve")}
      BY <1>1, <2>2, <2>4, <3>1, <3>2, WhatIsSaid
    <3>4. /\ HeadRev(q) = Last(revs) /\ ToSet(q.comments) = OfKind(S, "comment")
          /\ q.resolved = {r.target : r \in OfKind(S, "resolve")}
      BY <1>1, <2>2, <2>3, <2>4, <3>1, <3>2, WhatIsSaid
    <3>5. Conversation(q) = Conversation(p)
      BY <3>3, <3>4 DEF Conversation
    <3>6. OpenComments(q) = OpenComments(p)
      BY <3>3, <3>4, <3>5 DEF OpenComments
    <3>. QED  BY <3>2, <3>5, <3>6
  <2>. QED  BY <2>3, <2>4 DEF Folded
<1>. QED  BY <1>1, LogInvHolds, PTL

-----------------------------------------------------------------------------
(* Who is on a proposal, and whether it waits for somebody.                *)

(* No older note speaks about the newest commit.                           *)
LEMMA OlderLines ==
    ASSUME LogInv, NEW n, Held(n), NEW r \in UpToNote(NotesOf(revs, n), Len(revs) - 1),
           IsAboutCode(r) \/ r.kind \in ListKinds
    PROVE  r.rev # Last(revs)
<1>1. /\ Len(revs) \in Nat /\ Len(revs) # 0 /\ Last(revs) = revs[Len(revs)]
      /\ \A i \in 1..Len(revs) : revs[i] \in Commits
  BY AsManyNotes
<1>2. Len(revs) - 1 \in 0..Len(revs)
  BY <1>1
<1>3. PICK j \in 1..(Len(revs) - 1) : r \in ToSet(n[revs[j]])
  BY <1>2, LinesUpTo
<1>4. j \in 1..Len(revs) /\ j # Len(revs) /\ Len(revs) \in 1..Len(revs)
  BY <1>1
<1>5. r \in LinesFor(revs[j])
  BY <1>1, <1>3, <1>4 DEF Held, ToSet
<1>6. r.rev = revs[j]
  BY <1>1, <1>4, <1>5, LinesAre
<1>7. revs[j] # revs[Len(revs)]
  BY <1>4 DEF LogInv, NoneTwice
<1>. QED  BY <1>1, <1>6, <1>7

LEMMA TheAgent ==
    ASSUME LogInv, NEW n, Held(n), Read(n).ok, NEW head, head = Last(revs)
    PROVE  /\ Activity(Read(n)) = ActivityIn(n[head], head)
           /\ Dispatched(Read(n)) = DispatchedIn(n[head], head)
<1>1. PICK p, logs : p = Read(n) /\ logs = NotesOf(revs, n)
  OBVIOUS
<1>2. ReadsAs(p, revs, events[First], logs, AllLines)
  BY <1>1, ReadingIt
<1>3. WorkStands(p, logs) /\ HeadRev(p) = head
  BY <1>2 DEF ReadsAs, HeadRev
<1>4. /\ logs # <<>> /\ Last(logs) = n[head] /\ Len(logs) = Len(revs)
      /\ DOMAIN logs = 1..Len(revs) /\ Len(revs) \in Nat
      /\ \A i \in 1..Len(revs) : logs[i] = n[revs[i]] /\ revs[i] \in Commits
  BY <1>1, AsManyNotes
<1>5. logs \in Seq(Seq(AllLines))
  <2>1. \A i \in 1..Len(revs) : logs[i] \in Seq(AllLines)
    BY <1>4 DEF Held
  <2>2. logs = [i \in 1..Len(revs) |-> logs[i]]
    BY <1>1, <1>4 DEF NotesOf
  <2>3. logs \in [1..Len(revs) -> Seq(AllLines)]
    BY <2>1, <2>2
  <2>. QED  BY <1>4, <2>3
<1>6. \A r \in AllLines : r.kind \in ListKinds => r.at \in Int
  BY LinesAre DEF AllLines
<1>7. \A r \in UpToNote(logs, Len(logs) - 1) : r.kind \in ListKinds => r.rev # head
  BY <1>1, <1>4, OlderLines
<1>8. PICK s : s = n[head]
  OBVIOUS
<1>9. /\ logs \in Seq(Seq(AllLines)) /\ WorkStands(p, logs) /\ logs # <<>>
      /\ head = HeadRev(p) /\ s = Last(logs)
  BY <1>3, <1>4, <1>5, <1>8
<1>10. Activity(p) = ActivityIn(s, head) /\ Dispatched(p) = DispatchedIn(s, head)
  BY <1>6, <1>7, <1>9, HeadsWork
<1>. QED  BY <1>1, <1>8, <1>10

LEMMA ShuffledWork ==
    ASSUME NEW E, NEW s \in Seq(E), NEW t \in Seq(E), NEW f, IsShuffle(f, t, s), NEW c,
           \A r \in E : r.kind \in ListKinds => r.at \in Int,
           \A i, j \in DOMAIN s : (s[i].kind \in ListKinds /\ s[j].kind \in ListKinds
                                   /\ s[i].at = s[j].at) => i = j
    PROVE  ActivityIn(t, c) = ActivityIn(s, c) /\ DispatchedIn(t, c) = DispatchedIn(s, c)
<1>1. \A i \in DOMAIN s : s[i].kind \in ListKinds => s[i].at \in Int
  OBVIOUS
<1>2. \A i \in WorkOn(s, c) : i \in DOMAIN s /\ s[i].kind \in ListKinds
  BY DEF WorkOn, ListKinds
<1>3. ASSUME NEW S \in SUBSET WorkOn(s, c)
      PROVE  Latest(t, {i \in DOMAIN t : f[i] \in S}) = Latest(s, S)
  <2>1. S \in SUBSET DOMAIN s /\ \A j \in S : s[j].at \in Int
    BY <1>1, <1>2
  <2>2. \A i, j \in S : s[i].at = s[j].at => i = j
    BY <1>2
  <2>3. PICK here : here = {i \in DOMAIN t : f[i] \in S}
    OBVIOUS
  <2>. QED  BY <2>1, <2>2, <2>3, LatestOfShuffled
<1>4. /\ \A i \in DOMAIN t : f[i] \in DOMAIN s /\ t[i] = s[f[i]]
      /\ \A j \in DOMAIN s : \E i \in DOMAIN t : f[i] = j
  BY DEF IsShuffle
<1>5. WorkOn(t, c) = {i \in DOMAIN t : f[i] \in WorkOn(s, c)}
  BY <1>4 DEF WorkOn
<1>6. ActivityIn(t, c) = ActivityIn(s, c)
  BY <1>3, <1>5 DEF ActivityIn
<1>7. \A i \in DOMAIN t : i \in AsksOn(t, c) <=> f[i] \in AsksOn(s, c)
  BY <1>4 DEF AsksOn
<1>8. ASSUME NEW j \in AsksOn(s, c)  PROVE \E i \in AsksOn(t, c) : t[i] = s[j]
  <2>1. j \in DOMAIN s
    BY DEF AsksOn
  <2>2. PICK i \in DOMAIN t : f[i] = j
    BY <1>4, <2>1
  <2>. QED  BY <1>4, <1>7, <2>2
<1>9. ASSUME NEW i \in AsksOn(t, c)  PROVE \E j \in AsksOn(s, c) : t[i] = s[j]
  <2>1. i \in DOMAIN t
    BY DEF AsksOn
  <2>. QED  BY <1>4, <1>7, <2>1
<1>10. WorkSince(t, c) = {i \in DOMAIN t : f[i] \in WorkSince(s, c)}
  <2>1. \A v : (\A i \in AsksOn(t, c) : v >= t[i].at) <=> (\A j \in AsksOn(s, c) : v >= s[j].at)
    BY <1>8, <1>9
  <2>. QED  BY <1>4, <1>5, <2>1 DEF WorkSince
<1>11. WorkSince(s, c) \in SUBSET WorkOn(s, c)
  BY DEF WorkSince
<1>12. Latest(t, WorkSince(t, c)) = Latest(s, WorkSince(s, c))
  BY <1>3, <1>10, <1>11
<1>. QED  BY <1>6, <1>8, <1>9, <1>12 DEF DispatchedIn

(* Who works on a proposal, and whether it waits for an agent, is decided  *)
(* by the moments of the lines and not by their places, if no two of a     *)
(* note share one.  (work.rs, `latest`)                                    *)
THEOREM PlacesAreForgotten == LogSpec => []WorkOrderIsForgotten
<1>1. ASSUME LogInv  PROVE WorkOrderIsForgotten
  <2>1. SUFFICES ASSUME NEW c \in Commits, Folded.ok,
                        \A i, j \in Dated(c) : notes[c][i].at = notes[c][j].at => i = j,
                        NEW other \in Shuffled(c)
                 PROVE  /\ Activity(Read(other)) = Activity(Folded)
                        /\ Dispatched(Read(other)) = Dispatched(Folded)
    BY DEF WorkOrderIsForgotten
  <2>2. /\ Held(notes) /\ Held(other) /\ SameLines(other, notes)
        /\ \A d \in Commits : d # c => other[d] = notes[d]
    BY <1>1, AShuffleHolds DEF LogInv
  <2>3. PICK f : IsShuffle(f, other[c], notes[c])
    BY <1>1, AShuffleHolds
  <2>4. Read(notes).ok /\ Read(other).ok
    BY <1>1, <2>1, <2>2, BothRead DEF Folded
  <2>5. PICK head : head = Last(revs)
    OBVIOUS
  <2>6. /\ Activity(Read(notes)) = ActivityIn(notes[head], head)
        /\ Dispatched(Read(notes)) = DispatchedIn(notes[head], head)
    BY <1>1, <2>2, <2>4, <2>5, TheAgent
  <2>7. /\ Activity(Read(other)) = ActivityIn(other[head], head)
        /\ Dispatched(Read(other)) = DispatchedIn(other[head], head)
    BY <1>1, <2>2, <2>4, <2>5, TheAgent
  <2>8. head \in Commits
    <3>1. /\ Last(revs) = revs[Len(revs)] /\ Len(revs) \in Nat /\ Len(revs) # 0
          /\ \A i \in 1..Len(revs) : revs[i] \in Commits
      BY <1>1, AsManyNotes
    <3>. QED  BY <2>5, <3>1
  <2>9. CASE head # c
    BY <2>2, <2>6, <2>7, <2>8, <2>9 DEF Folded
  <2>10. CASE head = c
    <3>1. PICK s \in Seq(AllLines), t \in Seq(AllLines) : s = notes[c] /\ t = other[c]
      BY <2>2 DEF Held
    <3>2. \A r \in AllLines : r.kind \in ListKinds => r.at \in Int
      BY LinesAre DEF AllLines
    <3>3. \A i, j \in DOMAIN s : (s[i].kind \in ListKinds /\ s[j].kind \in ListKinds
                                  /\ s[i].at = s[j].at) => i = j
      BY <2>1, <3>1 DEF Dated, ListKinds
    <3>4. IsShuffle(f, t, s)
      BY <2>3, <3>1
    <3>5. ActivityIn(t, c) = ActivityIn(s, c) /\ DispatchedIn(t, c) = DispatchedIn(s, c)
      BY <3>2, <3>3, <3>4, ShuffledWork
    <3>. QED  BY <2>6, <2>7, <2>10, <3>1, <3>5 DEF Folded
  <2>. QED  BY <2>9, <2>10
<1>. QED  BY <1>1, LogInvHolds, PTL

-----------------------------------------------------------------------------
(* The gate and what the page shows of it.                                 *)

Passed(p, k) == \E v \in Checks(p) : v.name = k /\ v.passed

LEMMA NothingBlocks ==
    ASSUME NEW p
    PROVE  Blocked(p) = <<>> <=> /\ p.state = "open" /\ OpenComments(p) = {}
                                 /\ \A k \in ToSet(Required) : Passed(p, k)
<1>. DEFINE I == {i \in 1..Len(Required) : ~Passed(p, Required[i])}
<1>1. Stuck(p) = IF I # {} THEN Min(I) ELSE 0
  BY DEF Stuck, SelectInSeq, Passed
<1>2. Required \in Seq(Names) /\ I \in SUBSET Nat /\ 0 \notin I
  BY OverviewAssumption
<1>3. I # {} => Min(I) \in I
  BY <1>2, Least
<1>4. Stuck(p) = 0 <=> I = {}
  BY <1>1, <1>2, <1>3
<1>5. I = {} <=> \A k \in ToSet(Required) : Passed(p, k)
  BY <1>2 DEF ToSet
<1>. HIDE DEF I
<1>6. Blocked(p) = <<>> <=> p.state = "open" /\ OpenComments(p) = {} /\ Stuck(p) = 0
  BY DEF Blocked
<1>. QED  BY <1>4, <1>5, <1>6

LEMMA OpenOrEnded ==
    ASSUME LogInv, NEW n, Held(n), Read(n).ok
    PROVE  Read(n).state = "open" <=> ~\E e \in ToSet(events[First]) : IsEnding(e)
<1>1. PICK told : told = events[First]
  OBVIOUS
<1>2. PICK p : p = Read(n)
  OBVIOUS
<1>3. p.state = StateOf(told)
  BY <1>1, <1>2, ReadingIt DEF ReadsAs
<1>4. PICK i : i = SelectInSeq(told, IsEnding)
  OBVIOUS
<1>5. told \in Seq({Opened("main", 0), Landed(0), Abandoned(0)})
  <2>1. First \in Commits
    BY LogFoldAssumption
  <2>2. told = <<Opened("main", 0)>> \o endings
    BY <1>1, <2>1 DEF events
  <2>3. endings \in Seq({Landed(0), Abandoned(0)})
    BY DEF LogInv
  <2>4. PICK o, l, a : o = Opened("main", 0) /\ l = Landed(0) /\ a = Abandoned(0)
    OBVIOUS
  <2>5. endings \in Seq({o, l, a}) /\ <<o>> \in Seq({o, l, a})
    BY <2>3, <2>4
  <2>. QED  BY <2>2, <2>4, <2>5
<1>6. /\ i = 0 <=> ~\E j \in DOMAIN told : told[j].kind \in {"landed", "abandoned"}
      /\ i # 0 => told[i].kind \in {"landed", "abandoned"}
  BY <1>4, <1>5, FirstEnding
<1>7. p.state = "open" <=> i = 0
  BY <1>3, <1>4, <1>6 DEF StateOf
<1>8. (\E e \in ToSet(told) : IsEnding(e)) <=>
         \E j \in DOMAIN told : told[j].kind \in {"landed", "abandoned"}
  BY DEF ToSet, IsEnding
<1>. QED  BY <1>1, <1>2, <1>6, <1>7, <1>8

(* A verdict on the head is the last of its name in the head's note.       *)
LEMMA HeadChecks ==
    ASSUME LogInv, NEW n, Held(n), Read(n).ok, NEW head, head = Last(revs), NEW s, s = n[head]
    PROVE  \A v : v \in Checks(Read(n)) <=>
                     \E j \in DOMAIN s : /\ v = s[j] /\ IsVerdict(v, v.name)
                                         /\ \A m \in DOMAIN s : IsVerdict(s[m], v.name) => m <= j
<1>1. PICK p, logs : p = Read(n) /\ logs = NotesOf(revs, n)
  OBVIOUS
<1>2. ReadsAs(p, revs, events[First], logs, AllLines)
  BY <1>1, ReadingIt
<1>3. VerdictsStand(p, logs) /\ HeadRev(p) = head
  BY <1>2 DEF ReadsAs, HeadRev
<1>4. /\ Last(logs) = s /\ Len(logs) = Len(revs) /\ head \in Commits
  <2>1. /\ Last(logs) = n[Last(revs)] /\ Len(logs) = Len(revs)
        /\ Last(revs) = revs[Len(revs)] /\ Len(revs) \in Nat /\ Len(revs) # 0
        /\ \A i \in 1..Len(revs) : revs[i] \in Commits
    BY <1>1, AsManyNotes
  <2>. QED  BY <2>1
<1>5. s \in Seq(LinesFor(head)) /\ DOMAIN s = 1..Len(s)
  BY <1>4 DEF Held
<1>6. PICK older :
         /\ older.checks \subseteq {x \in UpToNote(logs, Len(logs) - 1) : x.kind = "check"}
         /\ \A v : v \in p.checks <=> Stands(older, s, Len(s), v)
  BY <1>3, <1>4 DEF VerdictsStand
<1>7. \A v \in older.checks : v.rev # head
  BY <1>1, <1>4, <1>6, OlderLines DEF IsAboutCode
<1>8. \A j \in DOMAIN s : s[j].kind = "check" => s[j].rev = head
  BY <1>4, <1>5, LinesAre DEF IsAboutCode
<1>9. ASSUME NEW v
      PROVE  v \in Checks(p) <=>
                \E j \in DOMAIN s : /\ v = s[j] /\ IsVerdict(v, v.name)
                                    /\ \A m \in DOMAIN s : IsVerdict(s[m], v.name) => m <= j
  <2>1. v \in Checks(p) <=> Stands(older, s, Len(s), v) /\ v.rev = head
    BY <1>3, <1>6 DEF Checks
  <2>. QED  BY <1>5, <1>7, <1>8, <2>1 DEF Stands, IsVerdict
<1>. QED  BY <1>1, <1>9

(* What the page lists of the notes.                                       *)
LEMMA ThreadsAre ==
    ASSUME NEW p
    PROVE  /\ \A t \in ToSet(Threads(p)) : \E i \in DOMAIN p.comments :
                 /\ t.id = p.comments[i].id
                 /\ t.stale <=> p.comments[i].rev # HeadRev(p)
                 /\ t.resolved <=> p.comments[i].id \in p.resolved
           /\ \A i \in DOMAIN p.comments : \E t \in ToSet(Threads(p)) :
                 /\ t.id = p.comments[i].id
                 /\ t.stale <=> p.comments[i].rev # HeadRev(p)
                 /\ t.resolved <=> p.comments[i].id \in p.resolved
<1>1. /\ DOMAIN Threads(p) = DOMAIN p.comments
      /\ \A i \in DOMAIN p.comments :
            /\ Threads(p)[i].id = p.comments[i].id
            /\ Threads(p)[i].stale <=> p.comments[i].rev # HeadRev(p)
            /\ Threads(p)[i].resolved <=> p.comments[i].id \in p.resolved
  BY DEF Threads
<1>. QED  BY <1>1 DEF ToSet

(* The notes of the head are the comments of its note.                     *)
LEMMA CommentsOnHead ==
    ASSUME LogInv, NEW n, Held(n), NEW head, head = Last(revs),
           NEW r \in UpToNote(NotesOf(revs, n), Len(revs)), r.kind = "comment"
    PROVE  (r.rev = head <=> r \in ToSet(n[head])) /\ Home[r.id] = r.rev
<1>1. /\ Len(revs) \in Nat /\ Len(revs) # 0 /\ head = revs[Len(revs)]
      /\ \A i \in 1..Len(revs) : revs[i] \in Commits
  BY AsManyNotes
<1>2. PICK j \in 1..Len(revs) : r \in ToSet(n[revs[j]])
  <2>1. Len(revs) \in 0..Len(revs)
    BY <1>1
  <2>. QED  BY <2>1, LinesUpTo
<1>3. r \in LinesFor(revs[j]) /\ revs[j] \in Commits /\ head \in Commits
  BY <1>1, <1>2 DEF Held, ToSet
<1>4. r.rev = revs[j] /\ Home[r.id] = revs[j]
  BY <1>3, LinesAre DEF IsAboutCode
<1>5. r \in ToSet(n[head]) => r \in LinesFor(head)
  BY <1>3 DEF Held, ToSet
<1>6. r \in LinesFor(head) => r.rev = head
  BY <1>3, LinesAre DEF IsAboutCode
<1>. QED  BY <1>2, <1>4, <1>5, <1>6

LEMMA AllTheLines ==
    ASSUME LogInv, NEW n, Held(n)
    PROVE  /\ UpToNote(NotesOf(revs, n), Len(revs)) = UNION {ToSet(n[c]) : c \in ToSet(revs)}
           /\ ToSet(n[Last(revs)]) \subseteq UpToNote(NotesOf(revs, n), Len(revs))
<1>1. /\ Len(revs) \in Nat /\ Len(revs) # 0 /\ Last(revs) = revs[Len(revs)]
      /\ DOMAIN revs = 1..Len(revs) /\ Len(revs) \in 0..Len(revs) /\ Len(revs) \in 1..Len(revs)
  BY AsManyNotes DEF LogInv
<1>2. \A r : r \in UpToNote(NotesOf(revs, n), Len(revs)) <=>
                \E j \in 1..Len(revs) : r \in ToSet(n[revs[j]])
  BY <1>1, LinesUpTo
<1>3. \A r : r \in UNION {ToSet(n[c]) : c \in ToSet(revs)} <=>
                \E j \in 1..Len(revs) : r \in ToSet(n[revs[j]])
  <2>1. \A c : c \in ToSet(revs) <=> \E j \in 1..Len(revs) : c = revs[j]
    BY <1>1 DEF ToSet
  <2>2. \A r : r \in UNION {ToSet(n[c]) : c \in ToSet(revs)} <=>
                  \E c \in ToSet(revs) : r \in ToSet(n[c])
    OBVIOUS
  <2>. QED  BY <2>1, <2>2
<1>4. \A r \in ToSet(n[Last(revs)]) : r \in UpToNote(NotesOf(revs, n), Len(revs))
  BY <1>1, <1>2
<1>. QED  BY <1>2, <1>3, <1>4

LEMMA ResolvedIsSaid ==
    ASSUME LogInv, NEW n, Held(n), Read(n).ok,
           NEW S, S = UpToNote(NotesOf(revs, n), Len(revs)), NEW r \in S, r.kind = "resolve"
    PROVE  \E x \in S : x.kind = "comment" /\ x.id = r.target
<1>1. PICK logs : logs = NotesOf(revs, n)
  OBVIOUS
<1>2. /\ Len(logs) = Len(revs) /\ Len(revs) \in Nat
      /\ \A i \in 1..Len(revs) : logs[i] = n[revs[i]]
  BY <1>1, AsManyNotes
<1>3. LogsRead(revs, logs)
  BY <1>1, ReadingIt
<1>4. PICK j \in 1..Len(revs) : r \in ToSet(logs[j])
  <2>1. Len(revs) \in 0..Len(revs)
    BY <1>2
  <2>. QED  BY <1>2, <2>1, LinesUpTo
<1>5. PICK x \in UpToNote(logs, j) : x.kind = "comment" /\ x.id = r.target
  <2>1. NoteReads(revs, logs[j], UpToNote(logs, j))
    BY <1>2, <1>3 DEF LogsRead
  <2>. QED  BY <1>4, <2>1 DEF NoteReads, IsAnchored, IsAnswer
<1>6. x \in S
  <2>1. 1..j \subseteq 1..Len(revs)
    OBVIOUS
  <2>. QED  BY <1>1, <2>1 DEF UpToNote
<1>. QED  BY <1>5, <1>6

LEMMA RowsOfChecks ==
    ASSUME NEW p, \A v, w \in Checks(p) : v.name = w.name => v = w
    PROVE  (\A row \in CheckRows(p) : row.name \in ToSet(Required) => row.state = "passed")
              <=> \A k \in ToSet(Required) : Passed(p, k)
<1>1. ASSUME NEW row \in CheckRows(p)
      PROVE  \/ \E v \in Checks(p) : /\ row.name = v.name
                                     /\ row.state = "passed" <=> v.passed
             \/ row.state = "missing" /\ \A v \in Checks(p) : v.name # row.name
  BY DEF CheckRows
<1>2. ASSUME NEW v \in Checks(p)
      PROVE  \E row \in CheckRows(p) : row.name = v.name /\ (row.state = "passed" <=> v.passed)
  <2>1. PICK row : row = [name |-> v.name, state |-> IF v.passed THEN "passed" ELSE "failed"]
    OBVIOUS
  <2>2. row \in CheckRows(p)
    BY <2>1 DEF CheckRows
  <2>3. row.name = v.name /\ (row.state = "passed" <=> v.passed)
    BY <2>1
  <2>. QED  BY <2>2, <2>3
<1>3. ASSUME NEW k \in ToSet(Required), \A v \in Checks(p) : v.name # k
      PROVE  \E row \in CheckRows(p) : row.name = k /\ row.state = "missing"
  <2>1. PICK row : row = [name |-> k, state |-> "missing"]
    OBVIOUS
  <2>2. row \in CheckRows(p)
    BY <1>3, <2>1 DEF CheckRows
  <2>. QED  BY <2>1, <2>2
<1>4. ASSUME \A row \in CheckRows(p) : row.name \in ToSet(Required) => row.state = "passed",
             NEW k \in ToSet(Required)
      PROVE  Passed(p, k)
  <2>1. PICK v \in Checks(p) : v.name = k
    BY <1>3, <1>4
  <2>. QED  BY <1>2, <1>4, <2>1 DEF Passed
<1>5. ASSUME \A k \in ToSet(Required) : Passed(p, k),
             NEW row \in CheckRows(p), row.name \in ToSet(Required)
      PROVE  row.state = "passed"
  <2>1. PICK v \in Checks(p) : v.name = row.name /\ v.passed
    BY <1>5 DEF Passed
  <2>. QED  BY <1>1, <2>1
<1>. QED  BY <1>4, <1>5

(* The gate, by the lines: nothing ended the proposal, every comment in    *)
(* the newest note was resolved by a line of some revision, and its last   *)
(* verdict of every required check is a pass; and what the page lists says *)
(* the same.  (proposal/views.rs `landable`, model/status.rs, model.rs)    *)
THEOREM TheGateReadsTheHead == LogSpec => []GateReadsTheHead
<1>1. ASSUME LogInv  PROVE GateReadsTheHead
  <2>. DEFINE head      == Last(revs)
              said(k)   == {i \in DOMAIN notes[head] : /\ notes[head][i].kind = "check"
                                                     /\ notes[head][i].name = k}
              passed(k) == \E i \in said(k) : notes[head][i].passed /\ \A j \in said(k) : j <= i
              answered  == {r.target : r \in {r \in UNION {ToSet(notes[c]) : c \in ToSet(revs)} :
                                                 r.kind = "resolve"}}
              asked     == {r.id : r \in {r \in ToSet(notes[head]) : r.kind = "comment"}}
              ended     == \E e \in ToSet(events[First]) : IsEnding(e)
              named(l)  == {t.id : t \in l}
              required(p) == {row \in CheckRows(p) : row.name \in ToSet(Required)}
              S         == UpToNote(NotesOf(revs, notes), Len(revs))
  <2>1. Held(notes)
    BY <1>1 DEF LogInv
  <2>2. SUFFICES ASSUME NEW p, p = Read(notes), p.ok
                 PROVE  /\ Blocked(p) = <<>> <=>
                              /\ ~ended
                              /\ asked \subseteq answered
                              /\ \A k \in ToSet(Required) : passed(k)
                        /\ Blocked(p) = <<>> <=>
                              /\ ~ended
                              /\ NotesOpen(p) = {}
                              /\ \A row \in required(p) : row.state = "passed"
                        /\ named(NotesOpen(p)) = asked \ answered
                        /\ named(NotesEarlier(p)) \cap asked = {}
                        /\ named(NotesResolved(p)) = answered
    BY DEF GateReadsTheHead, Folded
  <2>3. p.state = "open" <=> ~ended
    BY <1>1, <2>1, <2>2, OpenOrEnded
  <2>4. /\ HeadRev(p) = head /\ ToSet(p.comments) = OfKind(S, "comment")
        /\ p.resolved = {r.target : r \in OfKind(S, "resolve")}
    BY <1>1, <2>1, <2>2, WhatIsSaid
  <2>5. S = UNION {ToSet(notes[c]) : c \in ToSet(revs)} /\ ToSet(notes[head]) \subseteq S
    BY <1>1, <2>1, AllTheLines
  <2>6. p.resolved = answered
    BY <2>4, <2>5 DEF OfKind
  <2>7. \A r \in S : r.kind = "comment" => /\ r.rev = head <=> r \in ToSet(notes[head])
                                           /\ Home[r.id] = r.rev
    BY <1>1, <2>1, CommentsOnHead
  <2>8. \A r \in S : r.kind = "resolve" => \E x \in S : x.kind = "comment" /\ x.id = r.target
    BY <1>1, <2>1, <2>2, ResolvedIsSaid
  <2>. HIDE DEF S
  <2>9. \A x : x \in asked <=> \E r \in S : r.kind = "comment" /\ r.rev = head /\ r.id = x
    BY <2>5, <2>7
  <2>10. \A x \in answered : \E r \in S : r.kind = "comment" /\ r.id = x
    <3>1. SUFFICES ASSUME NEW x \in p.resolved
                   PROVE  \E r \in S : r.kind = "comment" /\ r.id = x
      BY <2>6
    <3>2. PICK r \in OfKind(S, "resolve") : x = r.target
      BY <2>4
    <3>. QED  BY <2>8, <3>2 DEF OfKind
  <2>. HIDE DEF answered, asked, ended
  <2>11. \A r : r \in OpenComments(p) <=> /\ r \in S /\ r.kind = "comment"
                                          /\ r.rev = head /\ r.id \notin answered
    BY <2>4, <2>6 DEF OpenComments, Conversation, OfKind
  <2>12. OpenComments(p) = {} <=> asked \subseteq answered
    BY <2>9, <2>11
  <2>13. ASSUME NEW k  PROVE Passed(p, k) <=> passed(k)
    <3>1. \A v : v \in Checks(p) <=>
              \E j \in DOMAIN notes[head] :
                 /\ v = notes[head][j] /\ IsVerdict(v, v.name)
                 /\ \A m \in DOMAIN notes[head] : IsVerdict(notes[head][m], v.name) => m <= j
      BY <1>1, <2>1, <2>2, HeadChecks
    <3>2. PICK s : s = notes[head]
      OBVIOUS
    <3>. HIDE DEF head
    <3>3. Passed(p, k) <=>
             \E j \in DOMAIN s : /\ IsVerdict(s[j], k) /\ s[j].passed
                                 /\ \A m \in DOMAIN s : IsVerdict(s[m], k) => m <= j
      BY <3>1, <3>2 DEF Passed, IsVerdict
    <3>4. \A i : i \in said(k) <=> i \in DOMAIN s /\ IsVerdict(s[i], k)
      BY <3>2 DEF IsVerdict
    <3>. QED  BY <3>2, <3>3, <3>4
  <2>14. Blocked(p) = <<>> <=> /\ ~ended /\ OpenComments(p) = {}
                               /\ \A k \in ToSet(Required) : Passed(p, k)
    BY <2>3, NothingBlocks
  <2>15. \A v, w \in Checks(p) : v.name = w.name => v = w
    <3>1. PICK s : s = notes[head]
      OBVIOUS
    <3>2. \A v : v \in Checks(p) <=>
              \E j \in DOMAIN s :
                 /\ v = s[j] /\ IsVerdict(v, v.name)
                 /\ \A m \in DOMAIN s : IsVerdict(s[m], v.name) => m <= j
      BY <1>1, <2>1, <2>2, <3>1, HeadChecks
    <3>3. DOMAIN s \subseteq Nat
      <4>1. head \in Commits
        <5>1. /\ head = revs[Len(revs)] /\ Len(revs) \in Nat /\ Len(revs) # 0
              /\ \A i \in 1..Len(revs) : revs[i] \in Commits
          BY <1>1, AsManyNotes
        <5>. QED  BY <5>1
      <4>. HIDE DEF head
      <4>2. s \in Seq(AllLines)
        BY <2>1, <3>1, <4>1 DEF Held
      <4>. QED  BY <4>2
    <3>4. SUFFICES ASSUME NEW v \in Checks(p), NEW w \in Checks(p), v.name = w.name
                   PROVE  v = w
      OBVIOUS
    <3>5. PICK i \in DOMAIN s : /\ v = s[i] /\ IsVerdict(v, v.name)
                                /\ \A m \in DOMAIN s : IsVerdict(s[m], v.name) => m <= i
      BY <3>2
    <3>6. PICK j \in DOMAIN s : /\ w = s[j] /\ IsVerdict(w, w.name)
                                /\ \A m \in DOMAIN s : IsVerdict(s[m], w.name) => m <= j
      BY <3>2
    <3>7. i <= j /\ j <= i /\ i \in Nat /\ j \in Nat
      BY <3>3, <3>4, <3>5, <3>6
    <3>8. i = j
      BY <3>7
    <3>. QED  BY <3>5, <3>6, <3>8
  <2>. HIDE DEF passed, head
  <2>16. ASSUME NEW t
         PROVE  t \in ToSet(Threads(p)) => \E r \in S :
                   /\ r.kind = "comment" /\ t.id = r.id
                   /\ t.stale <=> r.rev # head
                   /\ t.resolved <=> r.id \in answered
    <3>1. SUFFICES ASSUME t \in ToSet(Threads(p))
                   PROVE  \E r \in S : /\ r.kind = "comment" /\ t.id = r.id
                                       /\ t.stale <=> r.rev # head
                                       /\ t.resolved <=> r.id \in answered
      OBVIOUS
    <3>2. PICK i \in DOMAIN p.comments :
             /\ t.id = p.comments[i].id
             /\ t.stale <=> p.comments[i].rev # HeadRev(p)
             /\ t.resolved <=> p.comments[i].id \in p.resolved
      BY <3>1, ThreadsAre
    <3>3. p.comments[i] \in OfKind(S, "comment")
      BY <2>4 DEF ToSet
    <3>. QED  BY <2>4, <2>6, <3>2, <3>3 DEF OfKind
  <2>17. ASSUME NEW r \in S, r.kind = "comment"
         PROVE  \E t \in ToSet(Threads(p)) :
                   /\ t.id = r.id
                   /\ t.stale <=> r.rev # head
                   /\ t.resolved <=> r.id \in answered
    <3>1. r \in ToSet(p.comments)
      BY <2>4, <2>17 DEF OfKind
    <3>2. PICK i \in DOMAIN p.comments : r = p.comments[i]
      BY <3>1 DEF ToSet
    <3>3. PICK t \in ToSet(Threads(p)) : /\ t.id = p.comments[i].id
                                         /\ t.stale <=> p.comments[i].rev # HeadRev(p)
                                         /\ t.resolved <=> p.comments[i].id \in p.resolved
      BY ThreadsAre
    <3>. QED  BY <2>4, <2>6, <3>2, <3>3
  <2>18. NotesOpen(p) = {} <=> OpenComments(p) = {}
    BY <2>11, <2>16, <2>17 DEF NotesOpen
  <2>19. (\A row \in required(p) : row.state = "passed")
            <=> \A k \in ToSet(Required) : Passed(p, k)
    BY <2>15, RowsOfChecks
  <2>20. named(NotesOpen(p)) = asked \ answered
    <3>1. ASSUME NEW x \in named(NotesOpen(p))  PROVE x \in asked \ answered
      <4>1. PICK t \in ToSet(Threads(p)) : t.id = x /\ ~t.resolved /\ ~t.stale
        BY DEF NotesOpen
      <4>. QED  BY <2>9, <2>16, <4>1
    <3>2. ASSUME NEW x \in asked \ answered  PROVE x \in named(NotesOpen(p))
      <4>1. PICK r \in S : r.kind = "comment" /\ r.rev = head /\ r.id = x
        BY <2>9
      <4>2. PICK t \in ToSet(Threads(p)) : t.id = x /\ ~t.resolved /\ ~t.stale
        BY <2>17, <3>2, <4>1
      <4>. QED  BY <4>2 DEF NotesOpen
    <3>. QED  BY <3>1, <3>2
  <2>21. named(NotesEarlier(p)) \cap asked = {}
    <3>1. ASSUME NEW x \in named(NotesEarlier(p)), x \in asked  PROVE FALSE
      <4>1. PICK t \in ToSet(Threads(p)) : t.id = x /\ t.stale
        BY DEF NotesEarlier
      <4>2. PICK r \in S : r.kind = "comment" /\ r.id = x /\ r.rev # head
        BY <2>16, <4>1
      <4>3. PICK a \in S : a.kind = "comment" /\ a.id = x /\ a.rev = head
        BY <2>9, <3>1
      <4>. QED  BY <2>7, <4>2, <4>3
    <3>. QED  BY <3>1
  <2>22. named(NotesResolved(p)) = answered
    <3>1. ASSUME NEW x \in named(NotesResolved(p))  PROVE x \in answered
      <4>1. PICK t \in ToSet(Threads(p)) : t.id = x /\ t.resolved
        BY DEF NotesResolved
      <4>. QED  BY <2>16, <4>1
    <3>2. ASSUME NEW x \in answered  PROVE x \in named(NotesResolved(p))
      <4>1. PICK r \in S : r.kind = "comment" /\ r.id = x
        BY <2>10
      <4>2. PICK t \in ToSet(Threads(p)) : t.id = x /\ t.resolved
        BY <2>17, <3>2, <4>1
      <4>. QED  BY <4>2 DEF NotesResolved
    <3>. QED  BY <3>1, <3>2
  <2>. HIDE DEF named, required
  <2>. QED  BY <2>12, <2>13, <2>14, <2>18, <2>19, <2>20, <2>21, <2>22
<1>. QED  BY <1>1, LogInvHolds, PTL

-----------------------------------------------------------------------------
(* What two pages are drawn from, if they are hashed alike (Overview).     *)

(* What of a list is picked, and what a line more in the list adds to it.  *)

Alone(L, A) == [x \in L |-> IF x \in A THEN <<x>> ELSE <<>>]
Among(lines, A) == {i \in DOMAIN lines : lines[i] \in A}

LEMMA PickedIs ==
    ASSUME NEW L, NEW lines \in Seq(L), NEW A
    PROVE  /\ Alone(L, A) \in [L -> Seq(L)]
           /\ Picked(lines, Among(lines, A)) = FlattenSeq(Parts(lines, Alone(L, A)))
           /\ Picked(lines, Among(lines, A)) \in Seq(L)
<1>1. Alone(L, A) \in [L -> Seq(L)]
  <2>1. ASSUME NEW x \in L  PROVE (IF x \in A THEN <<x>> ELSE <<>>) \in Seq(L)
    OBVIOUS
  <2>. QED  BY <2>1 DEF Alone
<1>2. \A i \in DOMAIN lines : lines[i] \in L
  OBVIOUS
<1>3. [i \in DOMAIN lines |-> IF i \in Among(lines, A) THEN <<lines[i]>> ELSE <<>>]
         = Parts(lines, Alone(L, A))
  BY <1>2 DEF Parts, Alone, Among
<1>4. Picked(lines, Among(lines, A)) = FlattenSeq(Parts(lines, Alone(L, A)))
  BY <1>3 DEF Picked
<1>5. AreParts(Parts(lines, Alone(L, A)), lines, Alone(L, A), L)
  BY <1>1, PartsAre
<1>6. FlattenSeq(Parts(lines, Alone(L, A))) \in Seq(L)
  BY <1>5, FlatteningRuns DEF AreParts
<1>. QED  BY <1>1, <1>4, <1>6

LEMMA Longer ==
    ASSUME NEW T, NEW a \in Seq(T), NEW x \in Seq(T), NEW one, NEW other,
           EndAlike(T, one, other, a, a \o x)
    PROVE  /\ Len(one) \in Nat /\ Len(other) \in Nat
           /\ Len(other) = Len(one) + Len(x)
           /\ x = <<>> => other = one
<1>0. a \o x \in Seq(T)
  OBVIOUS
<1>1. PICK c \in Seq(T) : c = a \o x
  BY <1>0
<1>2. PICK b \in Seq(T) : one = a \o b /\ other = c \o b
  BY <1>1 DEF EndAlike
<1>3. Len(one) = Len(a) + Len(b) /\ Len(other) = Len(c) + Len(b) /\ Len(c) = Len(a) + Len(x)
  <2>1. Len(a \o b) = Len(a) + Len(b)
    BY LengthsAdd
  <2>2. Len(c \o b) = Len(c) + Len(b)
    BY LengthsAdd
  <2>3. Len(a \o x) = Len(a) + Len(x)
    BY LengthsAdd
  <2>. QED  BY <1>1, <1>2, <2>1, <2>2, <2>3
<1>4. Len(a) \in Nat /\ Len(b) \in Nat /\ Len(x) \in Nat
  OBVIOUS
<1>5. x = <<>> => c = a
  BY <1>1
<1>6. x = <<>> => other = one
  BY <1>2, <1>5
<1>. QED  BY <1>3, <1>4, <1>6

LEMMA PickedGrows ==
    ASSUME NEW L, NEW lines \in Seq(L), NEW more \in Seq(L), NEW r \in L,
           Inserted(lines, more, r), NEW A,
           NEW one, one = Picked(lines, Among(lines, A)),
           NEW other, other = Picked(more, Among(more, A))
    PROVE  /\ Len(one) \in Nat /\ Len(other) \in Nat
           /\ r \in A => Len(other) = Len(one) + 1
           /\ r \notin A => other = one
<1>1. PICK F \in [L -> Seq(L)] : F = Alone(L, A)
  BY PickedIs
<1>2. one = FlattenSeq(Parts(lines, F)) /\ other = FlattenSeq(Parts(more, F))
  BY <1>1, PickedIs
<1>3. PICK x \in Seq(L) : x = F[r]
  OBVIOUS
<1>4. PICK a \in Seq(L) : EndAlike(L, one, other, a, a \o x)
  <2>1. \E a \in Seq(L) : EndAlike(L, FlattenSeq(Parts(lines, F)), FlattenSeq(Parts(more, F)),
                                   a, a \o F[r])
    BY ALineOfParts
  <2>. QED  BY <1>2, <1>3, <2>1
<1>5. /\ Len(one) \in Nat /\ Len(other) \in Nat
      /\ Len(other) = Len(one) + Len(x)
      /\ x = <<>> => other = one
  BY <1>4, Longer
<1>6. (r \in A => x = <<r>>) /\ (r \notin A => x = <<>>)
  BY <1>1, <1>3 DEF Alone
<1>7. r \in A => Len(x) = 1
  BY <1>6
<1>. QED  BY <1>5, <1>6, <1>7

(* What is fed into the hash of a page, part by part.                      *)
Bar(p)          == <<p.state, ToString(Len(p.revs)), HeadRev(p), p.target>>
HashedChunks(p) == [i \in DOMAIN p.chunks |-> p.chunks[i].id]
HashedWhys(p)   == [i \in DOMAIN Explained(p) |-> Explained(p)[i].id]
HashedLabor(p)  == FlattenSeq([i \in DOMAIN p.work |-> HashedWork(p.work[i])])

LEMMA FedInOrder ==
    ASSUME NEW p
    PROVE  Fingerprint(p) = (((((Bar(p) \o HashedNotes(p)) \o HashedChecks(p)) \o HashedChunks(p))
                              \o HashedWhys(p)) \o HashedLabor(p)) \o <<Yes(Dispatched(p))>>
BY DEF Fingerprint, HashedLog, Bar, HashedChunks, HashedWhys, HashedLabor

(* All of it is in the letters of T.                                       *)
Spelt(p, T) ==
    /\ Bar(p) \in Seq(T) /\ Len(Bar(p)) = 4
    /\ HashedNotes(p) \in Seq(T) /\ HashedChecks(p) \in Seq(T) /\ HashedChunks(p) \in Seq(T)
    /\ HashedWhys(p) \in Seq(T) /\ HashedLabor(p) \in Seq(T)
    /\ Yes(Dispatched(p)) \in T

(* s is a, then b.                                                         *)
Then(T, s, a, b) == a \in Seq(T) /\ b \in Seq(T) /\ s = a \o b

LEMMA ThenOn ==
    ASSUME NEW T, NEW s, NEW a, NEW b, Then(T, s, a, b)
    PROVE  /\ s \in Seq(T) /\ Len(s) = Len(a) + Len(b)
           /\ Len(a) \in Nat /\ Len(b) \in Nat /\ Len(s) \in Nat
           /\ \A i \in 1..Len(a) : s[i] = a[i]
<1>1. a \in Seq(T) /\ b \in Seq(T) /\ s = a \o b
  BY DEF Then
<1>. QED  BY <1>1

(* How long it is.                                                         *)
LongAsBoth(s, a, b) == Len(s) = Len(a) + Len(b) /\ Len(a) \in Nat /\ Len(b) \in Nat

LEMMA ThenAdds ==
    ASSUME NEW T, NEW s, NEW a, NEW b, Then(T, s, a, b)
    PROVE  LongAsBoth(s, a, b)
BY ThenOn DEF LongAsBoth

LEMMA ThenSplits ==
    ASSUME NEW T, NEW s, NEW a, NEW b, Then(T, s, a, b),
           NEW c, NEW d, Then(T, s, c, d), Len(a) = Len(c)
    PROVE  a = c /\ b = d
<1>1. /\ a \in Seq(T) /\ b \in Seq(T) /\ s = a \o b
      /\ c \in Seq(T) /\ d \in Seq(T) /\ s = c \o d
  BY DEF Then
<1>2. a \o b = c \o d
  BY <1>1
<1>. HIDE DEF Then
<1>. QED  BY <1>1, <1>2, SplitAlike

(* The seven parts of s, in their order.                                   *)
Fed(T, s, a, b, c, d, e, f, g, m) ==
    /\ Then(T, m[1], a, b)
    /\ Then(T, m[2], m[1], c)
    /\ Then(T, m[3], m[2], d)
    /\ Then(T, m[4], m[3], e)
    /\ Then(T, m[5], m[4], f)
    /\ Then(T, s, m[5], g)

FedAs(p, T, m) ==
    Fed(T, Fingerprint(p), Bar(p), HashedNotes(p), HashedChecks(p), HashedChunks(p),
        HashedWhys(p), HashedLabor(p), <<Yes(Dispatched(p))>>, m)

LEMMA ItIsFed ==
    ASSUME NEW T, NEW p, Spelt(p, T)
    PROVE  \E m : FedAs(p, T, m)
<1>1. PICK a, b, c, d, e, f, g :
         /\ a = Bar(p) /\ b = HashedNotes(p) /\ c = HashedChecks(p) /\ d = HashedChunks(p)
         /\ e = HashedWhys(p) /\ f = HashedLabor(p) /\ g = <<Yes(Dispatched(p))>>
  OBVIOUS
<1>2. /\ a \in Seq(T) /\ b \in Seq(T) /\ c \in Seq(T) /\ d \in Seq(T) /\ e \in Seq(T)
      /\ f \in Seq(T) /\ g \in Seq(T)
  BY <1>1 DEF Spelt
<1>3. PICK ab : ab = a \o b
  OBVIOUS
<1>4. PICK ac : ac = ab \o c
  OBVIOUS
<1>5. PICK ad : ad = ac \o d
  OBVIOUS
<1>6. PICK ae : ae = ad \o e
  OBVIOUS
<1>7. PICK af : af = ae \o f
  OBVIOUS
<1>8. Then(T, ab, a, b)
  BY <1>2, <1>3 DEF Then
<1>9. Then(T, ac, ab, c)
  BY <1>2, <1>4, <1>8, ThenOn DEF Then
<1>10. Then(T, ad, ac, d)
  BY <1>2, <1>5, <1>9, ThenOn DEF Then
<1>11. Then(T, ae, ad, e)
  BY <1>2, <1>6, <1>10, ThenOn DEF Then
<1>12. Then(T, af, ae, f)
  BY <1>2, <1>7, <1>11, ThenOn DEF Then
<1>13. Fingerprint(p) = af \o g
  BY <1>1, <1>3, <1>4, <1>5, <1>6, <1>7, FedInOrder
<1>14. Then(T, Fingerprint(p), af, g)
  BY <1>2, <1>12, <1>13, ThenOn DEF Then
<1>15. PICK m : m = <<ab, ac, ad, ae, af>>
  OBVIOUS
<1>16. m[1] = ab /\ m[2] = ac /\ m[3] = ad /\ m[4] = ae /\ m[5] = af
  BY <1>15
<1>17. Fed(T, Fingerprint(p), a, b, c, d, e, f, g, m)
  BY <1>8, <1>9, <1>10, <1>11, <1>12, <1>14, <1>16 DEF Fed
<1>. QED  BY <1>1, <1>17 DEF FedAs

LEMMA HashLength ==
    ASSUME NEW T, NEW p, Spelt(p, T)
    PROVE  Len(Fingerprint(p)) = 5 + Len(HashedNotes(p)) + Len(HashedChecks(p))
              + Len(HashedChunks(p)) + Len(HashedWhys(p)) + Len(HashedLabor(p))
<1>1. PICK a, b, c, d, e, f, g, s :
         /\ a = Bar(p) /\ b = HashedNotes(p) /\ c = HashedChecks(p) /\ d = HashedChunks(p)
         /\ e = HashedWhys(p) /\ f = HashedLabor(p) /\ g = <<Yes(Dispatched(p))>>
         /\ s = Fingerprint(p)
  OBVIOUS
<1>2. PICK m : Fed(T, s, a, b, c, d, e, f, g, m)
  BY <1>1, ItIsFed DEF FedAs
<1>3. /\ Then(T, m[1], a, b) /\ Then(T, m[2], m[1], c) /\ Then(T, m[3], m[2], d)
      /\ Then(T, m[4], m[3], e) /\ Then(T, m[5], m[4], f) /\ Then(T, s, m[5], g)
  BY <1>2 DEF Fed
<1>4. /\ LongAsBoth(m[1], a, b) /\ LongAsBoth(m[2], m[1], c) /\ LongAsBoth(m[3], m[2], d)
      /\ LongAsBoth(m[4], m[3], e) /\ LongAsBoth(m[5], m[4], f) /\ LongAsBoth(s, m[5], g)
  BY <1>3, ThenAdds
<1>9. Len(a) = 4 /\ Len(g) = 1
  BY <1>1 DEF Spelt
<1>10. Len(s) = 5 + Len(b) + Len(c) + Len(d) + Len(e) + Len(f)
  BY <1>4, <1>9 DEF LongAsBoth
<1>. QED  BY <1>1, <1>10

(* Two pages that are hashed the same, part after part as long.            *)
LEMMA HashParts ==
    ASSUME NEW T, NEW p, NEW q, Spelt(p, T), Spelt(q, T), Fingerprint(p) = Fingerprint(q),
           Len(HashedNotes(p)) = Len(HashedNotes(q)),
           Len(HashedChecks(p)) = Len(HashedChecks(q)),
           Len(HashedChunks(p)) = Len(HashedChunks(q)),
           Len(HashedWhys(p)) = Len(HashedWhys(q)),
           Len(HashedLabor(p)) = Len(HashedLabor(q))
    PROVE  /\ HashedNotes(p) = HashedNotes(q) /\ HashedChecks(p) = HashedChecks(q)
           /\ Yes(Dispatched(p)) = Yes(Dispatched(q))
<1>1. PICK a, b, c, d, e, f, g, s :
         /\ a = Bar(p) /\ b = HashedNotes(p) /\ c = HashedChecks(p) /\ d = HashedChunks(p)
         /\ e = HashedWhys(p) /\ f = HashedLabor(p) /\ g = <<Yes(Dispatched(p))>>
         /\ s = Fingerprint(p)
  OBVIOUS
<1>2. PICK u, v, w, x, y, z, t :
         /\ u = Bar(q) /\ v = HashedNotes(q) /\ w = HashedChecks(q) /\ x = HashedChunks(q)
         /\ y = HashedWhys(q) /\ z = HashedLabor(q) /\ t = <<Yes(Dispatched(q))>>
  OBVIOUS
<1>3. Len(a) = Len(u) /\ Len(b) = Len(v) /\ Len(c) = Len(w) /\ Len(d) = Len(x)
      /\ Len(e) = Len(y) /\ Len(f) = Len(z)
  BY <1>1, <1>2 DEF Spelt
<1>4. PICK m : Fed(T, s, a, b, c, d, e, f, g, m)
  BY <1>1, ItIsFed DEF FedAs
<1>5. PICK n : Fed(T, s, u, v, w, x, y, z, t, n)
  BY <1>1, <1>2, ItIsFed DEF FedAs
<1>18. /\ Then(T, m[1], a, b) /\ Then(T, m[2], m[1], c) /\ Then(T, m[3], m[2], d)
       /\ Then(T, m[4], m[3], e) /\ Then(T, m[5], m[4], f) /\ Then(T, s, m[5], g)
  BY <1>4 DEF Fed
<1>19. /\ Then(T, n[1], u, v) /\ Then(T, n[2], n[1], w) /\ Then(T, n[3], n[2], x)
       /\ Then(T, n[4], n[3], y) /\ Then(T, n[5], n[4], z) /\ Then(T, s, n[5], t)
  BY <1>5 DEF Fed
<1>20. /\ LongAsBoth(m[1], a, b) /\ LongAsBoth(m[2], m[1], c) /\ LongAsBoth(m[3], m[2], d)
       /\ LongAsBoth(m[4], m[3], e) /\ LongAsBoth(m[5], m[4], f) /\ LongAsBoth(s, m[5], g)
  BY <1>18, ThenAdds
<1>21. /\ LongAsBoth(n[1], u, v) /\ LongAsBoth(n[2], n[1], w) /\ LongAsBoth(n[3], n[2], x)
       /\ LongAsBoth(n[4], n[3], y) /\ LongAsBoth(n[5], n[4], z) /\ LongAsBoth(s, n[5], t)
  BY <1>19, ThenAdds
<1>6. Len(m[1]) = Len(n[1])
  BY <1>3, <1>20, <1>21 DEF LongAsBoth
<1>7. Len(m[2]) = Len(n[2])
  BY <1>3, <1>6, <1>20, <1>21 DEF LongAsBoth
<1>8. Len(m[3]) = Len(n[3])
  BY <1>3, <1>7, <1>20, <1>21 DEF LongAsBoth
<1>9. Len(m[4]) = Len(n[4])
  BY <1>3, <1>8, <1>20, <1>21 DEF LongAsBoth
<1>10. Len(m[5]) = Len(n[5])
  BY <1>3, <1>9, <1>20, <1>21 DEF LongAsBoth
<1>11. m[5] = n[5] /\ g = t
  BY <1>4, <1>5, <1>10, ThenSplits DEF Fed
<1>12. m[4] = n[4]
  BY <1>4, <1>5, <1>9, <1>11, ThenSplits DEF Fed
<1>13. m[3] = n[3]
  BY <1>4, <1>5, <1>8, <1>12, ThenSplits DEF Fed
<1>14. m[2] = n[2]
  BY <1>4, <1>5, <1>7, <1>13, ThenSplits DEF Fed
<1>15. m[1] = n[1] /\ c = w
  BY <1>4, <1>5, <1>6, <1>14, ThenSplits DEF Fed
<1>16. b = v
  BY <1>3, <1>4, <1>5, <1>15, ThenSplits DEF Fed
<1>17. g[1] = t[1]
  BY <1>11
<1>. QED  BY <1>1, <1>2, <1>15, <1>16, <1>17

LEMMA HashStarts ==
    ASSUME NEW T, NEW p, Spelt(p, T)
    PROVE  Fingerprint(p)[1] = p.state /\ Fingerprint(p)[3] = HeadRev(p)
<1>1. PICK a, b, c, d, e, f, g, s :
         /\ a = Bar(p) /\ b = HashedNotes(p) /\ c = HashedChecks(p) /\ d = HashedChunks(p)
         /\ e = HashedWhys(p) /\ f = HashedLabor(p) /\ g = <<Yes(Dispatched(p))>>
         /\ s = Fingerprint(p)
  OBVIOUS
<1>2. PICK m : Fed(T, s, a, b, c, d, e, f, g, m)
  BY <1>1, ItIsFed DEF FedAs
<1>. DEFINE Same(r) == Len(r) \in Nat /\ Len(r) >= 4 /\ r[1] = p.state /\ r[3] = HeadRev(p)
<1>3. Same(a)
  BY <1>1 DEF Spelt, Bar
<1>4. ASSUME NEW r, NEW i, NEW j, Then(T, r, i, j), Same(i)  PROVE Same(r)
  <2>1. 1 \in 1..Len(i) /\ 3 \in 1..Len(i)
    BY <1>4
  <2>. QED  BY <1>4, <2>1, ThenOn
<1>. HIDE DEF Same
<1>5. Same(m[1])
  BY <1>2, <1>3, <1>4 DEF Fed
<1>6. Same(m[2])
  BY <1>2, <1>4, <1>5 DEF Fed
<1>7. Same(m[3])
  BY <1>2, <1>4, <1>6 DEF Fed
<1>8. Same(m[4])
  BY <1>2, <1>4, <1>7 DEF Fed
<1>9. Same(m[5])
  BY <1>2, <1>4, <1>8 DEF Fed
<1>10. Same(s)
  BY <1>2, <1>4, <1>9 DEF Fed
<1>. QED  BY <1>1, <1>10 DEF Same

(* What a page is drawn from.                                              *)
DrawnAlike(p, q) ==
    /\ q.state = p.state /\ q.target = p.target /\ q.revs = p.revs
    /\ q.comments = p.comments /\ q.chunks = p.chunks /\ q.work = p.work
    /\ Explained(q) = Explained(p)
    /\ Checks(q) = Checks(p)
    /\ \A i \in DOMAIN p.comments :
          /\ p.comments[i].id \in q.resolved <=> p.comments[i].id \in p.resolved
          /\ Answers(q, p.comments[i].id) = Answers(p, p.comments[i].id)
    /\ Dispatched(q) <=> Dispatched(p)

LEMMA SamePage ==
    ASSUME NEW p, NEW q, DrawnAlike(p, q)
    PROVE  Page(q) = Page(p)
<1>1. HeadRev(q) = HeadRev(p)
  BY DEF DrawnAlike, HeadRev
<1>2. PICK comments : comments = p.comments /\ comments = q.comments
  BY DEF DrawnAlike
<1>3. Threads(q) = Threads(p)
  <2>. DEFINE Thread(o, i) ==
                [id       |-> comments[i].id,
                 stale    |-> comments[i].rev # HeadRev(o),
                 resolved |-> comments[i].id \in o.resolved,
                 answers  |-> [j \in DOMAIN Answers(o, comments[i].id) |->
                                  Answers(o, comments[i].id)[j].id]]
  <2>1. ASSUME NEW i \in DOMAIN comments  PROVE Thread(q, i) = Thread(p, i)
    <3>1. Answers(q, comments[i].id) = Answers(p, comments[i].id)
      BY <1>2 DEF DrawnAlike
    <3>2. (comments[i].id \in q.resolved) = (comments[i].id \in p.resolved)
      BY <1>2 DEF DrawnAlike
    <3>. QED  BY <1>1, <3>1, <3>2
  <2>2. Threads(q) = [i \in DOMAIN comments |-> Thread(q, i)]
    BY <1>2 DEF Threads
  <2>3. Threads(p) = [i \in DOMAIN comments |-> Thread(p, i)]
    BY <1>2 DEF Threads
  <2>. HIDE DEF Thread
  <2>. QED  BY <2>1, <2>2, <2>3
<1>4. OpenComments(q) = OpenComments(p)
  <2>1. \A i \in DOMAIN comments : comments[i].id \in q.resolved <=> comments[i].id \in p.resolved
    BY <1>2 DEF DrawnAlike
  <2>2. \A r \in ToSet(comments) : r.id \in q.resolved <=> r.id \in p.resolved
    BY <2>1 DEF ToSet
  <2>3. Conversation(q) = Conversation(p)
    BY <1>2, <2>2 DEF Conversation
  <2>. QED  BY <1>1, <2>3 DEF OpenComments
<1>5. CheckRows(q) = CheckRows(p)
  <2>1. PICK c : c = Checks(p) /\ c = Checks(q)
    BY DEF DrawnAlike
  <2>. QED  BY <2>1 DEF CheckRows
<1>6. PICK w : w = p.work /\ w = q.work
  BY DEF DrawnAlike
<1>7. AgentChip(q) = AgentChip(p)
  <2>1. OnHead(q) = OnHead(p)
    BY <1>1, <1>6 DEF OnHead
  <2>2. Activity(q) = Activity(p)
    BY <1>6, <2>1 DEF Activity
  <2>. QED  BY <2>2 DEF AgentChip, DrawnAlike
<1>8. Stuck(q) = Stuck(p)
  <2>1. PICK c : c = Checks(p) /\ c = Checks(q)
    BY DEF DrawnAlike
  <2>. QED  BY <2>1 DEF Stuck, SelectInSeq
<1>9. Blocked(q) = Blocked(p)
  <2>1. PICK c : c = Checks(p) /\ c = Checks(q)
    BY DEF DrawnAlike
  <2>2. q.state = p.state
    BY DEF DrawnAlike
  <2>. QED  BY <1>4, <1>8, <2>1, <2>2 DEF Blocked
<1>10. Origins(q, 0) = Origins(p, 0)
  BY DEF DrawnAlike, Origins
<1>11. Timeline(q) = Timeline(p)
  BY <1>6 DEF Timeline
<1>. QED  BY <1>1, <1>3, <1>4, <1>5, <1>7, <1>9, <1>10, <1>11 DEF Page, DrawnAlike

LEMMA PairsLength ==
    ASSUME NEW T, NEW parts \in Seq(Seq(T)), \A i \in 1..Len(parts) : Len(parts[i]) = 2
    PROVE  Len(FlattenSeq(parts)) = 2 * Len(parts)
<1>1. PICK n \in Nat : n = Len(parts)
  OBVIOUS
<1>2. PICK f : Flattens(parts, T, f) /\ FlattenSeq(parts) = f[n]
  BY <1>1, FlatteningRuns
<1>3. /\ f[0] = <<>> /\ \A i \in 0..n : f[i] \in Seq(T)
      /\ \A i \in 1..n : f[i] = f[i - 1] \o parts[i] /\ parts[i] \in Seq(T)
  <2>1. \A i \in 1..n : parts[i] \in Seq(T)
    BY <1>1
  <2>. QED  BY <1>1, <1>2, <2>1 DEF Flattens
<1>. DEFINE Even == {i \in 0..n : Len(f[i]) = 2 * i}
<1>4. 0 \in Even
  BY <1>3
<1>5. ASSUME NEW i \in 1..n, i - 1 \in Even  PROVE i \in Even
  <2>1. PICK a : a = f[i - 1]
    OBVIOUS
  <2>2. PICK b : b = parts[i]
    OBVIOUS
  <2>3. a \in Seq(T) /\ b \in Seq(T) /\ f[i] = a \o b
    <3>1. i - 1 \in 0..n
      OBVIOUS
    <3>. QED  BY <1>3, <2>1, <2>2, <3>1
  <2>4. Len(a) = 2 * (i - 1) /\ Len(b) = 2
    BY <1>1, <1>5, <2>1, <2>2
  <2>5. Len(f[i]) = Len(a) + Len(b)
    BY <2>3, LengthsAdd
  <2>. QED  BY <2>4, <2>5
<1>. HIDE DEF Even
<1>6. n \in Even
  <2>1. n \in 0..n
    OBVIOUS
  <2>. QED  BY <1>4, <1>5, <2>1, StepByStep
<1>. QED  BY <1>1, <1>2, <1>6 DEF Even

(* A finite set, written out.                                              *)
LEMMA WrittenOut ==
    ASSUME NEW S, IsFiniteSet(S)
    PROVE  SetToSeq(S) \in Seq(S) /\ ToSet(SetToSeq(S)) = S
<1>1. PICK n \in Nat : n = Cardinality(S)
  BY FS_CardinalityType
<1>2. PICK f : f \in Bijection(1..n, S)
  BY <1>1, FS_CountingElements, FS_CardinalityType DEF ExistsBijection
<1>3. f \in [1..n -> S] /\ IsInjective(f)
  BY <1>2 DEF Bijection, Injection, IsInjective
<1>4. PICK g : g = SetToSeq(S)
  OBVIOUS
<1>5. g \in [1..n -> S] /\ IsInjective(g)
  BY <1>1, <1>3, <1>4 DEF SetToSeq
<1>6. g \in Injection(1..n, S)
  BY <1>5 DEF Injection, IsInjective
<1>7. g \in Surjection(1..n, S)
  <2>1. IsFiniteSet(1..n) /\ Cardinality(1..n) = n
    BY FS_Interval
  <2>. QED  BY <1>1, <1>6, <2>1, FS_Injection
<1>8. ToSet(g) = S
  BY <1>5, <1>7 DEF Surjection, ToSet
<1>9. g \in Seq(S)
  BY <1>5
<1>. QED  BY <1>4, <1>8, <1>9

(* The letters a hash of lines is written in.                              *)
Letters(T, L) ==
    /\ "true" \in T /\ "false" \in T
    /\ \A x \in L : /\ x.id \in T /\ x.name \in T /\ x.rev \in T /\ x.phase \in T
                    /\ ToString(x.at) \in T

LEMMA NamesAre ==
    ASSUME NEW L, NEW T, Letters(T, L), NEW lines \in Seq(L),
           NEW ids, ids = [i \in DOMAIN lines |-> lines[i].id]
    PROVE  ids \in Seq(T) /\ Len(ids) = Len(lines)
<1>1. PICK n \in Nat : n = Len(lines) /\ DOMAIN lines = 1..n
  OBVIOUS
<1>2. \A i \in 1..n : lines[i] \in L /\ lines[i].id \in T
  BY <1>1 DEF Letters
<1>3. ids \in [1..n -> T]
  BY <1>1, <1>2
<1>. QED  BY <1>1, <1>3

LEMMA AnswersAre ==
    ASSUME NEW L, NEW p, p.answers \in Seq(L), NEW n
    PROVE  /\ Answers(p, n) = Picked(p.answers, Among(p.answers, {x \in L : x.target = n}))
           /\ Answers(p, n) \in Seq(L)
<1>1. PICK lines \in Seq(L) : lines = p.answers
  OBVIOUS
<1>2. {i \in DOMAIN lines : lines[i].target = n} = Among(lines, {x \in L : x.target = n})
  BY DEF Among
<1>3. Answers(p, n) = Picked(lines, Among(lines, {x \in L : x.target = n}))
  BY <1>1, <1>2 DEF Answers
<1>. QED  BY <1>1, <1>3, PickedIs

LEMMA ExplainedAre ==
    ASSUME NEW L, NEW p, p.rationale \in Seq(L)
    PROVE  /\ Explained(p) = Picked(p.rationale, Among(p.rationale, {x \in L : x.rev = HeadRev(p)}))
           /\ Explained(p) \in Seq(L)
<1>0. PICK h : h = HeadRev(p)
  OBVIOUS
<1>1. PICK lines \in Seq(L) : lines = p.rationale
  OBVIOUS
<1>2. {i \in DOMAIN lines : lines[i].rev = h} = Among(lines, {x \in L : x.rev = h})
  BY DEF Among
<1>3. Explained(p) = Picked(lines, Among(lines, {x \in L : x.rev = h}))
  BY <1>0, <1>1, <1>2 DEF Explained
<1>. QED  BY <1>0, <1>1, <1>3, PickedIs

(* What each note, each line of work and each verdict feeds it.            *)
NoteFeed(p, L)   == [x \in L |-> HashedNote(p, x)]
LaborFeed(L)     == [x \in L |-> HashedWork(x)]
VerdictFeed(L)  == [x \in L |-> HashedCheck(x)]

LEMMA ANoteIsHashed ==
    ASSUME NEW L, NEW T, Letters(T, L), NEW p, p.answers \in Seq(L), NEW x \in L
    PROVE  /\ HashedNote(p, x) \in Seq(T)
           /\ Len(HashedNote(p, x)) = 2 + Len(Answers(p, x.id))
           /\ Len(Answers(p, x.id)) \in Nat
           /\ HashedNote(p, x)[2] = Yes(x.id \in p.resolved)
<1>1. PICK lines : lines = Answers(p, x.id)
  OBVIOUS
<1>2. lines \in Seq(L)
  BY <1>1, AnswersAre
<1>3. PICK ids : ids = [i \in DOMAIN lines |-> lines[i].id]
  OBVIOUS
<1>4. ids \in Seq(T) /\ Len(ids) = Len(lines)
  BY <1>2, <1>3, NamesAre
<1>5. PICK a : a = <<x.id, Yes(x.id \in p.resolved)>>
  OBVIOUS
<1>6. a \in Seq(T) /\ Len(a) = 2 /\ a[2] = Yes(x.id \in p.resolved)
  <2>1. x.id \in T /\ Yes(x.id \in p.resolved) \in T
    BY DEF Letters, Yes
  <2>. QED  BY <1>5, <2>1
<1>7. HashedNote(p, x) = a \o ids
  BY <1>1, <1>3, <1>5 DEF HashedNote
<1>8. Then(T, HashedNote(p, x), a, ids)
  BY <1>4, <1>6, <1>7 DEF Then
<1>9. HashedNote(p, x) \in Seq(T)
  BY <1>8, ThenOn
<1>10. Len(HashedNote(p, x)) = 2 + Len(ids) /\ Len(ids) \in Nat
  <2>1. LongAsBoth(HashedNote(p, x), a, ids)
    BY <1>8, ThenAdds
  <2>. QED  BY <1>6, <2>1 DEF LongAsBoth
<1>11. HashedNote(p, x)[2] = a[2]
  <2>1. 2 \in 1..Len(a)
    BY <1>6
  <2>. QED  BY <1>8, <2>1, ThenOn
<1>. QED  BY <1>1, <1>4, <1>6, <1>9, <1>10, <1>11

LEMMA NotesAreHashed ==
    ASSUME NEW L, NEW T, Letters(T, L), NEW p, p.answers \in Seq(L), p.comments \in Seq(L)
    PROVE  /\ NoteFeed(p, L) \in [L -> Seq(T)]
           /\ HashedNotes(p) = FlattenSeq(Parts(p.comments, NoteFeed(p, L)))
           /\ HashedNotes(p) \in Seq(T)
<1>1. NoteFeed(p, L) \in [L -> Seq(T)]
  BY ANoteIsHashed DEF NoteFeed
<1>2. PICK lines \in Seq(L) : lines = p.comments
  OBVIOUS
<1>3. \A i \in DOMAIN lines : lines[i] \in L
  OBVIOUS
<1>4. [i \in DOMAIN lines |-> HashedNote(p, lines[i])] = Parts(lines, NoteFeed(p, L))
  BY <1>3 DEF Parts, NoteFeed
<1>5. HashedNotes(p) = FlattenSeq(Parts(lines, NoteFeed(p, L)))
  BY <1>2, <1>4 DEF HashedNotes
<1>6. AreParts(Parts(lines, NoteFeed(p, L)), lines, NoteFeed(p, L), T)
  BY <1>1, PartsAre
<1>7. FlattenSeq(Parts(lines, NoteFeed(p, L))) \in Seq(T)
  BY <1>6, FlatteningRuns DEF AreParts
<1>. QED  BY <1>1, <1>2, <1>5, <1>7

LEMMA LaborIsHashed ==
    ASSUME NEW L, NEW T, Letters(T, L), NEW p, p.work \in Seq(L)
    PROVE  /\ LaborFeed(L) \in [L -> Seq(T)] /\ \A x \in L : Len(LaborFeed(L)[x]) = 3
           /\ HashedLabor(p) = FlattenSeq(Parts(p.work, LaborFeed(L)))
           /\ HashedLabor(p) \in Seq(T)
<1>1. ASSUME NEW x \in L  PROVE HashedWork(x) \in Seq(T) /\ Len(HashedWork(x)) = 3
  <2>1. x.rev \in T /\ x.phase \in T /\ ToString(x.at) \in T
    BY DEF Letters
  <2>. QED  BY <2>1 DEF HashedWork
<1>2. LaborFeed(L) \in [L -> Seq(T)] /\ \A x \in L : Len(LaborFeed(L)[x]) = 3
  BY <1>1 DEF LaborFeed
<1>3. PICK lines \in Seq(L) : lines = p.work
  OBVIOUS
<1>4. \A i \in DOMAIN lines : lines[i] \in L
  OBVIOUS
<1>5. [i \in DOMAIN lines |-> HashedWork(lines[i])] = Parts(lines, LaborFeed(L))
  BY <1>4 DEF Parts, LaborFeed
<1>6. HashedLabor(p) = FlattenSeq(Parts(lines, LaborFeed(L)))
  BY <1>3, <1>5 DEF HashedLabor
<1>7. AreParts(Parts(lines, LaborFeed(L)), lines, LaborFeed(L), T)
  BY <1>2, PartsAre
<1>8. FlattenSeq(Parts(lines, LaborFeed(L))) \in Seq(T)
  BY <1>7, FlatteningRuns DEF AreParts
<1>. QED  BY <1>2, <1>3, <1>6, <1>8

LEMMA ChecksAreHashed ==
    ASSUME NEW L, NEW T, Letters(T, L), NEW p, p.checks \in SUBSET L, IsFiniteSet(Checks(p))
    PROVE  /\ VerdictFeed(L) \in [L -> Seq(T)] /\ \A x \in L : Len(VerdictFeed(L)[x]) = 2
           /\ SetToSeq(Checks(p)) \in Seq(L) /\ ToSet(SetToSeq(Checks(p))) = Checks(p)
           /\ HashedChecks(p) = FlattenSeq(Parts(SetToSeq(Checks(p)), VerdictFeed(L)))
           /\ HashedChecks(p) \in Seq(T)
<1>1. ASSUME NEW x \in L  PROVE HashedCheck(x) \in Seq(T) /\ Len(HashedCheck(x)) = 2
  <2>1. x.name \in T /\ Yes(x.passed) \in T
    BY DEF Letters, Yes
  <2>. QED  BY <2>1 DEF HashedCheck
<1>2. VerdictFeed(L) \in [L -> Seq(T)] /\ \A x \in L : Len(VerdictFeed(L)[x]) = 2
  BY <1>1 DEF VerdictFeed
<1>3. PICK lines : lines = SetToSeq(Checks(p))
  OBVIOUS
<1>4. lines \in Seq(L) /\ ToSet(lines) = Checks(p)
  <2>1. Checks(p) \subseteq L
    BY DEF Checks
  <2>2. lines \in Seq(Checks(p)) /\ ToSet(lines) = Checks(p)
    BY <1>3, WrittenOut
  <2>. QED  BY <2>1, <2>2
<1>5. \A i \in DOMAIN lines : lines[i] \in L
  BY <1>4
<1>6. [i \in DOMAIN lines |-> HashedCheck(lines[i])] = Parts(lines, VerdictFeed(L))
  BY <1>5 DEF Parts, VerdictFeed
<1>7. HashedChecks(p) = FlattenSeq(Parts(lines, VerdictFeed(L)))
  BY <1>3, <1>6 DEF HashedChecks
<1>8. AreParts(Parts(lines, VerdictFeed(L)), lines, VerdictFeed(L), T)
  BY <1>2, <1>4, PartsAre
<1>9. FlattenSeq(Parts(lines, VerdictFeed(L))) \in Seq(T)
  BY <1>8, FlatteningRuns DEF AreParts
<1>. QED  BY <1>2, <1>3, <1>4, <1>7, <1>9

LEMMA ItIsSpelt ==
    ASSUME NEW L, NEW T, Letters(T, L), NEW p, Made(p, L), IsFiniteSet(Checks(p)),
           \A i \in 1..4 : Bar(p)[i] \in T
    PROVE  Spelt(p, T)
<1>1. Bar(p) \in Seq(T) /\ Len(Bar(p)) = 4
  <2>1. PICK a, b, c, d : a = p.state /\ b = ToString(Len(p.revs)) /\ c = HeadRev(p) /\ d = p.target
    OBVIOUS
  <2>2. Bar(p) = <<a, b, c, d>>
    BY <2>1 DEF Bar
  <2>3. a \in T /\ b \in T /\ c \in T /\ d \in T
    BY <2>2
  <2>. QED  BY <2>2, <2>3
<1>2. HashedNotes(p) \in Seq(T)
  BY NotesAreHashed DEF Made
<1>3. HashedChecks(p) \in Seq(T)
  BY ChecksAreHashed DEF Made
<1>4. HashedChunks(p) \in Seq(T)
  BY NamesAre DEF Made, HashedChunks
<1>5. HashedWhys(p) \in Seq(T)
  <2>1. Explained(p) \in Seq(L)
    BY ExplainedAre DEF Made
  <2>. QED  BY <2>1, NamesAre DEF HashedWhys
<1>6. HashedLabor(p) \in Seq(T)
  BY LaborIsHashed DEF Made
<1>7. Yes(Dispatched(p)) \in T
  BY DEF Yes, Letters
<1>. QED  BY <1>1, <1>2, <1>3, <1>4, <1>5, <1>6, <1>7 DEF Spelt

(* What a line of one kind leaves as it was.                               *)
LEMMA Elsewhere ==
    ASSUME NEW p, NEW q, NEW r, HasAlso(p, q, r)
    PROVE  /\ HeadRev(q) = HeadRev(p)
           /\ r.kind # "comment" => q.comments = p.comments
           /\ r.kind # "reply" => \A n : Answers(q, n) = Answers(p, n)
           /\ r.kind # "rationale" => Explained(q) = Explained(p)
           /\ r.kind # "chunk" => q.chunks = p.chunks
           /\ r.kind # "work" => q.work = p.work
           /\ r.kind # "check" => Checks(q) = Checks(p)
           /\ r.kind \notin {"work", "dispatch"} => (Dispatched(q) <=> Dispatched(p))
<1>1. HeadRev(q) = HeadRev(p)
  BY DEF HasAlso, HeadRev
<1>2. r.kind # "comment" => q.comments = p.comments
  BY DEF HasAlso, Grown
<1>3. ASSUME r.kind # "reply", NEW n  PROVE Answers(q, n) = Answers(p, n)
  <2>1. q.answers = p.answers
    BY <1>3 DEF HasAlso, Grown
  <2>. QED  BY <2>1 DEF Answers
<1>4. r.kind # "rationale" => Explained(q) = Explained(p)
  <2>1. r.kind # "rationale" => q.rationale = p.rationale
    BY DEF HasAlso, Grown
  <2>. QED  BY <1>1, <2>1 DEF Explained
<1>5. r.kind # "chunk" => q.chunks = p.chunks
  BY DEF HasAlso, Grown
<1>6. r.kind # "work" => q.work = p.work
  BY DEF HasAlso, Grown
<1>7. r.kind # "check" => Checks(q) = Checks(p)
  <2>1. r.kind # "check" => q.checks = p.checks
    BY DEF HasAlso
  <2>. QED  BY <1>1, <2>1 DEF Checks
<1>8. ASSUME r.kind \notin {"work", "dispatch"}  PROVE Dispatched(q) <=> Dispatched(p)
  <2>1. PICK w, a : w = p.work /\ w = q.work /\ a = p.asks /\ a = q.asks
    BY <1>6, <1>8 DEF HasAlso
  <2>2. OnHead(q) = OnHead(p)
    BY <1>1, <2>1 DEF OnHead
  <2>. QED  BY <1>1, <2>1, <2>2 DEF Dispatched
<1>. QED  BY <1>1, <1>2, <1>3, <1>4, <1>5, <1>6, <1>7, <1>8

(* The parts of a hash that a line leaves as they were.                    *)
LEMMA FedElsewhere ==
    ASSUME NEW p, NEW q, NEW r, HasAlso(p, q, r)
    PROVE  /\ r.kind \notin {"comment", "reply", "resolve"} => HashedNotes(q) = HashedNotes(p)
           /\ r.kind # "check" => HashedChecks(q) = HashedChecks(p)
           /\ r.kind # "chunk" => HashedChunks(q) = HashedChunks(p)
           /\ r.kind # "rationale" => HashedWhys(q) = HashedWhys(p)
           /\ r.kind # "work" => HashedLabor(q) = HashedLabor(p)
<1>1. ASSUME r.kind \notin {"comment", "reply", "resolve"}
      PROVE  HashedNotes(q) = HashedNotes(p)
  <2>1. PICK c : c = p.comments /\ c = q.comments
    BY <1>1, Elsewhere
  <2>2. q.resolved = p.resolved
    BY <1>1 DEF HasAlso
  <2>3. \A n : Answers(q, n) = Answers(p, n)
    BY <1>1, Elsewhere
  <2>4. \A x : HashedNote(q, x) = HashedNote(p, x)
    BY <2>2, <2>3 DEF HashedNote
  <2>. QED  BY <2>1, <2>4 DEF HashedNotes
<1>2. ASSUME r.kind # "check"  PROVE HashedChecks(q) = HashedChecks(p)
  <2>1. Checks(q) = Checks(p)
    BY <1>2, Elsewhere
  <2>. QED  BY <2>1 DEF HashedChecks
<1>3. r.kind # "chunk" => HashedChunks(q) = HashedChunks(p)
  BY Elsewhere DEF HashedChunks
<1>4. r.kind # "rationale" => HashedWhys(q) = HashedWhys(p)
  BY Elsewhere DEF HashedWhys
<1>5. r.kind # "work" => HashedLabor(q) = HashedLabor(p)
  BY Elsewhere DEF HashedLabor
<1>. QED  BY <1>1, <1>2, <1>3, <1>4, <1>5

(* A proposal with a line more, both of them spelt in the letters of T and *)
(* hashed the same.                                                        *)
HashedAlike(p, q, r, L, T) ==
    /\ Made(p, L) /\ Made(q, L) /\ r \in L /\ HasAlso(p, q, r)
    /\ Letters(T, L) /\ Spelt(p, T) /\ Spelt(q, T)
    /\ Fingerprint(q) = Fingerprint(p)

LEMMA AsMuch ==
    ASSUME NEW p, NEW q, NEW r, NEW L, NEW T, HashedAlike(p, q, r, L, T)
    PROVE  /\ Len(HashedNotes(p)) + Len(HashedChecks(p)) + Len(HashedChunks(p))
                 + Len(HashedWhys(p)) + Len(HashedLabor(p))
              = Len(HashedNotes(q)) + Len(HashedChecks(q)) + Len(HashedChunks(q))
                 + Len(HashedWhys(q)) + Len(HashedLabor(q))
           /\ Len(HashedNotes(p)) \in Nat /\ Len(HashedNotes(q)) \in Nat
           /\ Len(HashedChecks(p)) \in Nat /\ Len(HashedChecks(q)) \in Nat
           /\ Len(HashedChunks(p)) \in Nat /\ Len(HashedChunks(q)) \in Nat
           /\ Len(HashedWhys(p)) \in Nat /\ Len(HashedWhys(q)) \in Nat
           /\ Len(HashedLabor(p)) \in Nat /\ Len(HashedLabor(q)) \in Nat
<1>1. ASSUME NEW o, Spelt(o, T)
      PROVE  /\ Len(HashedNotes(o)) \in Nat /\ Len(HashedChecks(o)) \in Nat
             /\ Len(HashedChunks(o)) \in Nat /\ Len(HashedWhys(o)) \in Nat
             /\ Len(HashedLabor(o)) \in Nat
  BY <1>1 DEF Spelt
<1>2. Spelt(p, T) /\ Spelt(q, T) /\ Fingerprint(q) = Fingerprint(p)
  BY DEF HashedAlike
<1>3. Len(Fingerprint(p)) = 5 + Len(HashedNotes(p)) + Len(HashedChecks(p))
         + Len(HashedChunks(p)) + Len(HashedWhys(p)) + Len(HashedLabor(p))
  BY <1>2, HashLength
<1>4. Len(Fingerprint(q)) = 5 + Len(HashedNotes(q)) + Len(HashedChecks(q))
         + Len(HashedChunks(q)) + Len(HashedWhys(q)) + Len(HashedLabor(q))
  BY <1>2, HashLength
<1>. QED  BY <1>1, <1>2, <1>3, <1>4

(* What is left when nothing that is drawn was added to.                   *)
LEMMA NothingDrawn ==
    ASSUME NEW p, NEW q, NEW r, HasAlso(p, q, r),
           r.kind = "comment" => q.comments = p.comments,
           r.kind = "reply" => \A i \in DOMAIN p.comments :
              Answers(q, p.comments[i].id) = Answers(p, p.comments[i].id),
           r.kind = "rationale" => Explained(q) = Explained(p),
           r.kind = "chunk" => q.chunks = p.chunks,
           r.kind = "work" => q.work = p.work,
           r.kind = "check" => Checks(q) = Checks(p),
           r.kind = "dispatch" => (Dispatched(q) <=> Dispatched(p)),
           r.kind = "resolve" => \A i \in DOMAIN p.comments :
              p.comments[i].id \in q.resolved <=> p.comments[i].id \in p.resolved
    PROVE  DrawnAlike(p, q)
<1>1. /\ q.state = p.state /\ q.target = p.target /\ q.revs = p.revs
      /\ r.kind # "resolve" => q.resolved = p.resolved
      /\ r.kind # "dispatch" => q.asks = p.asks
  BY DEF HasAlso
<1>2. /\ q.comments = p.comments /\ q.chunks = p.chunks /\ q.work = p.work
      /\ Explained(q) = Explained(p) /\ Checks(q) = Checks(p)
  BY Elsewhere
<1>3. \A i \in DOMAIN p.comments : Answers(q, p.comments[i].id) = Answers(p, p.comments[i].id)
  BY Elsewhere
<1>4. Dispatched(q) <=> Dispatched(p)
  <2>1. CASE r.kind = "dispatch"
    BY <2>1
  <2>2. CASE r.kind # "dispatch"
    <3>1. HeadRev(q) = HeadRev(p)
      BY Elsewhere
    <3>2. PICK w, a : w = p.work /\ w = q.work /\ a = p.asks /\ a = q.asks
      BY <1>1, <1>2, <2>2
    <3>3. OnHead(q) = OnHead(p)
      BY <3>1, <3>2 DEF OnHead
    <3>. QED  BY <3>1, <3>2, <3>3 DEF Dispatched
  <2>. QED  BY <2>1, <2>2
<1>. QED  BY <1>1, <1>2, <1>3, <1>4 DEF DrawnAlike

(* A comment more makes the notes longer.                                  *)
LEMMA ACommentMore ==
    ASSUME NEW p, NEW q, NEW r, NEW L, NEW T, HashedAlike(p, q, r, L, T), r.kind = "comment"
    PROVE  q.comments = p.comments
<1>1. /\ p.comments \in Seq(L) /\ p.answers \in Seq(L) /\ q.comments \in Seq(L)
      /\ q.answers \in Seq(L) /\ r \in L /\ HasAlso(p, q, r) /\ Letters(T, L)
  BY DEF HashedAlike, Made
<1>2. q.comments = p.comments \/ Inserted(p.comments, q.comments, r)
  BY <1>1 DEF HasAlso, Grown
<1>3. SUFFICES ASSUME Inserted(p.comments, q.comments, r)  PROVE FALSE
  BY <1>2
<1>4. \A x : HashedNote(q, x) = HashedNote(p, x)
  <2>1. q.resolved = p.resolved /\ \A n : Answers(q, n) = Answers(p, n)
    BY <1>1, Elsewhere DEF HasAlso
  <2>. QED  BY <2>1 DEF HashedNote
<1>5. PICK F \in [L -> Seq(T)] : F = NoteFeed(p, L) /\ F = NoteFeed(q, L)
  <2>1. NoteFeed(q, L) = NoteFeed(p, L)
    BY <1>4 DEF NoteFeed
  <2>. QED  BY <1>1, <2>1, NotesAreHashed
<1>6. /\ HashedNotes(p) = FlattenSeq(Parts(p.comments, F))
      /\ HashedNotes(q) = FlattenSeq(Parts(q.comments, F))
  BY <1>1, <1>5, NotesAreHashed
<1>7. PICK x \in Seq(T) : x = F[r]
  BY <1>1
<1>8. PICK a \in Seq(T) : EndAlike(T, HashedNotes(p), HashedNotes(q), a, a \o x)
  <2>1. \E a \in Seq(T) : EndAlike(T, FlattenSeq(Parts(p.comments, F)),
                                   FlattenSeq(Parts(q.comments, F)), a, a \o F[r])
    BY <1>1, <1>3, ALineOfParts
  <2>. QED  BY <1>6, <1>7, <2>1
<1>9. Len(HashedNotes(q)) = Len(HashedNotes(p)) + Len(x)
  BY <1>8, Longer
<1>10. Len(x) \in Nat /\ Len(x) >= 2
  <2>1. x = HashedNote(p, r)
    BY <1>1, <1>5, <1>7 DEF NoteFeed
  <2>2. Len(HashedNote(p, r)) = 2 + Len(Answers(p, r.id)) /\ Len(Answers(p, r.id)) \in Nat
    BY <1>1, ANoteIsHashed
  <2>. QED  BY <2>1, <2>2
<1>11. /\ HashedChecks(q) = HashedChecks(p) /\ HashedChunks(q) = HashedChunks(p)
       /\ HashedWhys(q) = HashedWhys(p) /\ HashedLabor(q) = HashedLabor(p)
  BY <1>1, FedElsewhere
<1>. QED  BY <1>9, <1>10, <1>11, AsMuch

(* So does an answer to a note that is there.                              *)
LEMMA AnAnswerMore ==
    ASSUME NEW p, NEW q, NEW r, NEW L, NEW T, HashedAlike(p, q, r, L, T), r.kind = "reply",
           NEW i \in DOMAIN p.comments
    PROVE  Answers(q, p.comments[i].id) = Answers(p, p.comments[i].id)
<1>1. /\ p.comments \in Seq(L) /\ p.answers \in Seq(L) /\ q.answers \in Seq(L)
      /\ r \in L /\ HasAlso(p, q, r) /\ Letters(T, L)
  BY DEF HashedAlike, Made
<1>2. q.answers = p.answers \/ Inserted(p.answers, q.answers, r)
  BY <1>1 DEF HasAlso, Grown
<1>3. CASE q.answers = p.answers
  BY <1>3 DEF Answers
<1>4. CASE Inserted(p.answers, q.answers, r)
  <2>1. ASSUME NEW n
        PROVE  /\ Len(Answers(p, n)) \in Nat /\ Len(Answers(q, n)) \in Nat
               /\ r.target = n => Len(Answers(q, n)) = Len(Answers(p, n)) + 1
               /\ r.target # n => Answers(q, n) = Answers(p, n)
    <3>1. PICK A : A = {x \in L : x.target = n}
      OBVIOUS
    <3>2. PICK one : one = Picked(p.answers, Among(p.answers, A))
      OBVIOUS
    <3>3. PICK other : other = Picked(q.answers, Among(q.answers, A))
      OBVIOUS
    <3>4. one = Answers(p, n) /\ other = Answers(q, n)
      BY <1>1, <3>1, <3>2, <3>3, AnswersAre
    <3>5. /\ Len(one) \in Nat /\ Len(other) \in Nat
          /\ r \in A => Len(other) = Len(one) + 1
          /\ r \notin A => other = one
      BY <1>1, <1>4, <3>2, <3>3, PickedGrows
    <3>. QED  BY <1>1, <3>1, <3>4, <3>5
  <2>2. SUFFICES ASSUME r.target = p.comments[i].id  PROVE FALSE
    BY <2>1
  <2>3. PICK F \in [L -> Seq(T)], G \in [L -> Seq(T)] : F = NoteFeed(p, L) /\ G = NoteFeed(q, L)
    <3>1. NoteFeed(p, L) \in [L -> Seq(T)]
      BY <1>1, NotesAreHashed
    <3>2. q.comments \in Seq(L)
      BY DEF HashedAlike, Made
    <3>3. NoteFeed(q, L) \in [L -> Seq(T)]
      BY <1>1, <3>2, NotesAreHashed
    <3>. QED  BY <3>1, <3>3
  <2>4. PICK lines \in Seq(L) : lines = p.comments /\ lines = q.comments
    BY <1>1, Elsewhere
  <2>5. HashedNotes(p) = FlattenSeq(Parts(lines, F)) /\ HashedNotes(q) = FlattenSeq(Parts(lines, G))
    BY <1>1, <2>3, <2>4, NotesAreHashed
  <2>6. PICK ps, qs : ps = Parts(lines, F) /\ qs = Parts(lines, G)
    OBVIOUS
  <2>7. AreParts(ps, lines, F, T) /\ AreParts(qs, lines, G, T)
    <3>1. AreParts(Parts(lines, F), lines, F, T)
      BY PartsAre
    <3>2. AreParts(Parts(lines, G), lines, G, T)
      BY PartsAre
    <3>. QED  BY <2>6, <3>1, <3>2
  <2>8. PICK n \in Nat : n = Len(lines) /\ DOMAIN lines = 1..n /\ i \in 1..n
    <3>1. i \in DOMAIN lines
      BY <2>4
    <3>2. Len(lines) \in Nat /\ DOMAIN lines = 1..Len(lines)
      OBVIOUS
    <3>. QED  BY <3>1, <3>2
  <2>9. ASSUME NEW j \in 1..n
        PROVE  /\ Len(qs[j]) >= Len(ps[j])
               /\ j = i => Len(qs[j]) > Len(ps[j])
    <3>1. PICK x \in L : x = lines[j]
      BY <2>8
    <3>2. ps[j] = HashedNote(p, x) /\ qs[j] = HashedNote(q, x)
      BY <2>3, <2>7, <2>8, <3>1 DEF AreParts, NoteFeed
    <3>3. Len(ps[j]) = 2 + Len(Answers(p, x.id))
      BY <1>1, <3>2, ANoteIsHashed
    <3>4. Len(qs[j]) = 2 + Len(Answers(q, x.id))
      BY <1>1, <3>2, ANoteIsHashed
    <3>5. /\ Len(Answers(p, x.id)) \in Nat /\ Len(Answers(q, x.id)) \in Nat
          /\ Len(Answers(q, x.id)) >= Len(Answers(p, x.id))
          /\ r.target = x.id => Len(Answers(q, x.id)) > Len(Answers(p, x.id))
      BY <2>1
    <3>6. j = i => r.target = x.id
      BY <2>2, <2>4, <3>1
    <3>. QED  BY <3>3, <3>4, <3>5, <3>6
  <2>10. Len(FlattenSeq(qs)) > Len(FlattenSeq(ps))
    <3>1. ps \in Seq(Seq(T)) /\ qs \in Seq(Seq(T)) /\ Len(ps) = n /\ Len(qs) = n
      BY <2>7, <2>8 DEF AreParts
    <3>. QED  BY <2>8, <2>9, <3>1, ALongerPart
  <2>11. Len(HashedNotes(q)) > Len(HashedNotes(p))
    BY <2>5, <2>6, <2>10
  <2>12. /\ HashedChecks(q) = HashedChecks(p) /\ HashedChunks(q) = HashedChunks(p)
         /\ HashedWhys(q) = HashedWhys(p) /\ HashedLabor(q) = HashedLabor(p)
    BY <1>1, FedElsewhere
  <2>. QED  BY <2>11, <2>12, AsMuch
<1>. QED  BY <1>2, <1>3, <1>4

(* A resolution shows at the notes it resolves.                            *)
LEMMA AResolutionMore ==
    ASSUME NEW p, NEW q, NEW r, NEW L, NEW T, HashedAlike(p, q, r, L, T), r.kind = "resolve",
           NEW i \in DOMAIN p.comments
    PROVE  p.comments[i].id \in q.resolved <=> p.comments[i].id \in p.resolved
<1>1. /\ p.comments \in Seq(L) /\ p.answers \in Seq(L) /\ q.answers \in Seq(L)
      /\ q.comments \in Seq(L)
      /\ r \in L /\ HasAlso(p, q, r) /\ Letters(T, L)
  BY DEF HashedAlike, Made
<1>2. PICK F \in [L -> Seq(T)], G \in [L -> Seq(T)] : F = NoteFeed(p, L) /\ G = NoteFeed(q, L)
  <2>1. NoteFeed(p, L) \in [L -> Seq(T)]
    BY <1>1, NotesAreHashed
  <2>2. NoteFeed(q, L) \in [L -> Seq(T)]
    BY <1>1, NotesAreHashed
  <2>. QED  BY <2>1, <2>2
<1>3. PICK lines \in Seq(L) : lines = p.comments /\ lines = q.comments
  BY <1>1, Elsewhere
<1>4. HashedNotes(p) = FlattenSeq(Parts(lines, F)) /\ HashedNotes(q) = FlattenSeq(Parts(lines, G))
  BY <1>1, <1>2, <1>3, NotesAreHashed
<1>5. PICK ps, qs : ps = Parts(lines, F) /\ qs = Parts(lines, G)
  OBVIOUS
<1>6. AreParts(ps, lines, F, T) /\ AreParts(qs, lines, G, T)
  <2>1. AreParts(Parts(lines, F), lines, F, T)
    BY PartsAre
  <2>2. AreParts(Parts(lines, G), lines, G, T)
    BY PartsAre
  <2>. QED  BY <1>5, <2>1, <2>2
<1>7. PICK n \in Nat : n = Len(lines) /\ DOMAIN lines = 1..n /\ i \in 1..n
  <2>1. i \in DOMAIN lines
    BY <1>3
  <2>2. Len(lines) \in Nat /\ DOMAIN lines = 1..Len(lines)
    OBVIOUS
  <2>. QED  BY <2>1, <2>2
<1>8. ASSUME NEW j \in 1..n
      PROVE  /\ Len(qs[j]) = Len(ps[j])
             /\ ps[j][2] = Yes(lines[j].id \in p.resolved)
             /\ qs[j][2] = Yes(lines[j].id \in q.resolved)
  <2>1. PICK x \in L : x = lines[j]
    BY <1>7
  <2>2. ps[j] = HashedNote(p, x) /\ qs[j] = HashedNote(q, x)
    BY <1>2, <1>6, <1>7, <2>1 DEF AreParts, NoteFeed
  <2>3. Len(ps[j]) = 2 + Len(Answers(p, x.id)) /\ ps[j][2] = Yes(x.id \in p.resolved)
    BY <1>1, <2>2, ANoteIsHashed
  <2>4. Len(qs[j]) = 2 + Len(Answers(q, x.id)) /\ qs[j][2] = Yes(x.id \in q.resolved)
    BY <1>1, <2>2, ANoteIsHashed
  <2>5. Answers(q, x.id) = Answers(p, x.id)
    <3>1. r.kind # "reply"
      OBVIOUS
    <3>2. \A m : Answers(q, m) = Answers(p, m)
      BY <1>1, <3>1, Elsewhere
    <3>. QED  BY <3>2
  <2>. QED  BY <2>1, <2>3, <2>4, <2>5
<1>9. HashedNotes(p) = HashedNotes(q)
  <2>1. /\ HashedChecks(q) = HashedChecks(p) /\ HashedChunks(q) = HashedChunks(p)
        /\ HashedWhys(q) = HashedWhys(p) /\ HashedLabor(q) = HashedLabor(p)
    BY <1>1, FedElsewhere
  <2>2. Len(HashedNotes(q)) = Len(HashedNotes(p))
    BY <2>1, AsMuch
  <2>3. Spelt(p, T) /\ Spelt(q, T) /\ Fingerprint(p) = Fingerprint(q)
    BY DEF HashedAlike
  <2>. QED  BY <2>1, <2>2, <2>3, HashParts
<1>10. ps[i] = qs[i]
  <2>1. ps \in Seq(Seq(T)) /\ qs \in Seq(Seq(T)) /\ Len(ps) = n /\ Len(qs) = n
    BY <1>6, <1>7 DEF AreParts
  <2>2. FlattenSeq(qs) = FlattenSeq(ps)
    BY <1>4, <1>5, <1>9
  <2>3. \A j \in 1..Len(ps) : qs[j] = ps[j]
    <3>1. Len(qs) = Len(ps) /\ \A j \in 1..Len(ps) : Len(qs[j]) = Len(ps[j])
      BY <1>8, <2>1
    <3>2. ps \in Seq(Seq(T)) /\ qs \in Seq(Seq(T))
      BY <2>1
    <3>3. Len(qs) = Len(ps)
      BY <2>1
    <3>4. \A j \in 1..Len(ps) : Len(qs[j]) = Len(ps[j])
      BY <3>1
    <3>. QED  BY <2>2, <3>2, <3>3, <3>4, SameParts
  <2>. QED  BY <1>7, <2>1, <2>3
<1>11. Yes(lines[i].id \in p.resolved) = Yes(lines[i].id \in q.resolved)
  BY <1>7, <1>8, <1>10
<1>. QED  BY <1>3, <1>11 DEF Yes

(* A chunk more, a rationale on the head more and a line of work more make *)
(* the hash longer.                                                        *)
LEMMA AChunkMore ==
    ASSUME NEW p, NEW q, NEW r, NEW L, NEW T, HashedAlike(p, q, r, L, T), r.kind = "chunk"
    PROVE  q.chunks = p.chunks
<1>1. p.chunks \in Seq(L) /\ q.chunks \in Seq(L) /\ HasAlso(p, q, r) /\ Letters(T, L)
  BY DEF HashedAlike, Made
<1>2. q.chunks = p.chunks \/ Inserted(p.chunks, q.chunks, r)
  BY <1>1 DEF HasAlso, Grown
<1>3. SUFFICES ASSUME Inserted(p.chunks, q.chunks, r)  PROVE FALSE
  BY <1>2
<1>4. Len(q.chunks) = Len(p.chunks) + 1 /\ Len(p.chunks) \in Nat
  BY <1>1, <1>3 DEF Inserted, InsertedAt
<1>5. Len(HashedChunks(p)) = Len(p.chunks)
  BY <1>1, NamesAre DEF HashedChunks
<1>6. Len(HashedChunks(q)) = Len(q.chunks)
  BY <1>1, NamesAre DEF HashedChunks
<1>7. r.kind \notin {"comment", "reply", "resolve"} /\ r.kind # "check"
      /\ r.kind # "rationale" /\ r.kind # "work"
  OBVIOUS
<1>8. /\ HashedNotes(q) = HashedNotes(p) /\ HashedChecks(q) = HashedChecks(p)
      /\ HashedWhys(q) = HashedWhys(p) /\ HashedLabor(q) = HashedLabor(p)
  BY <1>1, <1>7, FedElsewhere
<1>. QED  BY <1>4, <1>5, <1>6, <1>8, AsMuch

LEMMA ARationaleMore ==
    ASSUME NEW p, NEW q, NEW r, NEW L, NEW T, HashedAlike(p, q, r, L, T), r.kind = "rationale"
    PROVE  Explained(q) = Explained(p)
<1>1. /\ p.rationale \in Seq(L) /\ q.rationale \in Seq(L) /\ HasAlso(p, q, r)
      /\ r \in L /\ Letters(T, L) /\ HeadRev(q) = HeadRev(p)
  BY Elsewhere DEF HashedAlike, Made
<1>2. q.rationale = p.rationale \/ Inserted(p.rationale, q.rationale, r)
  BY <1>1 DEF HasAlso, Grown
<1>3. CASE q.rationale = p.rationale
  BY <1>1, <1>3 DEF Explained
<1>4. CASE Inserted(p.rationale, q.rationale, r)
  <2>1. PICK A : A = {x \in L : x.rev = HeadRev(p)}
    OBVIOUS
  <2>2. PICK one : one = Picked(p.rationale, Among(p.rationale, A))
    OBVIOUS
  <2>3. PICK other : other = Picked(q.rationale, Among(q.rationale, A))
    OBVIOUS
  <2>4. one = Explained(p) /\ other = Explained(q)
    <3>1. one = Explained(p)
      BY <1>1, <2>1, <2>2, ExplainedAre
    <3>2. A = {x \in L : x.rev = HeadRev(q)}
      BY <1>1, <2>1
    <3>3. other = Explained(q)
      BY <1>1, <2>3, <3>2, ExplainedAre
    <3>. QED  BY <3>1, <3>3
  <2>5. /\ Len(one) \in Nat /\ Len(other) \in Nat
        /\ r \in A => Len(other) = Len(one) + 1
        /\ r \notin A => other = one
    BY <1>1, <1>4, <2>2, <2>3, PickedGrows
  <2>6. SUFFICES ASSUME r \in A  PROVE FALSE
    BY <2>4, <2>5
  <2>7. one \in Seq(L) /\ other \in Seq(L)
    BY <1>1, <2>4, ExplainedAre
  <2>8. Len(HashedWhys(p)) = Len(one)
    BY <1>1, <2>4, <2>7, NamesAre DEF HashedWhys
  <2>9. Len(HashedWhys(q)) = Len(other)
    BY <1>1, <2>4, <2>7, NamesAre DEF HashedWhys
  <2>10. r.kind \notin {"comment", "reply", "resolve"} /\ r.kind # "check"
         /\ r.kind # "chunk" /\ r.kind # "work"
    OBVIOUS
  <2>11. /\ HashedNotes(q) = HashedNotes(p) /\ HashedChecks(q) = HashedChecks(p)
         /\ HashedChunks(q) = HashedChunks(p) /\ HashedLabor(q) = HashedLabor(p)
    BY <1>1, <2>10, FedElsewhere
  <2>. QED  BY <2>5, <2>6, <2>8, <2>9, <2>11, AsMuch
<1>. QED  BY <1>2, <1>3, <1>4

LEMMA AWorkLineMore ==
    ASSUME NEW p, NEW q, NEW r, NEW L, NEW T, HashedAlike(p, q, r, L, T), r.kind = "work"
    PROVE  q.work = p.work
<1>1. p.work \in Seq(L) /\ q.work \in Seq(L) /\ r \in L /\ HasAlso(p, q, r) /\ Letters(T, L)
  BY DEF HashedAlike, Made
<1>2. q.work = p.work \/ Inserted(p.work, q.work, r)
  BY <1>1 DEF HasAlso, Grown
<1>3. SUFFICES ASSUME Inserted(p.work, q.work, r)  PROVE FALSE
  BY <1>2
<1>4. PICK F \in [L -> Seq(T)] : F = LaborFeed(L) /\ \A x \in L : Len(F[x]) = 3
  BY <1>1, LaborIsHashed
<1>5. /\ HashedLabor(p) = FlattenSeq(Parts(p.work, F))
      /\ HashedLabor(q) = FlattenSeq(Parts(q.work, F))
  BY <1>1, <1>4, LaborIsHashed
<1>6. PICK x \in Seq(T) : x = F[r]
  BY <1>1
<1>7. PICK a \in Seq(T) : EndAlike(T, HashedLabor(p), HashedLabor(q), a, a \o x)
  <2>1. \E a \in Seq(T) : EndAlike(T, FlattenSeq(Parts(p.work, F)),
                                   FlattenSeq(Parts(q.work, F)), a, a \o F[r])
    BY <1>1, <1>3, ALineOfParts
  <2>. QED  BY <1>5, <1>6, <2>1
<1>8. Len(HashedLabor(q)) = Len(HashedLabor(p)) + Len(x)
  BY <1>7, Longer
<1>9. Len(x) = 3
  BY <1>1, <1>4, <1>6
<1>10. r.kind \notin {"comment", "reply", "resolve"} /\ r.kind # "check"
       /\ r.kind # "chunk" /\ r.kind # "rationale"
  OBVIOUS
<1>11. /\ HashedNotes(q) = HashedNotes(p) /\ HashedChecks(q) = HashedChecks(p)
       /\ HashedChunks(q) = HashedChunks(p) /\ HashedWhys(q) = HashedWhys(p)
  BY <1>1, <1>10, FedElsewhere
<1>. QED  BY <1>8, <1>9, <1>11, AsMuch

(* Verdicts on one commit, which are no more than their name and whether   *)
(* they passed.                                                            *)
AreVerdicts(p, h) ==
    /\ IsFiniteSet(Checks(p))
    /\ \A v \in Checks(p) : v = Verdict(v.name, v.passed, h) /\ v.passed \in BOOLEAN

LEMMA AVerdictMore ==
    ASSUME NEW p, NEW q, NEW r, NEW L, NEW T, HashedAlike(p, q, r, L, T), r.kind = "check",
           NEW h, AreVerdicts(p, h), AreVerdicts(q, h)
    PROVE  Checks(q) = Checks(p)
<1>1. /\ p.checks \in SUBSET L /\ q.checks \in SUBSET L /\ HasAlso(p, q, r) /\ Letters(T, L)
      /\ IsFiniteSet(Checks(p)) /\ IsFiniteSet(Checks(q))
  BY DEF HashedAlike, Made, AreVerdicts
<1>2. PICK F \in [L -> Seq(T)] : F = VerdictFeed(L) /\ \A x \in L : Len(F[x]) = 2
  BY <1>1, ChecksAreHashed
<1>3. PICK s : s = SetToSeq(Checks(p))
  OBVIOUS
<1>4. PICK t : t = SetToSeq(Checks(q))
  OBVIOUS
<1>5. s \in Seq(L) /\ ToSet(s) = Checks(p) /\ HashedChecks(p) = FlattenSeq(Parts(s, F))
  BY <1>1, <1>2, <1>3, ChecksAreHashed
<1>6. t \in Seq(L) /\ ToSet(t) = Checks(q) /\ HashedChecks(q) = FlattenSeq(Parts(t, F))
  BY <1>1, <1>2, <1>4, ChecksAreHashed
<1>7. PICK ps, qs : ps = Parts(s, F) /\ qs = Parts(t, F)
  OBVIOUS
<1>8. AreParts(ps, s, F, T) /\ AreParts(qs, t, F, T)
  <2>1. AreParts(Parts(s, F), s, F, T)
    BY <1>5, PartsAre
  <2>2. AreParts(Parts(t, F), t, F, T)
    BY <1>6, PartsAre
  <2>. QED  BY <1>7, <2>1, <2>2
<1>9. HashedChecks(p) = HashedChecks(q)
  <2>1. r.kind \notin {"comment", "reply", "resolve"} /\ r.kind # "rationale"
        /\ r.kind # "chunk" /\ r.kind # "work"
    OBVIOUS
  <2>2. /\ HashedNotes(q) = HashedNotes(p) /\ HashedChunks(q) = HashedChunks(p)
        /\ HashedWhys(q) = HashedWhys(p) /\ HashedLabor(q) = HashedLabor(p)
    BY <1>1, <2>1, FedElsewhere
  <2>3. Len(HashedChecks(q)) = Len(HashedChecks(p))
    BY <2>2, AsMuch
  <2>4. Spelt(p, T) /\ Spelt(q, T) /\ Fingerprint(p) = Fingerprint(q)
    BY DEF HashedAlike
  <2>. QED  BY <2>2, <2>3, <2>4, HashParts
<1>10. PICK n \in Nat, m \in Nat : n = Len(s) /\ m = Len(t) /\ DOMAIN s = 1..n /\ DOMAIN t = 1..m
  BY <1>5, <1>6
<1>11. /\ ps \in Seq(Seq(T)) /\ Len(ps) = n
       /\ \A i \in 1..n : ps[i] = F[s[i]] /\ s[i] \in L /\ Len(ps[i]) = 2
  <2>1. ps \in Seq(Seq(T)) /\ Len(ps) = n /\ \A i \in 1..n : ps[i] = F[s[i]]
    BY <1>8, <1>10 DEF AreParts
  <2>2. \A i \in 1..n : s[i] \in L
    BY <1>5, <1>10
  <2>. QED  BY <1>2, <2>1, <2>2
<1>12. /\ qs \in Seq(Seq(T)) /\ Len(qs) = m
       /\ \A i \in 1..m : qs[i] = F[t[i]] /\ t[i] \in L /\ Len(qs[i]) = 2
  <2>1. qs \in Seq(Seq(T)) /\ Len(qs) = m /\ \A i \in 1..m : qs[i] = F[t[i]]
    BY <1>8, <1>10 DEF AreParts
  <2>2. \A i \in 1..m : t[i] \in L
    BY <1>6, <1>10
  <2>. QED  BY <1>2, <2>1, <2>2
<1>13. FlattenSeq(qs) = FlattenSeq(ps)
  BY <1>5, <1>6, <1>7, <1>9
<1>14. n = m
  <2>1. \A i \in 1..Len(ps) : Len(ps[i]) = 2
    BY <1>11
  <2>2. \A i \in 1..Len(qs) : Len(qs[i]) = 2
    BY <1>12
  <2>3. ps \in Seq(Seq(T)) /\ qs \in Seq(Seq(T))
    BY <1>11, <1>12
  <2>4. Len(FlattenSeq(ps)) = 2 * Len(ps)
    BY <2>1, <2>3, PairsLength
  <2>5. Len(FlattenSeq(qs)) = 2 * Len(qs)
    BY <2>2, <2>3, PairsLength
  <2>6. Len(ps) = n /\ Len(qs) = m
    BY <1>11, <1>12
  <2>. QED  BY <1>13, <2>4, <2>5, <2>6
<1>15. \A i \in 1..n : qs[i] = ps[i]
  <2>1. ps \in Seq(Seq(T)) /\ qs \in Seq(Seq(T))
    BY <1>11, <1>12
  <2>2. Len(qs) = Len(ps)
    BY <1>11, <1>12, <1>14
  <2>3. \A i \in 1..Len(ps) : Len(qs[i]) = Len(ps[i])
    BY <1>11, <1>12, <1>14
  <2>4. \A i \in 1..Len(ps) : qs[i] = ps[i]
    BY <1>13, <2>1, <2>2, <2>3, SameParts
  <2>. QED  BY <1>11, <2>4
<1>16. ASSUME NEW i \in 1..n  PROVE s[i] = t[i]
  <2>1. HashedCheck(s[i]) = HashedCheck(t[i])
    <3>1. F[s[i]] = F[t[i]] /\ s[i] \in L /\ t[i] \in L
      BY <1>11, <1>12, <1>14, <1>15
    <3>. QED  BY <1>2, <3>1 DEF VerdictFeed
  <2>2. s[i].name = t[i].name /\ Yes(s[i].passed) = Yes(t[i].passed)
    BY <2>1 DEF HashedCheck
  <2>3. s[i] \in Checks(p) /\ t[i] \in Checks(q)
    BY <1>5, <1>6, <1>10, <1>14 DEF ToSet
  <2>4. /\ s[i] = Verdict(s[i].name, s[i].passed, h) /\ s[i].passed \in BOOLEAN
        /\ t[i] = Verdict(t[i].name, t[i].passed, h) /\ t[i].passed \in BOOLEAN
    BY <2>3 DEF AreVerdicts
  <2>5. s[i].passed = t[i].passed
    BY <2>2, <2>4 DEF Yes
  <2>. QED  BY <2>2, <2>4, <2>5
<1>17. ToSet(s) = ToSet(t)
  BY <1>10, <1>14, <1>16 DEF ToSet
<1>. QED  BY <1>5, <1>6, <1>17

(* An ask is hashed as what it adds up to.                                 *)
LEMMA AnAskMore ==
    ASSUME NEW p, NEW q, NEW r, NEW L, NEW T, HashedAlike(p, q, r, L, T), r.kind = "dispatch"
    PROVE  Dispatched(q) <=> Dispatched(p)
<1>1. /\ HasAlso(p, q, r) /\ Spelt(p, T) /\ Spelt(q, T) /\ Fingerprint(p) = Fingerprint(q)
  BY DEF HashedAlike
<1>2. /\ HashedNotes(q) = HashedNotes(p) /\ HashedChecks(q) = HashedChecks(p)
      /\ HashedChunks(q) = HashedChunks(p)
      /\ HashedWhys(q) = HashedWhys(p) /\ HashedLabor(q) = HashedLabor(p)
  <2>1. r.kind \notin {"comment", "reply", "resolve"} /\ r.kind # "rationale"
        /\ r.kind # "chunk" /\ r.kind # "work" /\ r.kind # "check"
    OBVIOUS
  <2>. QED  BY <1>1, <2>1, FedElsewhere
<1>3. Yes(Dispatched(p)) = Yes(Dispatched(q))
  BY <1>1, <1>2, HashParts
<1>. QED  BY <1>3 DEF Yes

(* So a page that is hashed the same is drawn the same, whatever line it   *)
(* has more.                                                               *)
LEMMA ALineIsTold ==
    ASSUME NEW p, NEW q, NEW r, NEW L, NEW T, HashedAlike(p, q, r, L, T),
           NEW h, AreVerdicts(p, h), AreVerdicts(q, h)
    PROVE  Page(q) = Page(p)
<1>1. HasAlso(p, q, r)
  BY DEF HashedAlike
<1>2. r.kind = "comment" => q.comments = p.comments
  BY ACommentMore
<1>3. r.kind = "reply" => \A i \in DOMAIN p.comments :
         Answers(q, p.comments[i].id) = Answers(p, p.comments[i].id)
  BY AnAnswerMore
<1>4. r.kind = "rationale" => Explained(q) = Explained(p)
  BY ARationaleMore
<1>5. r.kind = "chunk" => q.chunks = p.chunks
  BY AChunkMore
<1>6. r.kind = "work" => q.work = p.work
  BY AWorkLineMore
<1>7. r.kind = "check" => Checks(q) = Checks(p)
  BY AVerdictMore
<1>8. r.kind = "dispatch" => (Dispatched(q) <=> Dispatched(p))
  BY AnAskMore
<1>9. r.kind = "resolve" => \A i \in DOMAIN p.comments :
         p.comments[i].id \in q.resolved <=> p.comments[i].id \in p.resolved
  BY AResolutionMore
<1>10. DrawnAlike(p, q)
  BY <1>1, <1>2, <1>3, <1>4, <1>5, <1>6, <1>7, <1>8, <1>9, NothingDrawn
<1>. QED  BY <1>10, SamePage

(* Two pages are spelt in one alphabet, that has the marks of both.        *)
LEMMA SomeLetters ==
    ASSUME NEW L, NEW p, NEW q
    PROVE  \E T : Letters(T, L) /\ \A i \in 1..4 : Bar(p)[i] \in T /\ Bar(q)[i] \in T
<1>1. PICK T : T = {x.id : x \in L} \cup {x.name : x \in L} \cup {x.rev : x \in L}
                     \cup {x.phase : x \in L} \cup {ToString(x.at) : x \in L}
                     \cup {"true", "false"}
                     \cup {Bar(p)[i] : i \in 1..4} \cup {Bar(q)[i] : i \in 1..4}
  OBVIOUS
<1>2. ASSUME NEW x \in L
      PROVE  /\ x.id \in T /\ x.name \in T /\ x.rev \in T /\ x.phase \in T
             /\ ToString(x.at) \in T
  BY <1>1
<1>3. "true" \in T /\ "false" \in T
  BY <1>1
<1>4. \A i \in 1..4 : Bar(p)[i] \in T /\ Bar(q)[i] \in T
  BY <1>1
<1>. QED  BY <1>2, <1>3, <1>4 DEF Letters

(* A log has finitely many lines.                                          *)
LEMMA FiniteNotes ==
    ASSUME NEW logs, NEW n \in Nat, \A j \in 1..n : \E L : logs[j] \in Seq(L)
    PROVE  IsFiniteSet(UpToNote(logs, n))
<1>1. ASSUME NEW j \in 1..n  PROVE IsFiniteSet(ToSet(logs[j]))
  <2>1. PICK L : logs[j] \in Seq(L)
    OBVIOUS
  <2>2. PICK s \in Seq(L) : s = logs[j]
    BY <2>1
  <2>3. s \in Surjection(1..Len(s), ToSet(s))
    BY DEF Surjection, ToSet
  <2>4. IsFiniteSet(1..Len(s))
    BY FS_Interval
  <2>. QED  BY <2>2, <2>3, <2>4, FS_Surjection
<1>2. PICK S : S = {ToSet(logs[j]) : j \in 1..n}
  OBVIOUS
<1>3. PICK f : f = [j \in 1..n |-> ToSet(logs[j])]
  OBVIOUS
<1>4. f \in Surjection(1..n, S)
  BY <1>2, <1>3 DEF Surjection
<1>5. IsFiniteSet(S)
  <2>1. IsFiniteSet(1..n)
    BY FS_Interval
  <2>. QED  BY <1>4, <2>1, FS_Surjection
<1>6. IsFiniteSet(UNION S)
  BY <1>1, <1>2, <1>5, FS_UNION
<1>. QED  BY <1>2, <1>6 DEF UpToNote

(* What a proposal is, that was read from any log of these lines.          *)
LEMMA ItIsMade ==
    ASSUME NEW rs \in Seq(Commits), rs # <<>>, NEW E, NEW ev, ev[rs[1]] \in Seq(E),
           NEW n, \A i \in DOMAIN rs : n[rs[i]] \in Seq(AllLines),
           NEW p, p = Rebuild(rs, ev, n), p.ok
    PROVE  /\ p.revs = rs /\ Made(p, AllLines)
           /\ AreVerdicts(p, HeadRev(p))
<1>1. AreLines(AllLines)
  BY LinesAre DEF AreLines, AllLines
<1>2. PICK logs : logs = NotesOf(rs, n)
  OBVIOUS
<1>3. ReadsAs(p, rs, ev[rs[1]], logs, AllLines)
  BY <1>1, <1>2, WhatALogSays
<1>4. PICK o : o = Revised(rs, ev[rs[1]])
  OBVIOUS
<1>5. /\ Made(p, AllLines) /\ logs \in Seq(Seq(AllLines))
  BY <1>1, <1>2, <1>4, Rebuilding
<1>6. p.checks \subseteq {x \in UpToNote(logs, Len(logs)) : x.kind = "check"}
  BY <1>3 DEF ReadsAs, Says
<1>7. IsFiniteSet(p.checks)
  <2>1. \A j \in 1..Len(logs) : logs[j] \in Seq(AllLines)
    BY <1>5
  <2>2. Len(logs) \in Nat
    BY <1>5
  <2>3. IsFiniteSet(UpToNote(logs, Len(logs)))
    BY <2>1, <2>2, FiniteNotes
  <2>4. p.checks \in SUBSET UpToNote(logs, Len(logs))
    BY <1>6
  <2>. QED  BY <2>3, <2>4, FS_Subset
<1>8. IsFiniteSet(Checks(p))
  <2>1. Checks(p) \in SUBSET p.checks
    BY DEF Checks
  <2>. QED  BY <1>7, <2>1, FS_Subset
<1>9. ASSUME NEW v \in Checks(p)
      PROVE  v = Verdict(v.name, v.passed, HeadRev(p)) /\ v.passed \in BOOLEAN
  <2>1. v \in p.checks /\ v.rev = HeadRev(p)
    BY DEF Checks
  <2>2. v.kind = "check" /\ v \in AllLines
    BY <1>5, <1>6, <2>1 DEF Made
  <2>3. PICK c \in Commits : v \in LinesFor(c)
    BY <2>2 DEF AllLines
  <2>4. v = Verdict(v.name, v.passed, c) /\ v.passed \in BOOLEAN
    BY <2>2, <2>3, LinesAre
  <2>5. v.rev = c
    BY <2>2, <2>3, LinesAre DEF IsAboutCode
  <2>. QED  BY <2>1, <2>4, <2>5
<1>. QED  BY <1>3, <1>5, <1>8, <1>9 DEF ReadsAs, AreVerdicts

(* A line more, of those the log can have.                                 *)
LEMMA ALineLess ==
    ASSUME LogInv, NEW c \in Commits, notes[c] # <<>>,
           NEW less, less = [notes EXCEPT ![c] = Front(@)],
           NEW p, p = Rebuild(revs, events, less), p.ok,
           NEW q, q = Rebuild(revs, events, notes), q.ok,
           Fingerprint(p) = Fingerprint(q)
    PROVE  Page(p) = Page(q)
<1>1. /\ revs \in Seq(Commits) /\ revs # <<>> /\ revs[1] = First /\ NoneTwice(revs)
      /\ notes \in [Commits -> Seq(AllLines)]
      /\ \A d \in Commits : notes[d] \in Seq(LinesFor(d))
  BY DEF LogInv, Held
<1>2. PICK n \in Nat : n = Len(revs) /\ DOMAIN revs = 1..n /\ \A i \in 1..n : revs[i] \in Commits
  BY <1>1
<1>3. PICK s, r : s = Front(notes[c]) /\ r = Last(notes[c])
  OBVIOUS
<1>4. /\ s \in Seq(LinesFor(c)) /\ s \in Seq(AllLines) /\ r \in LinesFor(c) /\ r \in AllLines
      /\ notes[c] = Append(s, r)
  <2>1. PICK t \in Seq(LinesFor(c)) : t = notes[c]
    BY <1>1
  <2>2. PICK u \in Seq(AllLines) : u = notes[c]
    BY <1>1
  <2>3. s = SubSeq(t, 1, Len(t) - 1) /\ r = t[Len(t)] /\ t # <<>>
    BY <1>3, <2>1 DEF Front, Last
  <2>4. s = SubSeq(u, 1, Len(u) - 1) /\ r = u[Len(u)] /\ u # <<>>
    BY <1>3, <2>2 DEF Front, Last
  <2>5. s \in Seq(LinesFor(c)) /\ r \in LinesFor(c) /\ t = Append(s, r)
    BY <2>3
  <2>6. s \in Seq(AllLines) /\ r \in AllLines
    BY <2>4
  <2>. QED  BY <2>1, <2>5, <2>6
<1>5. less[c] = s /\ \A d \in Commits : d # c => less[d] = notes[d]
  BY <1>1, <1>3
<1>6. CASE c \notin ToSet(revs)
  <2>1. \A i \in DOMAIN revs : less[revs[i]] = notes[revs[i]]
    BY <1>2, <1>5, <1>6 DEF ToSet
  <2>2. NotesOf(revs, less) = NotesOf(revs, notes)
    BY <2>1 DEF NotesOf
  <2>3. p = q
    BY <2>2 DEF Rebuild
  <2>. QED  BY <2>3
<1>7. CASE c \in ToSet(revs)
  <2>1. PICK k \in DOMAIN revs : revs[k] = c
    BY <1>7 DEF ToSet
  <2>2. ASSUME NEW i \in DOMAIN revs, i # k  PROVE revs[i] # c /\ less[revs[i]] = notes[revs[i]]
    <3>1. revs[i] # revs[k]
      BY <1>1, <2>2 DEF NoneTwice
    <3>. QED  BY <1>2, <1>5, <2>1, <3>1
  <2>3. ASSUME NEW i \in DOMAIN revs  PROVE less[revs[i]] \in Seq(AllLines)
    BY <1>1, <1>2, <1>4, <1>5
  <2>4. ASSUME NEW i \in DOMAIN revs, i > k, NEW x \in ToSet(less[revs[i]])  PROVE Distinct(x, r)
    <3>1. SUFFICES ASSUME x.kind = r.kind, r.kind \in OnceKinds  PROVE x.id # r.id
      BY DEF Distinct
    <3>2. PICK d \in Commits : d = revs[i] /\ d # c /\ x \in ToSet(notes[d])
      <4>1. i # k
        BY <1>2, <2>4
      <4>. QED  BY <1>2, <2>2, <2>4, <4>1
    <3>3. x \in LinesFor(d)
      BY <1>1, <3>2 DEF ToSet
    <3>4. Home[x.id] = d /\ Home[r.id] = c
      BY <1>4, <3>1, <3>3, LinesAre
    <3>. QED  BY <3>2, <3>4
  <2>5. AreLines(AllLines)
    BY LinesAre DEF AreLines, AllLines
  <2>6. notes[revs[k]] = Append(less[revs[k]], r)
    BY <1>4, <1>5, <2>1
  <2>7. \A i \in DOMAIN revs : i # k => notes[revs[i]] = less[revs[i]]
    BY <2>2
  <2>8. HasAlso(p, q, r)
    <3>1. \A i \in DOMAIN revs : less[revs[i]] \in Seq(AllLines)
      BY <2>3
    <3>2. \A i \in DOMAIN revs : i > k => \A x \in ToSet(less[revs[i]]) : Distinct(x, r)
      BY <2>4
    <3>3. PICK ev : ev = events
      OBVIOUS
    <3>4. PICK more : more = notes
      OBVIOUS
    <3>5. PICK rs : rs = revs
      OBVIOUS
    <3>6. /\ rs \in Seq(Commits) /\ rs # <<>> /\ k \in DOMAIN rs
          /\ more[rs[k]] = Append(less[rs[k]], r)
          /\ \A i \in DOMAIN rs : i # k => more[rs[i]] = less[rs[i]]
          /\ \A i \in DOMAIN rs : less[rs[i]] \in Seq(AllLines)
          /\ \A i \in DOMAIN rs : i > k => \A x \in ToSet(less[rs[i]]) : Distinct(x, r)
          /\ p = Rebuild(rs, ev, less) /\ q = Rebuild(rs, ev, more)
      BY <1>1, <2>6, <2>7, <3>1, <3>2, <3>3, <3>4, <3>5
    <3>. QED  BY <1>4, <2>5, <3>6, OneLineMore
  <2>9. PICK told, E : told = events[revs[1]] /\ told \in Seq(E)
    <3>1. events[First] = <<Opened("main", 0)>> \o endings
      BY LogFoldAssumption DEF events
    <3>2. PICK a, b : a = Opened("main", 0) /\ b = endings
      OBVIOUS
    <3>3. PICK F : F = {a} \cup {Landed(0), Abandoned(0)}
      OBVIOUS
    <3>4. b \in Seq(F) /\ <<a>> \in Seq(F)
      BY <3>2, <3>3 DEF LogInv
    <3>5. events[revs[1]] \in Seq(F)
      BY <1>1, <3>1, <3>2, <3>4
    <3>. QED  BY <3>5
  <2>10. Made(p, AllLines) /\ AreVerdicts(p, HeadRev(p))
    BY <1>1, <2>3, <2>9, ItIsMade
  <2>11. \A i \in DOMAIN revs : notes[revs[i]] \in Seq(AllLines)
    BY <1>1, <1>2
  <2>12. Made(q, AllLines) /\ AreVerdicts(q, HeadRev(q))
    BY <1>1, <2>9, <2>11, ItIsMade
  <2>13. PICK T : Letters(T, AllLines) /\ \A i \in 1..4 : Bar(p)[i] \in T /\ Bar(q)[i] \in T
    BY SomeLetters
  <2>14. Spelt(p, T) /\ Spelt(q, T)
    BY <2>10, <2>12, <2>13, ItIsSpelt DEF AreVerdicts
  <2>15. HashedAlike(p, q, r, AllLines, T)
    BY <1>4, <2>8, <2>10, <2>12, <2>13, <2>14 DEF HashedAlike
  <2>16. HeadRev(q) = HeadRev(p)
    BY <2>8, Elsewhere
  <2>17. PICK h : h = HeadRev(p)
    OBVIOUS
  <2>18. AreVerdicts(p, h) /\ AreVerdicts(q, h)
    BY <2>10, <2>12, <2>16, <2>17
  <2>. QED  BY <2>15, <2>18, ALineIsTold
<1>. QED  BY <1>6, <1>7

(* What the log told of a proposal, with or without its last ending.       *)
LogEvents == {Opened("main", 0), Landed(0), Abandoned(0)}

LEMMA TheEvents ==
    ASSUME LogInv
    PROVE  /\ events[First] \in Seq(LogEvents) /\ Len(events[First]) = 1 + Len(endings)
           /\ events[First][1] = Opened("main", 0)
           /\ \A i \in 2..Len(events[First]) : IsEnding(events[First][i])
           /\ First \in DOMAIN events
<1>1. First \in Commits
  BY LogFoldAssumption
<1>2. PICK told : told = events[First]
  OBVIOUS
<1>3. PICK a, b : a = Opened("main", 0) /\ b = endings
  OBVIOUS
<1>4. told = <<a>> \o b
  BY <1>1, <1>2, <1>3 DEF events
<1>5. PICK E : E = {Landed(0), Abandoned(0)}
  OBVIOUS
<1>6. b \in Seq(E) /\ a \in LogEvents /\ E \subseteq LogEvents
  BY <1>3, <1>5 DEF LogInv, LogEvents
<1>7. \A e \in E : IsEnding(e)
  BY <1>5 DEF IsEnding, Landed, Abandoned
<1>8. /\ told \in Seq(LogEvents) /\ Len(told) = 1 + Len(b) /\ told[1] = a
      /\ \A i \in 2..Len(told) : told[i] = b[i - 1]
  BY <1>4, <1>6
<1>9. \A i \in 2..Len(told) : IsEnding(told[i])
  <2>1. SUFFICES ASSUME NEW i \in 2..Len(told)  PROVE IsEnding(told[i])
    OBVIOUS
  <2>2. i - 1 \in 1..Len(b)
    BY <1>6, <1>8
  <2>3. b[i - 1] \in E
    BY <1>6, <2>2
  <2>. QED  BY <1>7, <1>8, <2>3
<1>10. First \in DOMAIN events
  BY <1>1 DEF events
<1>. QED  BY <1>2, <1>3, <1>8, <1>9, <1>10

(* A log that is an opening and endings says once where the proposal goes. *)
LEMMA NothingMoves ==
    ASSUME NEW E, NEW told \in Seq(E), told # <<>>, told[1] = Opened("main", 0),
           \A i \in 2..Len(told) : IsEnding(told[i]), NEW rs
    PROVE  Revised(rs, told) = FoldLeft(AddRevision, Open("main", rs[1]), Tail(rs))
<1>1. PICK n \in Nat : n = Len(told) /\ DOMAIN told = 1..n /\ n >= 1
  OBVIOUS
<1>2. told[1].kind = "opened" /\ told[1].target = "main"
  BY DEF Opened
<1>3. \A i \in 1..n : i # 1 => told[i].kind \in {"landed", "abandoned"}
  BY <1>1 DEF IsEnding
<1>4. SelectInSeq(told, IsOpening) = 1
  <2>1. PICK m : m = SelectInSeq(told, IsOpening)
    OBVIOUS
  <2>2. /\ m = 0 <=> ~\E i \in DOMAIN told : told[i].kind = "opened"
        /\ m # 0 => m \in DOMAIN told /\ told[m].kind = "opened"
    BY <2>1, FirstOpening
  <2>3. m # 0
    BY <1>1, <1>2, <2>2
  <2>4. m = 1
    BY <1>1, <1>3, <2>2, <2>3
  <2>. QED  BY <2>1, <2>4
<1>5. Moves(told) = {}
  BY <1>1, <1>2, <1>3 DEF Moves, IsMove
<1>6. Target(told[1].target, told) = "main"
  BY <1>2, <1>5 DEF Target
<1>. QED  BY <1>4, <1>6 DEF Revised

(* p was read from these revisions, events and notes.                     *)
ReadFrom(p, rs, ev, n) ==
    /\ rs \in Seq(Commits) /\ rs # <<>> /\ ev[rs[1]] \in Seq(LogEvents)
    /\ \A i \in DOMAIN rs : n[rs[i]] \in Seq(AllLines)
    /\ p = Rebuild(rs, ev, n) /\ p.ok

(* What reading makes of the notes, before it looks how the log ends.      *)
Unended(rs, ev, n) == FoldLeft(Fold, Revised(rs, ev[rs[1]]), NotesOf(rs, n))

LEMMA WhatIsRead ==
    ASSUME NEW p, NEW rs, NEW ev, NEW n, ReadFrom(p, rs, ev, n)
    PROVE  p.revs = rs /\ Made(p, AllLines) /\ AreVerdicts(p, HeadRev(p))
  BY ItIsMade DEF ReadFrom

LEMMA ItEndsAs ==
    ASSUME NEW rs, NEW n, NEW ev, NEW p, ReadFrom(p, rs, ev, n)
    PROVE  /\ p = End(Unended(rs, ev, n), ev[rs[1]])
           /\ \E v, b : Unended(rs, ev, n) \in Builder(v, b, AllLines)
<1>. PICK o : o = Revised(rs, ev[rs[1]])
  OBVIOUS
<1>1. AreLines(AllLines)
  BY LinesAre DEF AreLines, AllLines
<1>2. PICK logs : logs = NotesOf(rs, n)
  OBVIOUS
<1>3. rs \in Seq(Commits) /\ rs # <<>> /\ \A i \in DOMAIN rs : n[rs[i]] \in Seq(AllLines)
  BY DEF ReadFrom
<1>4. p = Rebuild(rs, ev, n) /\ p.ok
  BY DEF ReadFrom
<1>5. p = End(FoldLeft(Fold, o, logs), ev[rs[1]])
  BY <1>1, <1>2, <1>3, <1>4, Rebuilding
<1>6. \E b : o \in Builder(o.revs, b, AllLines) /\ FoldLeft(Fold, o, logs) \in Builder(o.revs, b, AllLines)
  BY <1>1, <1>2, <1>3, <1>4, Rebuilding
<1>. QED  BY <1>2, <1>5, <1>6 DEF Unended

(* Two proposals read from the same notes of the same revisions, whose     *)
(* events name the same branch, differ in how they ended, and that is the  *)
(* first thing the page hashes.                                            *)
LEMMA TheEndIsHashed ==
    ASSUME NEW rs, NEW n, NEW ev, NEW p, ReadFrom(p, rs, ev, n),
           NEW ew, NEW q, ReadFrom(q, rs, ew, n),
           Unended(rs, ev, n) = Unended(rs, ew, n),
           Fingerprint(p) = Fingerprint(q)
    PROVE  p = q
<1>1. PICK x : x = Unended(rs, ev, n)
  OBVIOUS
<1>2. p = End(x, ev[rs[1]])
  BY <1>1, ItEndsAs
<1>3. q = End(x, ew[rs[1]])
  BY <1>1, ItEndsAs
<1>4. PICK rv, b : x \in Builder(rv, b, AllLines)
  BY <1>1, ItEndsAs
<1>5. Made(p, AllLines) /\ AreVerdicts(p, HeadRev(p))
  BY WhatIsRead
<1>6. Made(q, AllLines) /\ AreVerdicts(q, HeadRev(q))
  BY WhatIsRead
<1>7. p.state = q.state
  <2>1. PICK T : Letters(T, AllLines) /\ \A i \in 1..4 : Bar(p)[i] \in T /\ Bar(q)[i] \in T
    BY SomeLetters
  <2>2. Spelt(p, T) /\ Spelt(q, T)
    BY <1>5, <1>6, <2>1, ItIsSpelt DEF AreVerdicts
  <2>3. Fingerprint(p)[1] = p.state
    BY <2>2, HashStarts
  <2>4. Fingerprint(q)[1] = q.state
    BY <2>2, HashStarts
  <2>. QED  BY <2>3, <2>4
<1>8. ASSUME NEW l  PROVE End(x, l) = [x EXCEPT !.state = End(x, l).state]
  <2>1. CASE End(x, l) = x
    BY <1>4, <2>1 DEF Builder
  <2>2. CASE End(x, l) # x
    <3>1. PICK k : End(x, l) = [x EXCEPT !.state = k]
      BY <2>2 DEF End
    <3>2. [x EXCEPT !.state = k].state = k
      BY <1>4 DEF Builder
    <3>. QED  BY <3>1, <3>2
  <2>. QED  BY <2>1, <2>2
<1>9. p = [x EXCEPT !.state = p.state] /\ q = [x EXCEPT !.state = q.state]
  BY <1>2, <1>3, <1>8
<1>. QED  BY <1>7, <1>9

(* An ending less: if that is not to be seen, nothing is.                  *)
LEMMA AnEndingLess ==
    ASSUME LogInv, Len(endings) # 0,
           NEW ev, ev = [events EXCEPT ![First] = Front(@)],
           NEW p, p = Rebuild(revs, ev, notes), p.ok,
           NEW q, q = Rebuild(revs, events, notes), q.ok,
           Fingerprint(p) = Fingerprint(q)
    PROVE  p = q
<1>1. PICK rs, n, ew : rs = revs /\ n = notes /\ ew = events
  OBVIOUS
<1>2. /\ rs \in Seq(Commits) /\ rs # <<>> /\ rs[1] = First
      /\ \A i \in DOMAIN rs : n[rs[i]] \in Seq(AllLines)
  BY <1>1 DEF LogInv, Held
<1>3. PICK told \in Seq(LogEvents) : told = events[First]
  BY TheEvents
<1>4. PICK short : short = Front(told)
  OBVIOUS
<1>5. Len(told) >= 2 /\ told[1] = Opened("main", 0) /\ \A i \in 2..Len(told) : IsEnding(told[i])
  <2>1. Len(endings) \in Nat
    BY DEF LogInv
  <2>. QED  BY <1>3, <2>1, TheEvents
<1>6. /\ short \in Seq(LogEvents) /\ short # <<>> /\ short[1] = Opened("main", 0)
      /\ \A i \in 2..Len(short) : IsEnding(short[i])
  <2>1. short = SubSeq(told, 1, Len(told) - 1)
    BY <1>4 DEF Front
  <2>2. /\ short \in Seq(LogEvents) /\ Len(short) = Len(told) - 1
        /\ \A i \in 1..Len(short) : short[i] = told[i]
    BY <1>5, <2>1
  <2>. QED  BY <1>5, <2>2
<1>7. ev[rs[1]] = short
  <2>1. First \in DOMAIN events
    BY TheEvents
  <2>. QED  BY <1>2, <1>3, <1>4, <2>1
<1>8. ew[rs[1]] = told
  BY <1>1, <1>2, <1>3
<1>9. PICK o : o = Revised(rs, ev[rs[1]]) /\ o = Revised(rs, ew[rs[1]])
  <2>1. Revised(rs, told) = FoldLeft(AddRevision, Open("main", rs[1]), Tail(rs))
    <3>1. told # <<>>
      BY <1>5
    <3>. QED  BY <1>5, <3>1, NothingMoves
  <2>2. Revised(rs, short) = FoldLeft(AddRevision, Open("main", rs[1]), Tail(rs))
    BY <1>6, NothingMoves
  <2>. QED  BY <1>7, <1>8, <2>1, <2>2
<1>10. ev[rs[1]] \in Seq(LogEvents) /\ ew[rs[1]] \in Seq(LogEvents)
  BY <1>6, <1>7, <1>8
<1>11. PICK es : es = ev
  OBVIOUS
<1>12. es[rs[1]] \in Seq(LogEvents) /\ ew[rs[1]] \in Seq(LogEvents)
  BY <1>10, <1>11
<1>13. Unended(rs, es, n) = Unended(rs, ew, n)
  BY <1>9, <1>11 DEF Unended
<1>14. p = Rebuild(rs, es, n) /\ q = Rebuild(rs, ew, n)
  BY <1>1, <1>11
<1>15. ReadFrom(p, rs, es, n) /\ ReadFrom(q, rs, ew, n)
  BY <1>2, <1>12, <1>14 DEF ReadFrom
<1>. QED  BY <1>13, <1>15, TheEndIsHashed

(* All but the last.                                                       *)
LEMMA AllButOne ==
    ASSUME NEW C, NEW rs \in Seq(C), rs # <<>>, Len(rs) # 1, NEW s, s = Front(rs)
    PROVE  /\ s \in Seq(C) /\ s # <<>> /\ s[1] = rs[1]
           /\ \A i \in DOMAIN s : i \in DOMAIN rs /\ s[i] = rs[i]
           /\ Len(s) \in DOMAIN s /\ Len(rs) \in DOMAIN rs /\ Len(s) # Len(rs)
<1>1. PICK m \in Nat : m = Len(rs) /\ DOMAIN rs = 1..m
  OBVIOUS
<1>2. m # 0
  BY <1>1
<1>3. s = SubSeq(rs, 1, m - 1)
  BY <1>1 DEF Front
<1>4. /\ s \in Seq(C) /\ Len(s) = m - 1 /\ DOMAIN s = 1..(m - 1)
      /\ \A i \in 1..(m - 1) : s[i] = rs[i]
  BY <1>1, <1>2, <1>3
<1>5. m - 1 \in 1..(m - 1)
  BY <1>1, <1>2
<1>6. s # <<>>
  BY <1>4, <1>5
<1>. QED  BY <1>1, <1>2, <1>4, <1>5, <1>6

(* A revision less: the heads differ.                                      *)
LEMMA ARevisionLess ==
    ASSUME LogInv, Len(revs) # 1,
           NEW p, p = Rebuild(Front(revs), events, notes), p.ok,
           NEW q, q = Rebuild(revs, events, notes), q.ok
    PROVE  Fingerprint(p) # Fingerprint(q)
<1>1. /\ revs \in Seq(Commits) /\ revs # <<>> /\ revs[1] = First /\ NoneTwice(revs)
      /\ \A i \in DOMAIN revs : notes[revs[i]] \in Seq(AllLines)
  BY DEF LogInv, Held
<1>2. PICK short : short = Front(revs)
  OBVIOUS
<1>3. /\ short \in Seq(Commits) /\ short # <<>> /\ short[1] = First
      /\ \A i \in DOMAIN short : i \in DOMAIN revs /\ short[i] = revs[i]
      /\ Len(short) \in DOMAIN short /\ Len(revs) \in DOMAIN revs /\ Len(short) # Len(revs)
  <2>1. PICK s \in Seq(Commits) : s = revs /\ s # <<>> /\ Len(s) # 1
    BY <1>1
  <2>. QED  BY <1>1, <1>2, <2>1, AllButOne
<1>4. \A i \in DOMAIN short : notes[short[i]] \in Seq(AllLines)
  BY <1>1, <1>3
<1>5. PICK ww : ww = events /\ ww[First] \in Seq(LogEvents)
  BY TheEvents
<1>6. Made(p, AllLines) /\ AreVerdicts(p, HeadRev(p)) /\ p.revs = short
  <2>1. PICK n : n = notes
    OBVIOUS
  <2>2. ww[short[1]] \in Seq(LogEvents)
    BY <1>3, <1>5
  <2>3. p = Rebuild(short, ww, n)
    BY <1>2, <1>5, <2>1
  <2>4. \A i \in DOMAIN short : n[short[i]] \in Seq(AllLines)
    BY <1>4, <2>1
  <2>5. ReadFrom(p, short, ww, n)
    BY <1>3, <2>2, <2>3, <2>4 DEF ReadFrom
  <2>. QED  BY <2>5, WhatIsRead
<1>7. Made(q, AllLines) /\ AreVerdicts(q, HeadRev(q)) /\ q.revs = revs
  <2>1. PICK n : n = notes
    OBVIOUS
  <2>2. q = Rebuild(revs, ww, n) /\ ww[revs[1]] \in Seq(LogEvents)
    BY <1>1, <1>5, <2>1
  <2>3. \A i \in DOMAIN revs : n[revs[i]] \in Seq(AllLines)
    BY <1>1, <2>1
  <2>4. ReadFrom(q, revs, ww, n)
    BY <1>1, <2>2, <2>3 DEF ReadFrom
  <2>. QED  BY <2>4, WhatIsRead
<1>8. PICK T : Letters(T, AllLines) /\ \A i \in 1..4 : Bar(p)[i] \in T /\ Bar(q)[i] \in T
  BY SomeLetters
<1>9. Spelt(p, T) /\ Spelt(q, T)
  BY <1>6, <1>7, <1>8, ItIsSpelt DEF AreVerdicts
<1>10. Fingerprint(p)[3] = HeadRev(p)
  BY <1>9, HashStarts
<1>11. Fingerprint(q)[3] = HeadRev(q)
  BY <1>9, HashStarts
<1>12. HeadRev(p) # HeadRev(q)
  <2>1. HeadRev(p) = short[Len(short)] /\ HeadRev(q) = revs[Len(revs)]
    BY <1>6, <1>7 DEF HeadRev, Last
  <2>2. short[Len(short)] = revs[Len(short)] /\ Len(short) # Len(revs)
        /\ Len(short) \in DOMAIN revs
    BY <1>1, <1>3
  <2>. QED  BY <1>1, <1>3, <2>1, <2>2 DEF NoneTwice
<1>. QED  BY <1>10, <1>11, <1>12

(* The board hashes its lines as they are.                                 *)
LEMMA TheBoardIsTold ==
    ASSUME NEW p, NEW q
    PROVE  BoardEntry(p) # BoardEntry(q) <=> BoardFingerprint(p) # BoardFingerprint(q)
<1>1. PICK a, b, c, d, e : /\ a = p.state /\ b = p.target /\ c = Len(p.revs)
                           /\ d = Cardinality(OpenComments(p)) /\ e = CheckSummary(p)
  OBVIOUS
<1>2. PICK u, v, w, x, y : /\ u = q.state /\ v = q.target /\ w = Len(q.revs)
                           /\ x = Cardinality(OpenComments(q)) /\ y = CheckSummary(q)
  OBVIOUS
<1>3. /\ BoardEntry(p) = [group |-> a, target |-> b, revision |-> c, notes |-> d, checks |-> e]
      /\ BoardEntry(q) = [group |-> u, target |-> v, revision |-> w, notes |-> x, checks |-> y]
  BY <1>1, <1>2 DEF BoardEntry
<1>4. BoardFingerprint(p) = <<a, b, c, d, e>> /\ BoardFingerprint(q) = <<u, v, w, x, y>>
  BY <1>1, <1>2 DEF BoardFingerprint, BoardEntry
<1>. QED  BY <1>3, <1>4

(* An open tab is told of every change it would draw, and the board of     *)
(* those of its lines and of no others: whatever the commits, the notes    *)
(* and the moments, a page that is hashed as it was before the last        *)
(* revision, ending or line is drawn as it was.  (model/fingerprint.rs:14, *)
(* board.rs:163)                                                           *)
THEOREM FingerprintsAreEnough == LogSpec => []FingerprintsFollow
<1>1. ASSUME LogInv  PROVE FingerprintsFollow
  <2>1. SUFFICES ASSUME NEW q, q = Rebuild(revs, events, notes), NEW p \in Before, p.ok, q.ok
                 PROVE  /\ Page(p) # Page(q) => Fingerprint(p) # Fingerprint(q)
                        /\ BoardEntry(p) # BoardEntry(q) <=>
                              BoardFingerprint(p) # BoardFingerprint(q)
    BY DEF FingerprintsFollow, Folded, Read
  <2>2. BoardEntry(p) # BoardEntry(q) <=> BoardFingerprint(p) # BoardFingerprint(q)
    BY TheBoardIsTold
  <2>3. SUFFICES ASSUME Fingerprint(p) = Fingerprint(q)  PROVE Page(p) = Page(q)
    BY <2>2
  <2>4. CASE \E i \in {Len(revs)} \ {1} : p = Rebuild(Front(revs), events, notes)
    BY <1>1, <2>1, <2>3, <2>4, ARevisionLess
  <2>5. CASE \E i \in {Len(endings)} \ {0} :
                p = Rebuild(revs, [events EXCEPT ![First] = Front(@)], notes)
    BY <1>1, <2>1, <2>3, <2>5, AnEndingLess
  <2>6. CASE \E c \in {c \in Commits : notes[c] # <<>>} :
                p = Rebuild(revs, events, [notes EXCEPT ![c] = Front(@)])
    BY <1>1, <2>1, <2>3, <2>6, ALineLess
  <2>. QED  BY <2>1, <2>4, <2>5, <2>6 DEF Before
<1>. QED  BY <1>1, LogInvHolds, PTL

=============================================================================
