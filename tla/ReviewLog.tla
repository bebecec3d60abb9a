------------------------------ MODULE ReviewLog ------------------------------
(***************************************************************************)
(* The review log and what it adds up to.                                  *)
(*                                                                         *)
(* Nothing about a proposal is stored except its lines: a ref for every    *)
(* revision, a log of events on the commit of revision one, and a log of   *)
(* records on every commit.  Reading is folding: `Rebuild` is the fold of  *)
(* crates/app/src/snapshot.rs over the aggregate of                        *)
(* crates/review/src/proposal.rs, and the views are those of               *)
(* proposal/views.rs.  The module has no state of its own; the machines    *)
(* that write the log read it with these operators.                        *)
(*                                                                         *)
(* Abstracted: titles, bodies, authors, anchors and durations.  A commit,  *)
(* a note id and a check name are plain values; a timestamp is a number.   *)
(***************************************************************************)
EXTENDS Integers, Sequences, FiniteSets, SequencesExt

-----------------------------------------------------------------------------
(* Lines. *)

Comment(n, c)      == [kind |-> "comment", id |-> n, rev |-> c]
Rationale(n, c)    == [kind |-> "rationale", id |-> n, rev |-> c]
Reply(n, note)     == [kind |-> "reply", id |-> n, target |-> note]
Resolve(note)      == [kind |-> "resolve", target |-> note]
Verdict(k, ok, c)  == [kind |-> "check", name |-> k, passed |-> ok, rev |-> c]
Chunk(n)           == [kind |-> "chunk", id |-> n]
WorkLine(ph, c, t) == [kind |-> "work", phase |-> ph, rev |-> c, at |-> t]
Ask(c, t)          == [kind |-> "dispatch", rev |-> c, at |-> t]

Opened(b, t)     == [kind |-> "opened", target |-> b, at |-> t]
Retargeted(b, t) == [kind |-> "retargeted", target |-> b, at |-> t]
Landed(t)        == [kind |-> "landed", at |-> t]
Abandoned(t)     == [kind |-> "abandoned", at |-> t]

Phases == {"started", "finished", "failed", "cleared"}

-----------------------------------------------------------------------------
(* The aggregate: a mutable builder the log is folded into.  An error of   *)
(* the code is the value with ok = FALSE, which nothing folds into.        *)

Open(b, c) ==
    [ok |-> TRUE, state |-> "open", target |-> b, revs |-> <<c>>,
     comments |-> <<>>, rationale |-> <<>>, answers |-> <<>>, resolved |-> {},
     checks |-> {}, chunks |-> <<>>, work |-> <<>>, asks |-> <<>>]

Unreadable == [ok |-> FALSE]

AddRevision(p, c) ==
    IF p.state = "open" /\ c \notin ToSet(p.revs)
    THEN [p EXCEPT !.revs = Append(@, c)]
    ELSE [p EXCEPT !.ok = FALSE]

(* must_be_open, must_know_revision and must_know_comment, as `apply` asks *)
(* them: a chunk, a work line and a dispatch name nothing that could be    *)
(* missing.                                                                *)
Accepts(p, r) ==
    /\ p.state = "open"
    /\ r.kind \in {"comment", "rationale", "check"} => r.rev \in ToSet(p.revs)
    /\ r.kind \in {"reply", "resolve"} =>
          \E i \in DOMAIN p.comments : p.comments[i].id = r.target

(* Keeping every line, the same one twice as two.                         *)
AppendEach(lines, r) == Append(lines, r)

AppendOnce(lines, r) ==
    IF \E i \in DOMAIN lines : lines[i].id = r.id THEN lines ELSE Append(lines, r)

Apply(p, r) ==
    IF ~(p.ok /\ Accepts(p, r)) THEN [p EXCEPT !.ok = FALSE]
    ELSE CASE r.kind = "comment"   -> [p EXCEPT !.comments = AppendOnce(@, r)]
           [] r.kind = "rationale" -> [p EXCEPT !.rationale = AppendOnce(@, r)]
           [] r.kind = "reply"     -> [p EXCEPT !.answers = AppendOnce(@, r)]
           [] r.kind = "resolve"   -> [p EXCEPT !.resolved = @ \cup {r.target}]
           [] r.kind = "check"     -> [p EXCEPT !.checks =
                                         {v \in @ : v.name # r.name} \cup {r}]
           [] r.kind = "chunk"     -> [p EXCEPT !.chunks = Append(@, r)]
           [] r.kind = "work"      -> [p EXCEPT !.work = Append(@, r)]
           [] r.kind = "dispatch"  -> [p EXCEPT !.asks = Append(@, r)]

IsAnswer(r) == r.kind \in {"reply", "resolve"}

(* Folding in the order of delivery instead, which is what `Fold` avoids.  *)
FoldAsDelivered(p, records) == FoldLeft(Apply, p, records)

(* One revision's note: the first turn puts the answers by, which may name *)
(* a note that comes after them, and the second applies them.              *)
ApplyLine(p, r)   == IF IsAnswer(r) THEN p ELSE Apply(p, r)
ApplyAnswer(p, r) == IF IsAnswer(r) THEN Apply(p, r) ELSE p

Fold(p, records) == FoldLeft(ApplyAnswer, FoldLeft(ApplyLine, p, records), records)

-----------------------------------------------------------------------------
(* snapshot.rs read: from what parsing said of each line of a note.  A kind*)
(* only a newer build knows is passed over; any other refusal refuses the  *)
(* whole note.                                                             *)
Keep(known, line) == IF line.ok THEN Append(known, line.record) ELSE known

UnknownIsFatal(lines) ==
    [ok |-> \A i \in DOMAIN lines : lines[i].ok, records |-> FoldLeft(Keep, <<>>, lines)]

ReadNote(lines) ==
    [ok      |-> \A i \in DOMAIN lines : lines[i].ok \/ lines[i].why = "unknown kind",
     records |-> FoldLeft(Keep, <<>>, lines)]

-----------------------------------------------------------------------------
(* Rebuilding one proposal from its refs, its events and the notes.        *)

IsOpening(e) == e.kind = "opened"
IsMove(e)    == e.kind = "retargeted"
IsEnding(e)  == e.kind \in {"landed", "abandoned"}

Moves(log) == {i \in DOMAIN log : IsMove(log[i])}

(* Trusting the order of the log instead of the moments.                   *)
TargetWritten(b, log) == IF Moves(log) = {} THEN b ELSE log[Max(Moves(log))].target

(* Where a proposal lands: the opening's target, overwritten by every      *)
(* retarget in the order of their timestamps, the log's order among equals.*)
Target(b, log) ==
    LET latest == CHOOSE i \in Moves(log) : \A j \in Moves(log) :
                     \/ log[j].at < log[i].at
                     \/ log[j].at = log[i].at /\ j <= i
    IN  IF Moves(log) = {} THEN b ELSE log[latest].target

(* The first event that ended it decides, whatever came after.             *)
End(p, log) ==
    LET first == SelectInSeq(log, IsEnding)
    IN  IF p.ok /\ first # 0 THEN [p EXCEPT !.state = log[first].kind] ELSE p

NotesOf(revs, notes) == [i \in DOMAIN revs |-> notes[revs[i]]]

(* The proposal as its first opening, its retargets and its refs say it is.*)
Revised(revs, log) ==
    FoldLeft(AddRevision,
             Open(Target(log[SelectInSeq(log, IsOpening)].target, log), revs[1]),
             Tail(revs))

(* Folding the newest revision's note first instead of last.               *)
RebuildNewestFirst(revs, events, notes) ==
    LET log == events[revs[1]]
    IN  IF SelectInSeq(log, IsOpening) = 0 THEN Unreadable
        ELSE End(FoldLeft(Fold, Revised(revs, log), Reverse(NotesOf(revs, notes))), log)

Rebuild(revs, events, notes) ==
    LET log == events[revs[1]]
    IN  IF SelectInSeq(log, IsOpening) = 0 THEN Unreadable
        ELSE End(FoldLeft(Fold, Revised(revs, log), NotesOf(revs, notes)), log)

-----------------------------------------------------------------------------
(* Views: derived on demand, head-scoped where the code is.                *)

HeadRev(p) == Last(p.revs)

(* Notes nobody resolved, from any revision, and those that block the head.*)
Conversation(p) == {r \in ToSet(p.comments) : r.id \notin p.resolved}
OpenComments(p) == {r \in Conversation(p) : r.rev = HeadRev(p)}

(* The verdicts on the head; an older revision's ran on other code.        *)
Checks(p)  == {v \in p.checks : v.rev = HeadRev(p)}
Failing(p) == {v \in Checks(p) : ~v.passed}

NoLine == [kind |-> "none", phase |-> "none"]

(* The lines of work on the head, by their places.                         *)
OnHead(p) == {i \in DOMAIN p.work : p.work[i].rev = HeadRev(p)}

(* Trusting the position of a line instead of its moment.                  *)
LatestWritten(lines, places) == IF places = {} THEN NoLine ELSE lines[Max(places)]

(* The latest line wins, and among lines of one moment the last written.   *)
Latest(lines, places) ==
    LET latest == CHOOSE i \in places : \A j \in places :
                     \/ lines[j].at < lines[i].at
                     \/ lines[j].at = lines[i].at /\ j <= i
    IN  IF places = {} THEN NoLine ELSE lines[latest]

Activity(p) == Latest(p.work, OnHead(p))

Working(p) == Activity(p).phase = "started"

(* Somebody asked for an agent on the head, and since the latest ask       *)
(* nothing happened but a claim handed back.                               *)
Dispatched(p) ==
    LET asked == {r.at : r \in {s \in ToSet(p.asks) : s.rev = HeadRev(p)}}
        since == {i \in OnHead(p) : \A t \in asked : p.work[i].at >= t}
    IN  /\ asked # {}
        /\ Latest(p.work, since).phase \in {"none", "cleared"}

(* The gate.                                                               *)
Landable(p, required) ==
    /\ p.state = "open"
    /\ OpenComments(p) = {}
    /\ \A k \in required : \E v \in Checks(p) : v.name = k /\ v.passed
=============================================================================
