------------------------------- MODULE Overview -------------------------------
(***************************************************************************)
(* What the browser makes of a proposal besides its diff: the bar          *)
(* (crates/web/src/model/status.rs), the rail (model/rail.rs), the page    *)
(* (model.rs), the board (model/board.rs), and the hashes that decide      *)
(* whether an open tab is told of a change (model/fingerprint.rs).         *)
(*                                                                         *)
(* All of them are functions of a proposal that was read; the machine is   *)
(* LogFold, which reads every log.  A hash is the sequence it is fed, with *)
(* nothing between its parts: collisions of the hash function itself are   *)
(* not modelled.                                                           *)
(*                                                                         *)
(* Abstracted: sentences, clock times and authors; the base and the files  *)
(* of the diff, which are what the head is; sizes of proposals.            *)
(***************************************************************************)
EXTENDS LogFold

CONSTANTS Required,       \* the checks the configuration requires, in order
          TimelineDepth   \* TIMELINE_DEPTH, how much of the work log is shown

ASSUME OverviewAssumption ==
    /\ Required \in Seq(Names)
    /\ TimelineDepth \in Nat

-----------------------------------------------------------------------------
(* The bar. *)

CheckRows(p) ==
    {[name |-> v.name, state |-> IF v.passed THEN "passed" ELSE "failed"] : v \in Checks(p)}
    \cup {[name |-> k, state |-> "missing"] :
             k \in {k \in ToSet(Required) : \A v \in Checks(p) : v.name # k}}

(* AgentState; agent_line says the same in words.                          *)
AgentChip(p) ==
    CASE Activity(p).phase = "started" -> "working"
      [] Activity(p).phase = "failed"  -> "failed"
      [] OTHER -> IF Dispatched(p) THEN "waiting" ELSE "idle"

(* The first required check that did not pass on the head, 0 if all did.   *)
Stuck(p) ==
    SelectInSeq(Required, LAMBDA k : ~\E v \in Checks(p) : v.name = k /\ v.passed)

(* Proposal::landable, with the reason it gives: the first that applies.   *)
Blocked(p) ==
    LET Ran(k) == \E v \in Checks(p) : v.name = k
    IN  IF p.state # "open" THEN <<"not open", p.state>>
        ELSE IF OpenComments(p) # {} THEN <<"notes", Cardinality(OpenComments(p))>>
        ELSE IF Stuck(p) # 0
             THEN <<IF Ran(Required[Stuck(p)]) THEN "failed" ELSE "missing", Required[Stuck(p)]>>
             ELSE <<>>

(* The base and the older revisions, and which of them is lit.             *)
Origins(p, since) ==
    {[since |-> 0, active |-> since = 0 \/ since >= Len(p.revs)]}
    \cup {[since |-> i, active |-> since = i] : i \in 1..(Len(p.revs) - 1)}

(* app::origin: where a diff of the proposal starts.                       *)
Origin(p, since) == IF since = 0 THEN "base"
                    ELSE IF since \in DOMAIN p.revs THEN p.revs[since] ELSE "refused"

-----------------------------------------------------------------------------
(* The rail. *)

(* The lines at some places of a list, in its order.                       *)
Picked(lines, places) ==
    FlattenSeq([i \in DOMAIN lines |-> IF i \in places THEN <<lines[i]>> ELSE <<>>])

Answers(p, note) ==
    Picked(p.answers, {i \in DOMAIN p.answers : p.answers[i].target = note})

(* Proposal::rationale: the author explaining the head.                    *)
Explained(p) ==
    Picked(p.rationale, {i \in DOMAIN p.rationale : p.rationale[i].rev = HeadRev(p)})

(* threads: every note, with what is said under it.                        *)
Threads(p) ==
    [i \in DOMAIN p.comments |->
        [id       |-> p.comments[i].id,
         stale    |-> p.comments[i].rev # HeadRev(p),
         resolved |-> p.comments[i].id \in p.resolved,
         answers  |-> [j \in DOMAIN Answers(p, p.comments[i].id) |->
                          Answers(p, p.comments[i].id)[j].id]]]

(* The three lists, in the order of the threads.                           *)
NotesOpen(p)     == {t \in ToSet(Threads(p)) : ~t.resolved /\ ~t.stale}
NotesEarlier(p)  == {t \in ToSet(Threads(p)) : ~t.resolved /\ t.stale}
NotesResolved(p) == {t \in ToSet(Threads(p)) : t.resolved}

(* A stable sort on the moment, latest first, and the top of it.           *)
Above(one, other) == \/ one.line.at > other.line.at
                     \/ one.line.at = other.line.at /\ one.place < other.place

Timeline(p) ==
    SelectSeq(SortSeq([i \in DOMAIN p.work |-> [line |-> p.work[i], place |-> i]], Above),
              LAMBDA l : Cardinality({i \in DOMAIN p.work :
                            Above([line |-> p.work[i], place |-> i], l)}) < TimelineDepth)

-----------------------------------------------------------------------------
(* The page and the board. *)

(* Everything of a page that is not a constant of the proposal.            *)
Page(p) ==
    [state |-> p.state, target |-> p.target, head |-> HeadRev(p),
     threads |-> Threads(p), decisions |-> p.chunks,
     explained |-> Explained(p),
     checks |-> CheckRows(p), agent |-> AgentChip(p), blocked |-> Blocked(p),
     origins |-> Origins(p, 0), timeline |-> Timeline(p),
     openNotes |-> Cardinality(OpenComments(p))]

CheckSummary(p) ==
    CASE Checks(p) = {}   -> <<"none">>
      [] Failing(p) # {}  -> <<"failed", Cardinality(Failing(p))>>
      [] OTHER            -> <<"passing">>

(* One line of the board and the group it is in.                           *)
BoardEntry(p) ==
    [group |-> p.state, target |-> p.target, revision |-> Len(p.revs),
     notes |-> Cardinality(OpenComments(p)), checks |-> CheckSummary(p)]

Yes(b) == IF b THEN "true" ELSE "false"

(* What each part of a proposal feeds the hash of its page.                *)
HashedNote(p, note) ==
    <<note.id, Yes(note.id \in p.resolved)>>
    \o [j \in DOMAIN Answers(p, note.id) |-> Answers(p, note.id)[j].id]

HashedCheck(v) == <<v.name, Yes(v.passed)>>

HashedWork(line) == <<line.rev, line.phase, ToString(line.at)>>

HashedNotes(p) == FlattenSeq([i \in DOMAIN p.comments |-> HashedNote(p, p.comments[i])])

HashedChecks(p) ==
    LET checks == SetToSeq(Checks(p))
    IN  FlattenSeq([i \in DOMAIN checks |-> HashedCheck(checks[i])])

HashedLog(p) ==
    <<p.state, ToString(Len(p.revs)), HeadRev(p), p.target>>
    \o HashedNotes(p)
    \o HashedChecks(p)
    \o [i \in DOMAIN p.chunks |-> p.chunks[i].id]
    \o [i \in DOMAIN Explained(p) |-> Explained(p)[i].id]
    \o FlattenSeq([i \in DOMAIN p.work |-> HashedWork(p.work[i])])

(* Forgetting that an ask can matter without any line of work.             *)
FingerprintOfLines(p) == HashedLog(p)

Fingerprint(p) == HashedLog(p) \o <<Yes(Dispatched(p))>>

BoardFingerprint(p) ==
    LET entry == BoardEntry(p)
    IN  <<entry.group, entry.target, entry.revision, entry.notes, entry.checks>>

-----------------------------------------------------------------------------
(* The gate, said of the lines instead of the aggregate: nothing ended the *)
(* proposal, every comment on the newest commit has been resolved by a line*)
(* of some revision, and the last verdict in the newest commit's own note, *)
(* for every required check, is a pass.  What the page shows about it says *)
(* the same: the reason, the rows of the required checks and the three     *)
(* lists of notes.  (Proposal::landable, status::checks, Page::notes_open) *)
GateReadsTheHead ==
    \A p \in {Folded} : p.ok =>
        LET head     == Last(revs)
            said(k)  == {i \in DOMAIN notes[head] : /\ notes[head][i].kind = "check"
                                                   /\ notes[head][i].name = k}
            passed(k) == \E i \in said(k) : notes[head][i].passed /\ \A j \in said(k) : j <= i
            answered == {r.target : r \in {r \in UNION {ToSet(notes[c]) : c \in ToSet(revs)} :
                                              r.kind = "resolve"}}
            asked    == {r.id : r \in {r \in ToSet(notes[head]) : r.kind = "comment"}}
            ended    == \E e \in ToSet(events[First]) : IsEnding(e)
            named(l) == {t.id : t \in l}
            required == {row \in CheckRows(p) : row.name \in ToSet(Required)}
        IN  /\ Blocked(p) = <<>> <=>
                  /\ ~ended
                  /\ asked \subseteq answered
                  /\ \A k \in ToSet(Required) : passed(k)
            /\ Blocked(p) = <<>> <=>
                  /\ ~ended
                  /\ NotesOpen(p) = {}
                  /\ \A row \in required : row.state = "passed"
            /\ named(NotesOpen(p)) = asked \ answered
            /\ named(NotesEarlier(p)) \cap asked = {}
            /\ named(NotesResolved(p)) = answered

(* The log a step ago, for every step that can have led here: a revision,  *)
(* an ending or a line less.                                               *)
Before ==
    {Rebuild(Front(revs), events, notes) : i \in {Len(revs)} \ {1}}
    \cup {Rebuild(revs, [events EXCEPT ![First] = Front(@)], notes) : i \in {Len(endings)} \ {0}}
    \cup {Rebuild(revs, events, [notes EXCEPT ![c] = Front(@)]) :
             c \in {c \in Commits : notes[c] # <<>>}}

(* An open tab is told of every change it would draw: a step that moves    *)
(* anything on the page moves its fingerprint, although an ask is hashed   *)
(* only through what it adds up to.  The board is told of those changes and*)
(* of no others.  (model/fingerprint.rs:14, board.rs:163)                  *)
FingerprintsFollow ==
    \A here \in {Folded} :
        \A before \in Before :
            (before.ok /\ here.ok) =>
                /\ Page(before) # Page(here) => Fingerprint(before) # Fingerprint(here)
                /\ BoardEntry(before) # BoardEntry(here) <=>
                      BoardFingerprint(before) # BoardFingerprint(here)

=============================================================================
