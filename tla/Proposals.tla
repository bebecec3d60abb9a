------------------------------ MODULE Proposals ------------------------------
(***************************************************************************)
(* The commands of crates/app over the store of crates/app/src/store.rs.   *)
(*                                                                         *)
(* Every command has the same shape: read the whole log, let the aggregate *)
(* refuse, then write.  There is no lock around the two halves, and every  *)
(* write is a git process of its own, so any other command, a push, or a   *)
(* crash can come between them.  An actor is a process running one command *)
(* at a time (the terminal, the browser's server, an agent, the runner);   *)
(* what it decided from its reading waits in job[a] to be written.         *)
(*                                                                         *)
(* A command is numbered when it starts, and the number stands for its     *)
(* timestamp and for the content-derived names of the lines it writes.     *)
(* The guards state what the fold of ReviewLog answers without folding;    *)
(* MCProposals checks that the two agree in every state.                   *)
(***************************************************************************)
EXTENDS ReviewLog

CONSTANTS
    Actors,       \* processes running commands
    Ids,          \* names of proposals
    Commits,      \* the commits of the repository
    Branches,     \* its branches
    CheckOrder,   \* the declared checks, in order
    Required,     \* the checks the gate asks for
    History,      \* <<a, b>> : a is reachable from b
    FirstCommit,  \* FirstCommit[p] : the commit p is named after and opens at
    Onto,         \* Onto[p] : the branch p is proposed onto
    Attempts,     \* Attempts[p] : the commits somebody may record as revisions
    MayRevise,    \* <<a, p>> : actor a records revisions of p
    Start,        \* Start[b] : where branch b is in the beginning
    OpenAtStart,  \* proposals opened before the story begins
    Pushed,       \* the branches that are also committed or pushed to directly
    Ops,          \* the commands and outside events of the story
    MaxCommands   \* bound on the commands started

InHistory(a, b) == <<a, b>> \in History

ASSUME ProposalsAssumption ==
    /\ FirstCommit \in [Ids -> Commits]
    /\ Onto \in [Ids -> Branches]
    /\ Attempts \in [Ids -> SUBSET Commits]
    /\ Start \in [Branches -> Commits]
    /\ OpenAtStart \subseteq Ids
    /\ Pushed \subseteq Branches
    /\ MaxCommands \in Nat
    /\ History \subseteq Commits \X Commits
    /\ \A c \in Commits : InHistory(c, c)
    /\ \A a, b, c \in Commits : InHistory(a, b) /\ InHistory(b, c) => InHistory(a, c)

VARIABLES
    refs,      \* refs[p][n] : the commit of revision n of p
    events,    \* events[c] : the event lines in the note of commit c
    notes,     \* notes[c] : the record lines in the note of commit c
    branch,    \* branch[b] : the commit at the tip of b
    checkout,  \* the branch the working copy is on
    job,       \* job[a] : what the command of actor a has still to do
    issued,    \* the number of commands started
    landings   \* history: every landed event written, with what it was about

log  == <<refs, events, notes>>
vars == <<refs, events, notes, branch, checkout, job, issued, landings>>

-----------------------------------------------------------------------------
(* Views of one proposal, as the fold answers them.                        *)

Known(p)   == refs[p] # <<>>
FirstOf(p) == refs[p][1]
HeadOf(p)  == refs[p][Len(refs[p])]
Revs(p)    == ToSet(refs[p])
Lines(p)   == UNION {ToSet(notes[c]) : c \in Revs(p)}

IsCommentOn(r, n) == r.kind = "comment" /\ r.id = n
Carries(p, n)     == \E r \in Lines(p) : IsCommentOn(r, n)
Resolved(p, n)    == \E r \in Lines(p) : r.kind = "resolve" /\ r.target = n
(* Counting the notes of every revision, as `conversation` does.           *)
BlockingAnywhere(p) ==
    {r \in Lines(p) : r.kind = "comment" /\ ~Resolved(p, r.id)}

Blocking(p) ==
    {r \in Lines(p) : r.kind = "comment" /\ r.rev = HeadOf(p) /\ ~Resolved(p, r.id)}

(* The last verdict of check k on the head.                                *)
Answered(p, k, ok) ==
    LET ran == notes[HeadOf(p)]
    IN  \E i \in DOMAIN ran :
           /\ ran[i].kind = "check" /\ ran[i].name = k /\ ran[i].passed = ok
           /\ \A j \in DOMAIN ran : ran[j].kind = "check" /\ ran[j].name = k => j <= i

IsOpen(p) == \A i \in DOMAIN events[FirstOf(p)] : ~IsEnding(events[FirstOf(p)][i])

(* Branch b is where p lands: the latest retarget, or the first opening.   *)
AimsAt(p, b) ==
    LET told == events[FirstOf(p)]
        IsLatest(i) == \A j \in DOMAIN told : IsMove(told[j]) =>
                           \/ told[j].at < told[i].at
                           \/ told[j].at = told[i].at /\ j <= i
    IN  \E i \in DOMAIN told :
           /\ told[i].kind \in {"opened", "retargeted"}
           /\ told[i].target = b
           /\ IF \E j \in DOMAIN told : IsMove(told[j])
              THEN IsMove(told[i]) /\ IsLatest(i)
              ELSE \A j \in DOMAIN told : IsOpening(told[j]) => i <= j

(* A gate that asks for the checks and forgets the notes.                  *)
GateOnChecks(p) ==
    /\ IsOpen(p)
    /\ \A k \in Required : Answered(p, k, TRUE)

Gate(p) ==
    /\ IsOpen(p)
    /\ Blocking(p) = {}
    /\ \A k \in Required : Answered(p, k, TRUE)

(* The log of p reads: it was opened, no commit is two of its revisions,   *)
(* every line about code is about one of them, and every answer names a    *)
(* comment on its own revision or an earlier one.                          *)
AnswersAreAnchored(p) ==
    \A i \in DOMAIN refs[p] : \A r \in ToSet(notes[refs[p][i]]) :
        IsAnswer(r) => \E j \in 1..i : \E s \in ToSet(notes[refs[p][j]]) :
                           IsCommentOn(s, r.target)
CodeLinesAreAnchored(p) ==
    \A r \in Lines(p) :
        r.kind \in {"comment", "rationale", "check"} => r.rev \in Revs(p)

Reads(p) ==
    /\ \E i \in DOMAIN events[FirstOf(p)] : IsOpening(events[FirstOf(p)][i])
    /\ \A i, j \in DOMAIN refs[p] : refs[p][i] = refs[p][j] => i = j
    /\ AnswersAreAnchored(p)
    /\ CodeLinesAreAnchored(p)

(* One proposal that does not read fails the whole snapshot.               *)
SnapshotReads == \A p \in Ids : Known(p) => Reads(p)

-----------------------------------------------------------------------------
(* What a command has still to do.                                         *)

Record ==
    [kind : {"comment", "rationale"}, id : Nat, rev : Commits]
    \cup [kind : {"reply"}, id : Nat, target : Nat]
    \cup [kind : {"resolve"}, target : Nat]
    \cup [kind : {"check"}, name : ToSet(CheckOrder), passed : BOOLEAN, rev : Commits]
    \cup [kind : {"chunk"}, id : Nat]
    \cup [kind : {"work"}, phase : Phases, rev : Commits, at : Nat]
    \cup [kind : {"dispatch"}, rev : Commits, at : Nat]

Event ==
    [kind : {"opened", "retargeted"}, target : Branches, at : Nat]
    \cup [kind : {"landed", "abandoned"}, at : Nat]

LandStep == {"tip", "where", "fast-forward", "swap", "landed", "follow", "retarget"}

Stacked == [first : Commits, target : Branches]

LandJob ==
    [step : LandStep, id : Ids, first : Commits, head : Commits, target : Branches,
     tip : Commits, stack : SUBSET Stacked, heir : SUBSET Stacked, at : Nat,
     seen : SUBSET Nat]

AtRest == [step |-> "rest"]

Job ==
    {AtRest}
    \cup [step : {"ref"}, id : Ids, number : Nat \ {0}, commit : Commits,
          opening : SUBSET Event]
    \cup [step : {"event"}, commit : Commits, event : Event]
    \cup [step : {"note"}, commit : Commits, lines : Seq(Record) \ {<<>>}]
    \cup [step : {"check"}, commit : Commits, todo : SUBSET DOMAIN CheckOrder]
    \cup LandJob

Landing == [id : Ids, head : Commits, target : Branches, seen : SUBSET Nat,
            stack : SUBSET Stacked]

TypeOK ==
    /\ refs \in [Ids -> Seq(Commits)]
    /\ events \in [Commits -> Seq(Event)]
    /\ notes \in [Commits -> Seq(Record)]
    /\ branch \in [Branches -> Commits]
    /\ checkout \in Branches
    /\ job \in [Actors -> Job]
    /\ issued \in Nat
    /\ landings \subseteq Landing

Init ==
    /\ refs = [p \in Ids |-> IF p \in OpenAtStart THEN <<FirstCommit[p]>> ELSE <<>>]
    /\ events = [c \in Commits |->
                    IF \E p \in OpenAtStart : FirstCommit[p] = c
                    THEN <<Opened(Onto[CHOOSE p \in OpenAtStart : FirstCommit[p] = c], 0)>>
                    ELSE <<>>]
    /\ notes = [c \in Commits |-> <<>>]
    /\ branch = Start
    /\ checkout \in Branches
    /\ job = [a \in Actors |-> AtRest]
    /\ issued = 0
    /\ landings = {}

-----------------------------------------------------------------------------
(* Starting a command: reading the log and deciding what to write.         *)

Now == issued + 1

Issues(a, op, j) ==
    /\ op \in Ops
    /\ job[a] = AtRest
    /\ issued < MaxCommands
    /\ issued' = Now
    /\ job' = [job EXCEPT ![a] = j]
    /\ UNCHANGED <<log, branch, checkout, landings>>

(* `store.load`: the whole snapshot must read, and p must be in it.        *)
Loads(p) == Known(p) /\ SnapshotReads

Appending(p, lines) == [step |-> "note", commit |-> HeadOf(p), lines |-> lines]

(* base is the merge base of the target's tip and the head, and a proposal *)
(* must move past it.                                                      *)
StartPropose(a, p) ==
    /\ ~InHistory(FirstCommit[p], branch[Onto[p]])
    /\ Issues(a, "propose", [step |-> "ref", id |-> p, number |-> 1,
                             commit |-> FirstCommit[p],
                             opening |-> {Opened(Onto[p], Now)}])

StartAnnotate(a, p) ==
    /\ Loads(p)
    /\ IsOpen(p)
    /\ Issues(a, "annotate", Appending(p, <<Comment(Now, HeadOf(p))>>))

(* Answering where the events live, on the commit of revision one.         *)
StartReplyOnFirst(a, p, n) ==
    /\ Loads(p)
    /\ IsOpen(p)
    /\ Carries(p, n)
    /\ Issues(a, "reply", [step |-> "note", commit |-> FirstOf(p),
                           lines |-> <<Reply(Now, n)>>])

StartReply(a, p, n) ==
    /\ Loads(p)
    /\ IsOpen(p)
    /\ Carries(p, n)
    /\ Issues(a, "reply", Appending(p, <<Reply(Now, n)>>))

StartResolve(a, p, n) ==
    /\ Loads(p)
    /\ IsOpen(p)
    /\ Carries(p, n)
    /\ Issues(a, "resolve", Appending(p, <<Resolve(n)>>))

StartDispatch(a, p) ==
    /\ Loads(p)
    /\ IsOpen(p)
    /\ Issues(a, "dispatch", Appending(p, <<Ask(HeadOf(p), Now)>>))

StartReport(a, p, phase) ==
    /\ Loads(p)
    /\ IsOpen(p)
    /\ Issues(a, "report", Appending(p, <<WorkLine(phase, HeadOf(p), Now)>>))

(* A description is chunks and then rationale, written without asking the  *)
(* aggregate; a refusal halfway leaves what came before it.                *)
StartDescribe(a, p) ==
    /\ Loads(p)
    /\ \E lines \in {<<Chunk(Now)>>, <<Rationale(Now, HeadOf(p))>>,
                     <<Chunk(Now), Rationale(Now, HeadOf(p))>>} :
          Issues(a, "describe", Appending(p, lines))

(* What already answered on this revision is not asked twice.              *)
StartCheck(a, p) ==
    LET Unanswered(k) == ~\E ok \in BOOLEAN : Answered(p, k, ok)
        todo == {i \in DOMAIN CheckOrder : Unanswered(CheckOrder[i])}
    IN  /\ Loads(p)
        /\ todo # {}
        /\ Issues(a, "check", [step |-> "check", commit |-> HeadOf(p), todo |-> todo])

(* Numbering the new revision as if the first one were zero.               *)
StartReviseFromZero(a, p, c) ==
    /\ <<a, p>> \in MayRevise
    /\ c \in Attempts[p]
    /\ Loads(p)
    /\ IsOpen(p)
    /\ c \notin Revs(p)
    /\ Issues(a, "revise", [step |-> "ref", id |-> p, number |-> Len(refs[p]),
                            commit |-> c, opening |-> {}])

StartRevise(a, p, c) ==
    /\ <<a, p>> \in MayRevise
    /\ c \in Attempts[p]
    /\ Loads(p)
    /\ IsOpen(p)
    /\ c \notin Revs(p)
    /\ Issues(a, "revise", [step |-> "ref", id |-> p, number |-> Len(refs[p]) + 1,
                            commit |-> c, opening |-> {}])

StartAbandon(a, p) ==
    /\ Loads(p)
    /\ IsOpen(p)
    /\ Issues(a, "abandon", [step |-> "event", commit |-> FirstOf(p),
                             event |-> Abandoned(Now)])

(* The gate is asked once, here; the stack is what this reading shows of   *)
(* the other open proposals.                                               *)
StartLand(a, p, target) ==
    /\ Loads(p)
    /\ Gate(p)
    /\ AimsAt(p, target)
    /\ LET others == {q \in Ids : Known(q) /\ IsOpen(q)}
           stack  == {s \in Stacked : /\ s.target # target
                                      /\ \E q \in others : /\ s.first = FirstOf(q)
                                                           /\ AimsAt(q, s.target)}
       IN  Issues(a, "land",
                  [step |-> "tip", id |-> p, first |-> FirstOf(p), head |-> HeadOf(p),
                   target |-> target, tip |-> HeadOf(p), stack |-> stack, heir |-> {},
                   at |-> Now,
                   seen |-> {n \in 1..issued : \E r \in ToSet(notes[HeadOf(p)]) :
                                                  IsCommentOn(r, n)}])

StartSomething(a, p) ==
    \/ StartPropose(a, p)
    \/ StartAnnotate(a, p)
    \/ StartDispatch(a, p)
    \/ StartDescribe(a, p)
    \/ StartCheck(a, p)
    \/ StartAbandon(a, p)
    \/ \E n \in 1..issued : StartReply(a, p, n) \/ StartResolve(a, p, n)
    \/ \E phase \in Phases : StartReport(a, p, phase)
    \/ \E c \in Attempts[p] : StartRevise(a, p, c)
    \/ \E b \in Branches : StartLand(a, p, b)

-----------------------------------------------------------------------------
(* The writes, one git process each.                                       *)

At(a, step) == job[a].step = step
Goes(a, j)  == job' = [job EXCEPT ![a] = j]
Done(a)     == Goes(a, AtRest)

(* `update-ref` with no expected value: whoever writes number n last has   *)
(* it.                                                                     *)
Put(revs, n, c) == IF n <= Len(revs) THEN [revs EXCEPT ![n] = c] ELSE Append(revs, c)

WriteRef(a) ==
    LET j == job[a]
    IN  /\ At(a, "ref")
        /\ refs' = [refs EXCEPT ![j.id] = Put(@, j.number, j.commit)]
        /\ IF j.opening = {} THEN Done(a)
           ELSE \E e \in j.opening :
                   Goes(a, [step |-> "event", commit |-> j.commit, event |-> e])
        /\ UNCHANGED <<events, notes, branch, checkout, issued, landings>>

WriteEvent(a) ==
    LET j == job[a]
    IN  /\ At(a, "event")
        /\ events' = [events EXCEPT ![j.commit] = Append(@, j.event)]
        /\ Done(a)
        /\ UNCHANGED <<refs, notes, branch, checkout, issued, landings>>

(* Coming back for another line after the last one.                        *)
WriteNoteAndStay(a) ==
    LET j == job[a]
    IN  /\ At(a, "note")
        /\ notes' = [notes EXCEPT ![j.commit] = Append(@, Head(j.lines))]
        /\ Goes(a, [j EXCEPT !.lines = Tail(@)])
        /\ UNCHANGED <<refs, events, branch, checkout, issued, landings>>

WriteNote(a) ==
    LET j == job[a]
    IN  /\ At(a, "note")
        /\ notes' = [notes EXCEPT ![j.commit] = Append(@, Head(j.lines))]
        /\ IF Len(j.lines) = 1 THEN Done(a) ELSE Goes(a, [j EXCEPT !.lines = Tail(@)])
        /\ UNCHANGED <<refs, events, branch, checkout, issued, landings>>

(* One declared check runs in a worktree of the head as it was loaded, and *)
(* its verdict is written before the next one starts.                      *)
RunCheck(a) ==
    LET j == job[a]
    IN  /\ At(a, "check")
        /\ \E i \in j.todo, passed \in BOOLEAN :
              /\ \A k \in j.todo : i <= k
              /\ notes' = [notes EXCEPT ![j.commit] =
                              Append(@, Verdict(CheckOrder[i], passed, j.commit))]
              /\ IF j.todo = {i} THEN Done(a) ELSE Goes(a, [j EXCEPT !.todo = @ \ {i}])
        /\ UNCHANGED <<refs, events, branch, checkout, issued, landings>>

(* Killed by a signal: not a verdict, nothing recorded, the command fails. *)
KillCheck(a) ==
    /\ At(a, "check")
    /\ Done(a)
    /\ UNCHANGED <<log, branch, checkout, issued, landings>>

(* Landing, step by step: where the target is and whether the head is a    *)
(* fast-forward of it,                                                     *)
ReadTip(a) ==
    LET j == job[a]
    IN  /\ At(a, "tip")
        /\ IF InHistory(branch[j.target], j.head)
           THEN Goes(a, [j EXCEPT !.step = "where", !.tip = branch[j.target]])
           ELSE Done(a)
        /\ UNCHANGED <<log, branch, checkout, issued, landings>>

(* whether the target is the branch the working copy is on,                *)
ReadCheckout(a) ==
    LET j == job[a]
    IN  /\ At(a, "where")
        /\ Goes(a, [j EXCEPT !.step = IF checkout = j.target THEN "fast-forward"
                                                             ELSE "swap"])
        /\ UNCHANGED <<log, branch, checkout, issued, landings>>

(* either `merge --ff-only`, which moves whatever branch is checked out    *)
(* when it runs, succeeds without moving one that is already past the head,*)
(* and may refuse because of the working tree,                             *)
FastForward(a) ==
    LET j == job[a]
        here == branch[checkout]
    IN  /\ At(a, "fast-forward")
        /\ \/ /\ InHistory(here, j.head)
              /\ branch' = [branch EXCEPT ![checkout] = j.head]
              /\ Goes(a, [j EXCEPT !.step = "landed"])
           \/ /\ InHistory(j.head, here)
              /\ UNCHANGED branch
              /\ Goes(a, [j EXCEPT !.step = "landed"])
           \/ UNCHANGED branch /\ Done(a)
        /\ UNCHANGED <<log, checkout, issued, landings>>

(* A plain update of the ref, which overwrites whoever moved it,           *)
UpdateWithoutCompare(a) ==
    LET j == job[a]
    IN  /\ At(a, "swap")
        /\ branch' = [branch EXCEPT ![j.target] = j.head]
        /\ Goes(a, [j EXCEPT !.step = "landed"])
        /\ UNCHANGED <<log, checkout, issued, landings>>

(* a compare-and-swap whose refusal nobody looks at,                       *)
SwapIgnoringTheAnswer(a) ==
    LET j == job[a]
    IN  /\ At(a, "swap")
        /\ branch' = IF branch[j.target] = j.tip
                     THEN [branch EXCEPT ![j.target] = j.head] ELSE branch
        /\ Goes(a, [j EXCEPT !.step = "landed"])
        /\ UNCHANGED <<log, checkout, issued, landings>>

(* or a compare-and-swap of the ref, whose loser is told,                  *)
CompareAndSwap(a) ==
    LET j == job[a]
    IN  /\ At(a, "swap")
        /\ IF branch[j.target] = j.tip
           THEN /\ branch' = [branch EXCEPT ![j.target] = j.head]
                /\ Goes(a, [j EXCEPT !.step = "landed"])
           ELSE UNCHANGED branch /\ Done(a)
        /\ UNCHANGED <<log, checkout, issued, landings>>

(* then the event,                                                         *)
WriteLanded(a) ==
    LET j == job[a]
    IN  /\ At(a, "landed")
        /\ events' = [events EXCEPT ![j.first] = Append(@, Landed(j.at))]
        /\ landings' = landings \cup {[id |-> j.id, head |-> j.head,
                                       target |-> j.target, seen |-> j.seen,
                                       stack |-> j.stack]}
        /\ Goes(a, [j EXCEPT !.step = "follow"])
        /\ UNCHANGED <<refs, notes, branch, checkout, issued>>

(* Comparing the branches of the stack with where the target was.          *)
FollowOldTip(a) ==
    LET j == job[a]
    IN  /\ At(a, "follow")
        /\ \/ \E s \in j.stack :
                 Goes(a, [j EXCEPT !.stack = @ \ {s},
                                   !.heir = IF branch[s.target] = j.tip THEN {s} ELSE {},
                                   !.step = IF branch[s.target] = j.tip
                                            THEN "retarget" ELSE "follow"])
           \/ j.stack = {} /\ Done(a)
        /\ UNCHANGED <<log, branch, checkout, issued, landings>>

(* then, for every proposal of the stack, whether its branch sits exactly  *)
(* on this head,                                                           *)
Follow(a) ==
    LET j == job[a]
    IN  /\ At(a, "follow")
        /\ \/ \E s \in j.stack :
                 Goes(a, [j EXCEPT !.stack = @ \ {s},
                                   !.heir = IF branch[s.target] = j.head THEN {s} ELSE {},
                                   !.step = IF branch[s.target] = j.head
                                            THEN "retarget" ELSE "follow"])
           \/ j.stack = {} /\ Done(a)
        /\ UNCHANGED <<log, branch, checkout, issued, landings>>

(* and its retarget if it does.                                            *)
WriteRetarget(a) ==
    LET j == job[a]
    IN  /\ At(a, "retarget")
        /\ \E s \in j.heir :
              events' = [events EXCEPT ![s.first] = Append(@, Retargeted(j.target, j.at))]
        /\ Goes(a, [j EXCEPT !.step = "follow", !.heir = {}])
        /\ UNCHANGED <<refs, notes, branch, checkout, issued, landings>>

LandSteps(a) ==
    \/ ReadTip(a) \/ ReadCheckout(a) \/ FastForward(a) \/ CompareAndSwap(a)
    \/ WriteLanded(a) \/ Follow(a) \/ WriteRetarget(a)

Continue(a) ==
    \/ WriteRef(a) \/ WriteEvent(a) \/ WriteNote(a) \/ RunCheck(a) \/ KillCheck(a)
    \/ LandSteps(a)

(* The process dies between two writes; what is written stays.             *)
Crash(a) ==
    /\ "crash" \in Ops
    /\ job[a] # AtRest
    /\ Done(a)
    /\ UNCHANGED <<log, branch, checkout, issued, landings>>

-----------------------------------------------------------------------------
(* What happens to the repository outside this tool.                       *)

(* A commit on a branch, or a push to it: forward only.                    *)
Advance(b, c) ==
    /\ b \in Pushed
    /\ issued < MaxCommands
    /\ c # branch[b]
    /\ InHistory(branch[b], c)
    /\ branch' = [branch EXCEPT ![b] = c]
    /\ issued' = Now
    /\ UNCHANGED <<log, checkout, job, landings>>

Checkout(b) ==
    /\ "checkout" \in Ops
    /\ issued < MaxCommands
    /\ b # checkout
    /\ checkout' = b
    /\ issued' = Now
    /\ UNCHANGED <<log, branch, job, landings>>

Next ==
    \/ \E a \in Actors :
          \/ /\ job[a] = AtRest
             /\ issued < MaxCommands
             /\ \E p \in Ids : StartSomething(a, p)
          \/ Continue(a)
          \/ Crash(a)
    \/ \E b \in Branches :
          \/ \E c \in Commits : Advance(b, c)
          \/ Checkout(b)

Spec == Init /\ [][Next]_vars

-----------------------------------------------------------------------------
(* Properties.                                                             *)

(* A log that reads keeps reading: whatever the commands of several actors *)
(* write on top of what each of them read earlier, every answer still      *)
(* names a comment folded before it, every line about code is about a      *)
(* revision of the proposal, and no commit becomes two of its revisions.   *)
(* reply.rs, annotate.rs and revise.rs refuse lines that would not fold so *)
(* that they never reach the log.                                          *)
LogReads ==
    \A p \in Ids : Known(p) =>
        /\ \A i, j \in DOMAIN refs[p] : refs[p][i] = refs[p][j] => i = j
        /\ AnswersAreAnchored(p)
        /\ CodeLinesAreAnchored(p)

(* Nothing is edited and nothing is deleted (store.rs): a commit recorded  *)
(* as revision n of a proposal stays its revision n.                       *)
NoRevisionIsLost ==
    [][\A p \in Ids : \A n \in DOMAIN refs[p] :
          n \in DOMAIN refs'[p] /\ refs'[p][n] = refs[p][n]]_vars

(* No command and no race between commands takes commits off a branch: a   *)
(* landing is a fast-forward or it does not happen (store.rs, `land`).     *)
BranchesOnlyAdvance == [][\A b \in Branches : InHistory(branch[b], branch'[b])]_vars

(* Every landed event tells the truth about the target branch: the head    *)
(* that was read when the gate opened is on it, then and ever after.       *)
LandedIsOnTarget == \A l \in landings : InHistory(l.head, branch[l.target])

(* A note that was on the head before a landing read the log does not go   *)
(* through the gate unanswered, however long the landing takes.            *)
LandingAnswersWhatItSaw ==
    \A l \in landings : \A n \in l.seen : Resolved(l.id, n)

(* The guards of the commands are what the fold of ReviewLog answers.      *)
GuardsAreTheFold ==
    \A p \in Ids : Known(p) =>
        LET r == Rebuild(refs[p], events, notes)
        IN  /\ r.ok = Reads(p)
            /\ r.ok => /\ (r.state = "open") = IsOpen(p)
                       /\ AimsAt(p, r.target)
                       /\ OpenComments(r) = Blocking(p)
                       /\ Landable(r, Required) = Gate(p)
                       /\ \A k \in ToSet(CheckOrder), ok \in BOOLEAN :
                             Answered(p, k, ok) <=>
                                 \E v \in Checks(r) : v.name = k /\ v.passed = ok

(* Whatever was stacked on a proposal that landed is told where it lands   *)
(* now (land.rs): once the landing is over, no open proposal its reading   *)
(* showed still aims at a branch that sits exactly on the landed head.     *)
(* A branch somebody else pushes to may come to sit there later, so those  *)
(* are left out.  Where two are stacked on one, rival landings of the one  *)
(* can move the branch before the other is told (RivalsApart of the proofs *)
(* excludes them).                                                         *)
StackFollows ==
    \A l \in landings : \A s \in l.stack : \A q \in Ids :
        (/\ Known(q) /\ IsOpen(q) /\ FirstOf(q) = s.first
         /\ s.target \notin Pushed
         /\ branch[s.target] = l.head
         /\ \A a \in Actors : job[a].step \notin LandStep)
        => ~AimsAt(q, s.target)
=============================================================================
