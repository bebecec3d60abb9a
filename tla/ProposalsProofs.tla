--------------------------- MODULE ProposalsProofs ---------------------------
(***************************************************************************)
(* What a process holds and the log stays well formed, for every           *)
(* repository, every number of processes and every number of commands.     *)
(* Whatever races with a landing, no branch ever loses a commit; and as    *)
(* long as nobody switches branches under it, every landed event is true.  *)
(* Revisions are kept, gates are not taken back and the log keeps reading  *)
(* as long as one process at a time revises a proposal; in every state     *)
(* what a command asks of the log is what folding it would have answered;  *)
(* and what is stacked on a landed head is told, as long as two landings   *)
(* of one proposal keep apart.                                             *)
(***************************************************************************)
EXTENDS Proposals, ReviewLogProofs, SequenceTheorems, TLAPS

-----------------------------------------------------------------------------
(* Jobs and records.                                                       *)

(* The last revision of a proposal that has one is a commit.               *)
LEMMA HeadIsCommit ==
    ASSUME TypeOK, NEW p \in Ids, Known(p)
    PROVE  HeadOf(p) \in Commits /\ FirstOf(p) \in Commits
BY DEF TypeOK, Known, HeadOf, FirstOf

(* Writing a ref leaves a list of commits.                                 *)
LEMMA PutType ==
    ASSUME NEW revs \in Seq(Commits), NEW n \in Nat \ {0}, NEW c \in Commits
    PROVE  Put(revs, n, c) \in Seq(Commits)
<1>1. CASE n <= Len(revs)
  BY <1>1 DEF Put
<1>2. CASE ~(n <= Len(revs))
  BY <1>2 DEF Put
<1>. QED  BY <1>1, <1>2

(* A command that starts leaves a well-formed job and nothing else.        *)
LEMMA IssuesType ==
    ASSUME TypeOK, NEW a \in Actors, NEW op, NEW j \in Job, Issues(a, op, j)
    PROVE  TypeOK'
BY DEF TypeOK, Issues, Now, log

(* An actor that only goes on with its job keeps the types.                *)
LEMMA GoesType ==
    ASSUME TypeOK, NEW a \in Actors, NEW j \in Job, Goes(a, j)
    PROVE  job' \in [Actors -> Job]
BY DEF TypeOK, Goes

(* What a command appends is a record.                                     *)
LEMMA RecordTypes ==
    ASSUME NEW n \in Nat, NEW m \in Nat, NEW c \in Commits, NEW phase \in Phases
    PROVE  /\ Comment(n, c) \in Record
           /\ Rationale(n, c) \in Record
           /\ Reply(n, m) \in Record
           /\ Resolve(m) \in Record
           /\ Chunk(n) \in Record
           /\ WorkLine(phase, c, n) \in Record
           /\ Ask(c, n) \in Record
           /\ \A k \in ToSet(CheckOrder), ok \in BOOLEAN : Verdict(k, ok, c) \in Record
BY DEF Record, Comment, Rationale, Reply, Resolve, Chunk, WorkLine, Ask, Verdict

LEMMA AppendingType ==
    ASSUME TypeOK, NEW p \in Ids, Known(p), NEW lines \in Seq(Record) \ {<<>>}
    PROVE  Appending(p, lines) \in Job
BY HeadIsCommit DEF Appending, Job

(* Starting any command.                                                   *)
LEMMA StartType ==
    ASSUME TypeOK, NEW a \in Actors, NEW p \in Ids, StartSomething(a, p)
    PROVE  TypeOK'
<1>. Now \in Nat /\ issued \in Nat
  BY DEF TypeOK, Now
<1>1. ASSUME StartPropose(a, p)  PROVE TypeOK'
  <2>. DEFINE j == [step |-> "ref", id |-> p, number |-> 1, commit |-> FirstCommit[p],
                    opening |-> {Opened(Onto[p], Now)}]
  <2>1. Opened(Onto[p], Now) \in Event
    BY ProposalsAssumption DEF Opened, Event
  <2>2. j \in Job
    BY <2>1, ProposalsAssumption DEF Job
  <2>. QED  BY <1>1, <2>2, IssuesType DEF StartPropose
<1>2. ASSUME StartAnnotate(a, p)  PROVE TypeOK'
  <2>1. Known(p)
    BY <1>2 DEF StartAnnotate, Loads
  <2>2. <<Comment(Now, HeadOf(p))>> \in Seq(Record) \ {<<>>}
    BY <2>1, HeadIsCommit DEF Record, Comment
  <2>. QED  BY <1>2, <2>1, <2>2, AppendingType, IssuesType DEF StartAnnotate
<1>3. ASSUME StartDispatch(a, p)  PROVE TypeOK'
  <2>1. Known(p)
    BY <1>3 DEF StartDispatch, Loads
  <2>2. <<Ask(HeadOf(p), Now)>> \in Seq(Record) \ {<<>>}
    BY <2>1, HeadIsCommit DEF Record, Ask
  <2>. QED  BY <1>3, <2>1, <2>2, AppendingType, IssuesType DEF StartDispatch
<1>4. ASSUME StartDescribe(a, p)  PROVE TypeOK'
  <2>1. Known(p)
    BY <1>4 DEF StartDescribe, Loads
  <2>2. Chunk(Now) \in Record /\ Rationale(Now, HeadOf(p)) \in Record
    BY <2>1, HeadIsCommit DEF Record, Chunk, Rationale
  <2>3. /\ <<Chunk(Now)>> \in Seq(Record) \ {<<>>}
        /\ <<Rationale(Now, HeadOf(p))>> \in Seq(Record) \ {<<>>}
        /\ <<Chunk(Now), Rationale(Now, HeadOf(p))>> \in Seq(Record) \ {<<>>}
    BY <2>2
  <2>. QED  BY <1>4, <2>1, <2>3, AppendingType, IssuesType DEF StartDescribe
<1>5. ASSUME StartCheck(a, p)  PROVE TypeOK'
  <2>. DEFINE Unanswered(k) == ~\E ok \in BOOLEAN : Answered(p, k, ok)
              todo == {i \in DOMAIN CheckOrder : Unanswered(CheckOrder[i])}
              j == [step |-> "check", commit |-> HeadOf(p), todo |-> todo]
  <2>1. Known(p) /\ Issues(a, "check", j)
    BY <1>5 DEF StartCheck, Loads
  <2>2. todo \in SUBSET DOMAIN CheckOrder
    OBVIOUS
  <2>. HIDE DEF todo
  <2>3. j \in Job
    BY <2>1, <2>2, HeadIsCommit DEF Job
  <2>. QED  BY <2>1, <2>3, IssuesType
<1>6. ASSUME StartAbandon(a, p)  PROVE TypeOK'
  <2>. DEFINE j == [step |-> "event", commit |-> FirstOf(p), event |-> Abandoned(Now)]
  <2>1. Known(p) /\ Issues(a, "abandon", j)
    BY <1>6 DEF StartAbandon, Loads
  <2>2. j \in Job
    BY <2>1, HeadIsCommit DEF Job, Event, Abandoned
  <2>. QED  BY <2>1, <2>2, IssuesType
<1>7. ASSUME NEW n \in 1..issued, StartReply(a, p, n)  PROVE TypeOK'
  <2>1. Known(p)
    BY <1>7 DEF StartReply, Loads
  <2>2. <<Reply(Now, n)>> \in Seq(Record) \ {<<>>}
    BY DEF Record, Reply
  <2>. QED  BY <1>7, <2>1, <2>2, AppendingType, IssuesType DEF StartReply
<1>8. ASSUME NEW n \in 1..issued, StartResolve(a, p, n)  PROVE TypeOK'
  <2>1. Known(p)
    BY <1>8 DEF StartResolve, Loads
  <2>2. <<Resolve(n)>> \in Seq(Record) \ {<<>>}
    BY DEF Record, Resolve
  <2>. QED  BY <1>8, <2>1, <2>2, AppendingType, IssuesType DEF StartResolve
<1>9. ASSUME NEW phase \in Phases, StartReport(a, p, phase)  PROVE TypeOK'
  <2>1. Known(p)
    BY <1>9 DEF StartReport, Loads
  <2>2. <<WorkLine(phase, HeadOf(p), Now)>> \in Seq(Record) \ {<<>>}
    BY <2>1, HeadIsCommit DEF Record, WorkLine
  <2>. QED  BY <1>9, <2>1, <2>2, AppendingType, IssuesType DEF StartReport
<1>10. ASSUME NEW c \in Attempts[p], StartRevise(a, p, c)  PROVE TypeOK'
  <2>. DEFINE j == [step |-> "ref", id |-> p, number |-> Len(refs[p]) + 1,
                    commit |-> c, opening |-> {}]
  <2>1. Issues(a, "revise", j)
    BY <1>10 DEF StartRevise
  <2>2. c \in Commits /\ Len(refs[p]) + 1 \in Nat \ {0}
    BY ProposalsAssumption DEF TypeOK
  <2>3. j \in Job
    BY <2>2 DEF Job
  <2>. QED  BY <2>1, <2>3, IssuesType
<1>11. ASSUME NEW b \in Branches, StartLand(a, p, b)  PROVE TypeOK'
  <2>. DEFINE others == {q \in Ids : Known(q) /\ IsOpen(q)}
              stack  == {s \in Stacked : /\ s.target # b
                                         /\ \E q \in others : /\ s.first = FirstOf(q)
                                                              /\ AimsAt(q, s.target)}
              seen == {n \in 1..issued : \E r \in ToSet(notes[HeadOf(p)]) :
                                                  IsCommentOn(r, n)}
              j == [step |-> "tip", id |-> p, first |-> FirstOf(p), head |-> HeadOf(p),
                    target |-> b, tip |-> HeadOf(p), stack |-> stack, heir |-> {},
                    at |-> Now, seen |-> seen]
  <2>1. Known(p) /\ Issues(a, "land", j)
    BY <1>11 DEF StartLand, Loads
  <2>2. stack \in SUBSET Stacked /\ seen \in SUBSET Nat
    OBVIOUS
  <2>. HIDE DEF stack, seen
  <2>3. j \in Job
    BY <2>1, <2>2, HeadIsCommit DEF Job, LandJob, LandStep
  <2>. QED  BY <2>1, <2>3, IssuesType
<1>. QED
  BY <1>1, <1>2, <1>3, <1>4, <1>5, <1>6, <1>7, <1>8, <1>9, <1>10, <1>11
     DEF StartSomething

(* What the job of an actor holds, by the step it is at.                   *)
LEMMA JobFields ==
    ASSUME TypeOK, NEW a \in Actors
    PROVE  /\ At(a, "ref") => /\ job[a].id \in Ids
                              /\ job[a].number \in Nat \ {0}
                              /\ job[a].commit \in Commits
                              /\ job[a].opening \in SUBSET Event
           /\ At(a, "event") => job[a].commit \in Commits /\ job[a].event \in Event
           /\ At(a, "note") =>
                 job[a] \in [step : {"note"}, commit : Commits, lines : Seq(Record) \ {<<>>}]
           /\ At(a, "check") =>
                 job[a] \in [step : {"check"}, commit : Commits, todo : SUBSET DOMAIN CheckOrder]
           /\ job[a].step \in LandStep => job[a] \in LandJob
<1>. job[a] \in Job
  BY DEF TypeOK
<1>1. At(a, "ref") => /\ job[a].id \in Ids
                      /\ job[a].number \in Nat \ {0}
                      /\ job[a].commit \in Commits
                      /\ job[a].opening \in SUBSET Event
  BY DEF Job, LandJob, At, AtRest, LandStep
<1>2. At(a, "event") => job[a].commit \in Commits /\ job[a].event \in Event
  BY DEF Job, LandJob, At, AtRest, LandStep
<1>3. At(a, "note") =>
         job[a] \in [step : {"note"}, commit : Commits, lines : Seq(Record) \ {<<>>}]
  BY DEF Job, LandJob, At, AtRest, LandStep
<1>4. At(a, "check") =>
         job[a] \in [step : {"check"}, commit : Commits, todo : SUBSET DOMAIN CheckOrder]
  BY DEF Job, LandJob, At, AtRest, LandStep
<1>5. job[a].step \in LandStep => job[a] \in LandJob
  BY DEF Job, LandJob, At, AtRest, LandStep
<1>. QED  BY <1>1, <1>2, <1>3, <1>4, <1>5

(* A list that is neither empty nor a single line has lines left.          *)
LEMMA LinesLeft ==
    ASSUME NEW S, NEW s \in Seq(S) \ {<<>>}, Len(s) # 1
    PROVE  Tail(s) \in Seq(S) \ {<<>>}
<1>1. Tail(s) \in Seq(S) /\ Len(Tail(s)) = Len(s) - 1
  BY HeadTailProperties
<1>2. Len(s) \in Nat /\ Len(s) # 0
  BY EmptySeq
<1>3. Len(Tail(s)) # 0
  BY <1>1, <1>2
<1>4. Tail(s) # <<>>
  BY <1>3, EmptySeq, Zenon
<1>. QED  BY <1>1, <1>4

(* Writing to the log.                                                     *)
LEMMA WriteType ==
    ASSUME TypeOK, NEW a \in Actors,
           WriteRef(a) \/ WriteEvent(a) \/ WriteNote(a) \/ RunCheck(a) \/ KillCheck(a)
    PROVE  TypeOK'
<1>. AtRest \in Job
  BY DEF Job
<1>1. ASSUME WriteRef(a)  PROVE TypeOK'
  <2>1. refs' \in [Ids -> Seq(Commits)]
    <3>1. Put(refs[job[a].id], job[a].number, job[a].commit) \in Seq(Commits)
      BY <1>1, JobFields, PutType DEF WriteRef, TypeOK
    <3>. QED  BY <1>1, <3>1, JobFields DEF WriteRef, TypeOK
  <2>2. job' \in [Actors -> Job]
    <3>1. CASE job[a].opening = {}
      BY <1>1, <3>1, GoesType DEF WriteRef, Done
    <3>2. CASE job[a].opening # {}
      <4>1. PICK e \in job[a].opening :
               Goes(a, [step |-> "event", commit |-> job[a].commit, event |-> e])
        BY <1>1, <3>2 DEF WriteRef
      <4>2. [step |-> "event", commit |-> job[a].commit, event |-> e] \in Job
        BY <1>1, <4>1, JobFields DEF WriteRef, Job
      <4>. QED  BY <4>1, <4>2, GoesType
    <3>. QED  BY <3>1, <3>2
  <2>. QED  BY <1>1, <2>1, <2>2 DEF WriteRef, TypeOK
<1>2. ASSUME WriteEvent(a)  PROVE TypeOK'
  <2>1. events' \in [Commits -> Seq(Event)]
    BY <1>2, JobFields DEF WriteEvent, TypeOK
  <2>2. job' \in [Actors -> Job]
    BY <1>2, GoesType DEF WriteEvent, Done
  <2>. QED  BY <1>2, <2>1, <2>2 DEF WriteEvent, TypeOK
<1>3. ASSUME WriteNote(a)  PROVE TypeOK'
  <2>1. notes' \in [Commits -> Seq(Record)]
    BY <1>3, JobFields DEF WriteNote, TypeOK
  <2>2. job' \in [Actors -> Job]
    <3>1. CASE Len(job[a].lines) = 1
      BY <1>3, <3>1, GoesType DEF WriteNote, Done
    <3>2. CASE Len(job[a].lines) # 1
      <4>1. Tail(job[a].lines) \in Seq(Record) \ {<<>>}
        BY <1>3, <3>2, JobFields, LinesLeft DEF WriteNote
      <4>2. [job[a] EXCEPT !.lines = Tail(@)] \in Job
        <5>1. job[a] \in [step : {"note"}, commit : Commits, lines : Seq(Record) \ {<<>>}]
          BY <1>3, JobFields DEF WriteNote
        <5>2. [job[a] EXCEPT !.lines = Tail(job[a].lines)]
                 \in [step : {"note"}, commit : Commits, lines : Seq(Record) \ {<<>>}]
          BY <4>1, <5>1
        <5>. QED  BY <5>2 DEF Job
      <4>. QED  BY <1>3, <3>2, <4>2, GoesType DEF WriteNote
    <3>. QED  BY <3>1, <3>2
  <2>. QED  BY <1>3, <2>1, <2>2 DEF WriteNote, TypeOK
<1>4. ASSUME RunCheck(a)  PROVE TypeOK'
  <2>. DEFINE j == job[a]
  <2>1. PICK i \in j.todo, passed \in BOOLEAN :
           /\ notes' = [notes EXCEPT ![j.commit] =
                              Append(@, Verdict(CheckOrder[i], passed, j.commit))]
           /\ IF j.todo = {i} THEN Done(a) ELSE Goes(a, [j EXCEPT !.todo = @ \ {i}])
    BY <1>4 DEF RunCheck
  <2>2. j.commit \in Commits /\ j.todo \subseteq DOMAIN CheckOrder
    BY <1>4, JobFields DEF RunCheck
  <2>3. Verdict(CheckOrder[i], passed, j.commit) \in Record
    BY <2>1, <2>2 DEF Verdict, Record, ToSet
  <2>4. notes' \in [Commits -> Seq(Record)]
    BY <2>1, <2>2, <2>3 DEF TypeOK
  <2>5. job' \in [Actors -> Job]
    <3>1. CASE j.todo = {i}
      BY <2>1, <3>1, GoesType DEF Done
    <3>2. CASE j.todo # {i}
      <4>1. [j EXCEPT !.todo = @ \ {i}] \in Job
        <5>1. j \in [step : {"check"}, commit : Commits, todo : SUBSET DOMAIN CheckOrder]
          BY <1>4, JobFields DEF RunCheck
        <5>2. [j EXCEPT !.todo = j.todo \ {i}]
                 \in [step : {"check"}, commit : Commits, todo : SUBSET DOMAIN CheckOrder]
          BY <5>1
        <5>. QED  BY <5>2 DEF Job
      <4>. QED  BY <2>1, <3>2, <4>1, GoesType
    <3>. QED  BY <3>1, <3>2
  <2>. QED  BY <1>4, <2>4, <2>5 DEF RunCheck, TypeOK
<1>5. ASSUME KillCheck(a)  PROVE TypeOK'
  BY <1>5, GoesType DEF KillCheck, Done, TypeOK, log
<1>. QED
  BY <1>1, <1>2, <1>3, <1>4, <1>5

(* The steps of a landing.                                                 *)
LEMMA LandType ==
    ASSUME TypeOK, NEW a \in Actors, LandSteps(a)
    PROVE  TypeOK'
<1>. DEFINE j == job[a]
<1>1. j \in LandJob
  BY JobFields DEF LandSteps, ReadTip, ReadCheckout, FastForward, CompareAndSwap,
                   WriteLanded, Follow, WriteRetarget, At, LandStep
<1>2. /\ \A step \in LandStep : [j EXCEPT !.step = step] \in Job
      /\ \A tip \in Commits : [j EXCEPT !.step = "where", !.tip = tip] \in Job
      /\ [j EXCEPT !.step = "follow", !.heir = {}] \in Job
      /\ \A s \in j.stack : \A heir \in {{s}, {}}, step \in LandStep :
            [j EXCEPT !.stack = j.stack \ {s}, !.heir = heir, !.step = step] \in Job
  BY <1>1 DEF LandJob, Job, LandStep
<1>3. /\ AtRest \in Job
      /\ {"where", "fast-forward", "swap", "landed", "follow", "retarget"} \subseteq LandStep
      /\ j.head \in Commits /\ j.target \in Branches /\ j.first \in Commits /\ j.at \in Nat
      /\ branch[j.target] \in Commits
      /\ j.heir \subseteq Stacked
  BY <1>1 DEF Job, LandStep, LandJob, TypeOK
<1>. HIDE DEF j
<1>4. ASSUME ReadTip(a)  PROVE TypeOK'
  <2>1. job' \in [Actors -> Job]
    BY <1>2, <1>3, <1>4, GoesType DEF ReadTip, Done, j
  <2>. QED  BY <1>4, <2>1 DEF ReadTip, TypeOK, log
<1>5. ASSUME ReadCheckout(a)  PROVE TypeOK'
  <2>1. job' \in [Actors -> Job]
    BY <1>2, <1>3, <1>5, GoesType DEF ReadCheckout, j
  <2>. QED  BY <1>5, <2>1 DEF ReadCheckout, TypeOK, log
<1>6. ASSUME FastForward(a)  PROVE TypeOK'
  <2>1. job' \in [Actors -> Job]
    BY <1>2, <1>3, <1>6, GoesType DEF FastForward, Done, j
  <2>2. branch' \in [Branches -> Commits]
    BY <1>3, <1>6 DEF FastForward, TypeOK, j
  <2>. QED  BY <1>6, <2>1, <2>2 DEF FastForward, TypeOK, log
<1>7. ASSUME CompareAndSwap(a)  PROVE TypeOK'
  <2>1. job' \in [Actors -> Job]
    BY <1>2, <1>3, <1>7, GoesType DEF CompareAndSwap, Done, j
  <2>2. branch' \in [Branches -> Commits]
    BY <1>3, <1>7 DEF CompareAndSwap, TypeOK, j
  <2>. QED  BY <1>7, <2>1, <2>2 DEF CompareAndSwap, TypeOK, log
<1>8. ASSUME WriteLanded(a)  PROVE TypeOK'
  <2>1. job' \in [Actors -> Job]
    BY <1>2, <1>3, <1>8, GoesType DEF WriteLanded, j
  <2>2. Landed(j.at) \in Event
    BY <1>3 DEF Landed, Event
  <2>3. events' \in [Commits -> Seq(Event)]
    BY <1>3, <1>8, <2>2 DEF WriteLanded, TypeOK, j
  <2>4. landings' \subseteq Landing
    <3>1. [id |-> j.id, head |-> j.head, target |-> j.target, seen |-> j.seen,
           stack |-> j.stack] \in Landing
      BY <1>1 DEF Landing, LandJob
    <3>. QED  BY <1>8, <3>1 DEF WriteLanded, TypeOK, j
  <2>. QED  BY <1>8, <2>1, <2>3, <2>4 DEF WriteLanded, TypeOK
<1>9. ASSUME Follow(a)  PROVE TypeOK'
  <2>1. job' \in [Actors -> Job]
    <3>1. CASE j.stack = {} /\ Done(a)
      BY <1>3, <3>1, GoesType DEF Done
    <3>2. ASSUME NEW s \in j.stack,
                 Goes(a, [j EXCEPT !.stack = @ \ {s},
                                   !.heir = IF branch[s.target] = j.head THEN {s} ELSE {},
                                   !.step = IF branch[s.target] = j.head
                                            THEN "retarget" ELSE "follow"])
          PROVE  job' \in [Actors -> Job]
      BY <1>2, <1>3, <3>2, GoesType
    <3>. QED  BY <1>9, <3>1, <3>2 DEF Follow, j
  <2>. QED  BY <1>9, <2>1 DEF Follow, TypeOK, log
<1>10. ASSUME WriteRetarget(a)  PROVE TypeOK'
  <2>1. job' \in [Actors -> Job]
    BY <1>2, <1>10, GoesType DEF WriteRetarget, j
  <2>2. PICK s \in j.heir :
           events' = [events EXCEPT ![s.first] = Append(@, Retargeted(j.target, j.at))]
    BY <1>10 DEF WriteRetarget, j
  <2>3. Retargeted(j.target, j.at) \in Event /\ s.first \in Commits
    BY <1>3 DEF Retargeted, Event, Stacked
  <2>4. events' \in [Commits -> Seq(Event)]
    BY <2>2, <2>3 DEF TypeOK
  <2>. QED  BY <1>10, <2>1, <2>4 DEF WriteRetarget, TypeOK
<1>. QED
  BY <1>4, <1>5, <1>6, <1>7, <1>8, <1>9, <1>10 DEF LandSteps

(* Every step keeps the types.                                             *)
LEMMA NextType ==
    ASSUME TypeOK, [Next]_vars
    PROVE  TypeOK'
<1>1. ASSUME NEW a \in Actors, NEW p \in Ids, StartSomething(a, p)  PROVE TypeOK'
  BY <1>1, StartType
<1>2. ASSUME NEW a \in Actors, Continue(a)  PROVE TypeOK'
  BY <1>2, WriteType, LandType DEF Continue
<1>3. ASSUME NEW a \in Actors, Crash(a)  PROVE TypeOK'
  <2>1. AtRest \in Job
    BY DEF Job
  <2>. QED  BY <1>3, <2>1, GoesType DEF Crash, Done, TypeOK, log
<1>4. ASSUME NEW b \in Branches, NEW c \in Commits, Advance(b, c)  PROVE TypeOK'
  BY <1>4 DEF Advance, TypeOK, Now, log
<1>5. ASSUME NEW b \in Branches, Checkout(b)  PROVE TypeOK'
  BY <1>5 DEF Checkout, TypeOK, Now, log
<1>6. ASSUME UNCHANGED vars  PROVE TypeOK'
  BY <1>6 DEF vars, TypeOK
<1>. QED
  BY <1>1, <1>2, <1>3, <1>4, <1>5, <1>6 DEF Next

(* A repository nothing happened in yet.                                   *)
LEMMA InitType == Init => TypeOK
<1>. SUFFICES ASSUME Init  PROVE TypeOK
  OBVIOUS
<1>1. refs \in [Ids -> Seq(Commits)]
  BY ProposalsAssumption DEF Init
<1>2. events \in [Commits -> Seq(Event)]
  <2>. DEFINE who(c) == CHOOSE p \in OpenAtStart : FirstCommit[p] = c
  <2>1. ASSUME NEW c \in Commits
        PROVE  (IF \E p \in OpenAtStart : FirstCommit[p] = c
                THEN <<Opened(Onto[who(c)], 0)>> ELSE <<>>) \in Seq(Event)
    <3>1. CASE \E p \in OpenAtStart : FirstCommit[p] = c
      <4>1. who(c) \in Ids
        BY <3>1, ProposalsAssumption
      <4>. HIDE DEF who
      <4>2. Opened(Onto[who(c)], 0) \in Event
        BY <4>1, ProposalsAssumption DEF Opened, Event
      <4>. QED  BY <3>1, <4>2
    <3>2. CASE ~\E p \in OpenAtStart : FirstCommit[p] = c
      BY <3>2
    <3>. QED  BY <3>1, <3>2
  <2>. QED  BY <2>1 DEF Init
<1>3. job \in [Actors -> Job]
  BY DEF Init, Job
<1>. QED
  BY <1>1, <1>2, <1>3, ProposalsAssumption DEF Init, TypeOK

-----------------------------------------------------------------------------
(* Where a step leaves the jobs.                                           *)

(* A started command has not looked yet.                                   *)
LEMMA StartsUnlooked ==
    ASSUME TypeOK, NEW a \in Actors, NEW p \in Ids, StartSomething(a, p)
    PROVE  /\ \A b \in Actors : b # a => job'[b] = job[b]
           /\ job'[a].step \in {"ref", "note", "check", "event", "tip"}
           /\ UNCHANGED <<log, branch, checkout, landings>>
BY DEF StartSomething, StartPropose, StartAnnotate, StartDispatch, StartDescribe,
       StartCheck, StartAbandon, StartReply, StartResolve, StartReport, StartRevise,
       StartLand, Issues, Appending, TypeOK

(* Only the actor that goes on has another job afterwards.                 *)
LEMMA OthersKeepTheirJob ==
    ASSUME TypeOK, NEW a \in Actors, Continue(a) \/ Crash(a)
    PROVE  \A b \in Actors : b # a => job'[b] = job[b]
BY DEF Continue, LandSteps, WriteRef, WriteEvent, WriteNote, RunCheck, KillCheck,
       ReadTip, ReadCheckout, FastForward, CompareAndSwap, WriteLanded, Follow,
       WriteRetarget, Crash, Goes, Done, TypeOK

(* Where each step of a landing leaves its actor.                          *)
LEMMA LandGoes ==
    ASSUME TypeOK, NEW a \in Actors, LandSteps(a), job'[a] # AtRest
    PROVE  /\ job[a] \in LandJob
           /\ \/ /\ ReadTip(a)
                 /\ job'[a].step = "where"
                 /\ job'[a].tip = branch[job[a].target]
                 /\ InHistory(branch[job[a].target], job[a].head)
                 /\ job'[a].head = job[a].head
                 /\ job'[a].target = job[a].target
              \/ /\ ReadCheckout(a)
                 /\ job'[a].step = IF checkout = job[a].target THEN "fast-forward" ELSE "swap"
                 /\ job'[a].tip = job[a].tip
                 /\ job'[a].head = job[a].head
                 /\ job'[a].target = job[a].target
              \/ /\ FastForward(a) \/ CompareAndSwap(a)
                 /\ job'[a].step = "landed"
                 /\ job'[a].head = job[a].head
                 /\ job'[a].target = job[a].target
              \/ /\ WriteLanded(a) \/ Follow(a) \/ WriteRetarget(a)
                 /\ job'[a].step \in {"follow", "retarget"}
<1>. DEFINE j == job[a]
<1>1. j \in LandJob
  BY JobFields DEF LandSteps, ReadTip, ReadCheckout, FastForward, CompareAndSwap,
                   WriteLanded, Follow, WriteRetarget, At, LandStep
<1>2. \A k : Goes(a, k) => job'[a] = k
  BY DEF Goes, TypeOK
<1>3. job[a] = j /\ ~Done(a)
  BY <1>2 DEF Done
<1>. HIDE DEF j
<1>4. CASE ReadTip(a)
  <2>. DEFINE k == [j EXCEPT !.step = "where", !.tip = branch[j.target]]
  <2>1. k.step = "where" /\ k.tip = branch[j.target] /\ k.head = j.head /\ k.target = j.target
    BY <1>1 DEF LandJob
  <2>2. Goes(a, k) /\ InHistory(branch[j.target], j.head)
    BY <1>3, <1>4 DEF ReadTip
  <2>. HIDE DEF k
  <2>. QED  BY <1>1, <1>2, <1>3, <1>4, <2>1, <2>2
<1>5. CASE ReadCheckout(a)
  <2>. DEFINE step == IF checkout = j.target THEN "fast-forward" ELSE "swap"
              k == [j EXCEPT !.step = step]
  <2>1. k.step = step /\ k.tip = j.tip /\ k.head = j.head /\ k.target = j.target
    BY <1>1 DEF LandJob
  <2>2. Goes(a, k)
    BY <1>3, <1>5 DEF ReadCheckout
  <2>. HIDE DEF k
  <2>. QED  BY <1>1, <1>2, <1>3, <1>5, <2>1, <2>2
<1>6. CASE FastForward(a) \/ CompareAndSwap(a)
  <2>. DEFINE k == [j EXCEPT !.step = "landed"]
  <2>1. k.step = "landed" /\ k.head = j.head /\ k.target = j.target
    BY <1>1 DEF LandJob
  <2>2. Goes(a, k)
    BY <1>3, <1>6 DEF FastForward, CompareAndSwap
  <2>. HIDE DEF k
  <2>. QED  BY <1>1, <1>2, <1>3, <1>6, <2>1, <2>2
<1>7. CASE WriteLanded(a)
  <2>. DEFINE k == [j EXCEPT !.step = "follow"]
  <2>1. k.step = "follow"
    BY <1>1 DEF LandJob
  <2>2. Goes(a, k)
    BY <1>3, <1>7 DEF WriteLanded
  <2>. HIDE DEF k
  <2>. QED  BY <1>1, <1>2, <1>3, <1>7, <2>1, <2>2
<1>8. CASE Follow(a)
  <2>1. PICK s \in j.stack :
           Goes(a, [j EXCEPT !.stack = @ \ {s},
                             !.heir = IF branch[s.target] = j.head THEN {s} ELSE {},
                             !.step = IF branch[s.target] = j.head
                                      THEN "retarget" ELSE "follow"])
    BY <1>3, <1>8 DEF Follow
  <2>. DEFINE heir == IF branch[s.target] = j.head THEN {s} ELSE {}
              step == IF branch[s.target] = j.head THEN "retarget" ELSE "follow"
              k == [j EXCEPT !.stack = j.stack \ {s}, !.heir = heir, !.step = step]
  <2>2. k.step \in {"follow", "retarget"}
    BY <1>1 DEF LandJob
  <2>3. Goes(a, k)
    BY <2>1
  <2>. HIDE DEF k
  <2>. QED  BY <1>1, <1>2, <1>3, <1>8, <2>2, <2>3
<1>9. CASE WriteRetarget(a)
  <2>. DEFINE k == [j EXCEPT !.step = "follow", !.heir = {}]
  <2>1. k.step = "follow"
    BY <1>1 DEF LandJob
  <2>2. Goes(a, k)
    BY <1>3, <1>9 DEF WriteRetarget
  <2>. HIDE DEF k
  <2>. QED  BY <1>1, <1>2, <1>3, <1>9, <2>1, <2>2
<1>. QED
  BY <1>4, <1>5, <1>6, <1>7, <1>8, <1>9 DEF LandSteps

(* Writing to the log is no part of a landing.                             *)
LEMMA WriteGoes ==
    ASSUME TypeOK, NEW a \in Actors,
           WriteRef(a) \/ WriteEvent(a) \/ WriteNote(a) \/ RunCheck(a) \/ KillCheck(a)
    PROVE  job'[a].step \in {"rest", "event", "note", "check"}
<1>1. \A k : Goes(a, k) => job'[a] = k
  BY DEF Goes, TypeOK
<1>2. Done(a) => job'[a].step = "rest"
  BY <1>1 DEF Done, AtRest
<1>3. CASE WriteRef(a)
  <2>1. CASE job[a].opening = {}
    BY <1>2, <1>3, <2>1 DEF WriteRef
  <2>2. CASE job[a].opening # {}
    <3>1. PICK e : Goes(a, [step |-> "event", commit |-> job[a].commit, event |-> e])
      BY <1>3, <2>2 DEF WriteRef
    <3>2. job'[a] = [step |-> "event", commit |-> job[a].commit, event |-> e]
      BY <1>1, <3>1
    <3>. QED  BY <3>2
  <2>. QED  BY <2>1, <2>2
<1>4. CASE WriteEvent(a) \/ KillCheck(a)
  BY <1>2, <1>4 DEF WriteEvent, KillCheck
<1>5. ASSUME WriteNote(a), ~Done(a)  PROVE job'[a].step = "note"
  <2>. DEFINE j == job[a]
  <2>1. j \in [step : {"note"}, commit : Commits, lines : Seq(Record) \ {<<>>}]
    BY <1>5, JobFields DEF WriteNote
  <2>2. Goes(a, [j EXCEPT !.lines = Tail(j.lines)])
    BY <1>5 DEF WriteNote
  <2>. HIDE DEF j
  <2>3. \A t : [j EXCEPT !.lines = t].step = "note"
    BY <2>1
  <2>. QED  BY <1>1, <2>2, <2>3
<1>6. ASSUME RunCheck(a), ~Done(a)  PROVE job'[a].step = "check"
  <2>. DEFINE j == job[a]
  <2>1. j \in [step : {"check"}, commit : Commits, todo : SUBSET DOMAIN CheckOrder]
    BY <1>6, JobFields DEF RunCheck
  <2>2. PICK i \in j.todo : Goes(a, [j EXCEPT !.todo = j.todo \ {i}])
    BY <1>6 DEF RunCheck
  <2>. HIDE DEF j
  <2>3. \A t : [j EXCEPT !.todo = t].step = "check"
    BY <2>1
  <2>. QED  BY <1>1, <2>2, <2>3
<1>. QED
  <2>1. CASE Done(a)
    BY <1>2, <2>1
  <2>2. CASE WriteNote(a) /\ ~Done(a)
    BY <1>5, <2>2
  <2>3. CASE RunCheck(a) /\ ~Done(a)
    BY <1>6, <2>3
  <2>. QED  BY <1>3, <1>4, <2>1, <2>2, <2>3

-----------------------------------------------------------------------------
(* Type correctness.                                                       *)

(* Whatever the commands write and in whatever order their writes meet, a  *)
(* ref holds commits, a note holds lines of the log, and a process holds   *)
(* the writes of one command: nothing a reader would fail to parse.        *)
THEOREM TypeCorrect == Spec => []TypeOK
<1>1. TypeOK /\ [Next]_vars => TypeOK'
  BY NextType
<1>. QED  BY InitType, <1>1, PTL DEF Spec

-----------------------------------------------------------------------------
(* Branches.                                                               *)

(* A landing that has looked at the target saw it under its head.          *)
TipUnderHead ==
    \A a \in Actors : job[a].step \in {"where", "fast-forward", "swap"} =>
        InHistory(job[a].tip, job[a].head)

LEMMA TipUnderHeadInit == Init => TipUnderHead
BY DEF Init, TipUnderHead, AtRest

LEMMA TipUnderHeadNext ==
    ASSUME TypeOK, TipUnderHead, [Next]_vars
    PROVE  TipUnderHead'
<1>1. ASSUME NEW a \in Actors, NEW p \in Ids, StartSomething(a, p)  PROVE TipUnderHead'
  BY <1>1, StartsUnlooked DEF TipUnderHead
<1>2. ASSUME NEW a \in Actors, Continue(a)  PROVE TipUnderHead'
  <2>1. job'[a].step \in {"where", "fast-forward", "swap"} =>
           InHistory(job'[a].tip, job'[a].head)
    <3>1. CASE WriteRef(a) \/ WriteEvent(a) \/ WriteNote(a) \/ RunCheck(a) \/ KillCheck(a)
      BY <3>1, WriteGoes
    <3>2. CASE LandSteps(a) /\ job'[a] # AtRest
      <4>1. job[a].step = "where" => InHistory(job[a].tip, job[a].head)
        BY DEF TipUnderHead
      <4>. QED  BY <3>2, <4>1, LandGoes DEF ReadCheckout, At
    <3>3. CASE job'[a] = AtRest
      BY <3>3 DEF AtRest
    <3>. QED  BY <1>2, <3>1, <3>2, <3>3 DEF Continue
  <2>. QED  BY <1>2, <2>1, OthersKeepTheirJob DEF TipUnderHead
<1>3. ASSUME NEW a \in Actors, Crash(a)  PROVE TipUnderHead'
  BY <1>3, OthersKeepTheirJob DEF TipUnderHead, Crash, Done, Goes, AtRest, TypeOK
<1>4. ASSUME UNCHANGED job  PROVE TipUnderHead'
  BY <1>4 DEF TipUnderHead
<1>. QED
  BY <1>1, <1>2, <1>3, <1>4 DEF Next, Advance, Checkout, vars

(* A step leaves every branch where it is or moves it forward.             *)
LEMMA StepAdvances ==
    ASSUME TypeOK, TipUnderHead, [Next]_vars
    PROVE  \A b \in Branches : InHistory(branch[b], branch'[b])
<1>. \A b \in Branches : branch[b] \in Commits /\ InHistory(branch[b], branch[b])
  BY ProposalsAssumption DEF TypeOK
<1>1. ASSUME UNCHANGED branch  PROVE \A b \in Branches : InHistory(branch[b], branch'[b])
  BY <1>1
<1>2. ASSUME NEW a \in Actors, FastForward(a)
      PROVE  \A b \in Branches : InHistory(branch[b], branch'[b])
  BY <1>2 DEF FastForward, TypeOK
<1>3. ASSUME NEW a \in Actors, CompareAndSwap(a)
      PROVE  \A b \in Branches : InHistory(branch[b], branch'[b])
  BY <1>3 DEF CompareAndSwap, At, TipUnderHead, TypeOK
<1>4. ASSUME NEW d \in Branches, NEW c \in Commits, Advance(d, c)
      PROVE  \A b \in Branches : InHistory(branch[b], branch'[b])
  BY <1>4 DEF Advance, TypeOK
<1>5. ASSUME NEW a \in Actors, Continue(a), ~FastForward(a), ~CompareAndSwap(a)
      PROVE  UNCHANGED branch
  BY <1>5 DEF Continue, LandSteps, WriteRef, WriteEvent, WriteNote, RunCheck, KillCheck,
         ReadTip, ReadCheckout, WriteLanded, Follow, WriteRetarget
<1>. QED
  BY <1>1, <1>2, <1>3, <1>4, <1>5, StartsUnlooked DEF Next, Crash, Checkout, vars

(* No landing, however it races with other landings, with pushes and with  *)
(* checkouts, and wherever it is killed, takes a commit off a branch.      *)
THEOREM LandingsOnlyAdvance == Spec => BranchesOnlyAdvance
<1>1. Init => TypeOK /\ TipUnderHead
  BY InitType, TipUnderHeadInit
<1>2. TypeOK /\ TipUnderHead /\ [Next]_vars => TypeOK' /\ TipUnderHead'
  BY NextType, TipUnderHeadNext
<1>3. TypeOK /\ TipUnderHead /\ [Next]_vars
         => [\A b \in Branches : InHistory(branch[b], branch'[b])]_vars
  BY StepAdvances
<1>. QED  BY <1>1, <1>2, <1>3, PTL DEF Spec, BranchesOnlyAdvance

-----------------------------------------------------------------------------
(* Landed events.                                                          *)

(* Where a landing is about to write its event, its head is on the target; *)
(* where it is about to merge, the target is still what is checked out.    *)
OnItsWay ==
    \A a \in Actors :
        /\ job[a].step = "fast-forward" => checkout = job[a].target
        /\ job[a].step = "landed" => InHistory(job[a].head, branch[job[a].target])

LEMMA OnItsWayInit == Init => OnItsWay /\ LandedIsOnTarget
BY DEF Init, OnItsWay, AtRest, LandedIsOnTarget

(* What is on a branch stays on it when the branch advances.               *)
LEMMA StaysOn ==
    ASSUME TypeOK, TypeOK', NEW b \in Branches, NEW c \in Commits,
           InHistory(branch[b], branch'[b]), InHistory(c, branch[b])
    PROVE  InHistory(c, branch'[b])
BY ProposalsAssumption DEF TypeOK

LEMMA OnItsWayNext ==
    ASSUME "checkout" \notin Ops,
           TypeOK, TipUnderHead, OnItsWay, LandedIsOnTarget, [Next]_vars
    PROVE  OnItsWay' /\ LandedIsOnTarget'
<1>1. TypeOK' /\ \A b \in Branches : InHistory(branch[b], branch'[b])
  BY NextType, StepAdvances
<1>2. checkout' = checkout
  BY StartsUnlooked DEF Next, Continue, LandSteps, WriteRef, WriteEvent, WriteNote, RunCheck,
         KillCheck, ReadTip, ReadCheckout, FastForward, CompareAndSwap, WriteLanded,
         Follow, WriteRetarget, Crash, Advance, Checkout, vars
<1>3. ASSUME NEW a \in Actors, job[a].step \in LandStep
      PROVE  job[a] \in LandJob /\ job[a].head \in Commits /\ job[a].target \in Branches
  BY <1>3, JobFields DEF LandJob
<1>4. ASSUME NEW a \in Actors, UNCHANGED job[a]
      PROVE  /\ job'[a].step = "fast-forward" => checkout' = job'[a].target
             /\ job'[a].step = "landed" => InHistory(job'[a].head, branch'[job'[a].target])
  BY <1>1, <1>2, <1>3, <1>4, StaysOn DEF OnItsWay, LandStep
<1>5. OnItsWay'
  <2>1. ASSUME NEW a \in Actors, NEW p \in Ids, StartSomething(a, p)  PROVE OnItsWay'
    <3>1. job'[a].step \notin {"fast-forward", "landed"}
      BY <2>1, StartsUnlooked
    <3>2. \A b \in Actors : b # a => UNCHANGED job[b]
      BY <2>1, StartsUnlooked
    <3>. QED  BY <1>4, <3>1, <3>2 DEF OnItsWay
  <2>2. ASSUME NEW a \in Actors, Continue(a)  PROVE OnItsWay'
    <3>1. /\ job'[a].step = "fast-forward" => checkout' = job'[a].target
          /\ job'[a].step = "landed" => InHistory(job'[a].head, branch'[job'[a].target])
      <4>1. CASE WriteRef(a) \/ WriteEvent(a) \/ WriteNote(a) \/ RunCheck(a) \/ KillCheck(a)
        BY <4>1, WriteGoes
      <4>2. CASE job'[a] = AtRest
        BY <4>2 DEF AtRest
      <4>3. ASSUME LandSteps(a), job'[a] # AtRest, FastForward(a) \/ CompareAndSwap(a)
            PROVE  InHistory(job[a].head, branch'[job[a].target])
        <5>1. job[a].head \in Commits /\ job[a].target \in Branches
          BY <1>3, <4>3, LandGoes DEF LandJob
        <5>2. CASE FastForward(a)
          <6>1. checkout = job[a].target
            BY <5>2 DEF FastForward, At, OnItsWay
          <6>2. ~Done(a)
            BY <4>3 DEF Done, Goes, TypeOK
          <6>. QED  BY <1>1, <5>1, <5>2, <6>1, <6>2, StaysOn, ProposalsAssumption
                    DEF FastForward, TypeOK
        <5>3. CASE CompareAndSwap(a)
          <6>1. ~Done(a)
            BY <4>3 DEF Done, Goes, TypeOK
          <6>. QED  BY <5>1, <5>3, <6>1, ProposalsAssumption DEF CompareAndSwap, TypeOK
        <5>. QED  BY <4>3, <5>2, <5>3
      <4>4. CASE LandSteps(a) /\ job'[a] # AtRest
        BY <1>2, <4>3, <4>4, LandGoes
      <4>. QED  BY <2>2, <4>1, <4>2, <4>4 DEF Continue
    <3>2. \A b \in Actors : b # a => UNCHANGED job[b]
      BY <2>2, OthersKeepTheirJob
    <3>. QED  BY <1>4, <3>1, <3>2 DEF OnItsWay
  <2>3. ASSUME NEW a \in Actors, Crash(a)  PROVE OnItsWay'
    <3>1. job'[a].step = "rest"
      BY <2>3 DEF Crash, Done, Goes, AtRest, TypeOK
    <3>2. \A b \in Actors : b # a => UNCHANGED job[b]
      BY <2>3, OthersKeepTheirJob
    <3>. QED  BY <1>4, <3>1, <3>2 DEF OnItsWay
  <2>4. ASSUME UNCHANGED job  PROVE OnItsWay'
    BY <1>4, <2>4 DEF OnItsWay
  <2>. QED
    BY <2>1, <2>2, <2>3, <2>4 DEF Next, Advance, Checkout, vars
<1>6. LandedIsOnTarget'
  <2>1. ASSUME NEW l \in landings  PROVE InHistory(l.head, branch'[l.target])
    <3>1. l.head \in Commits /\ l.target \in Branches
      BY DEF TypeOK, Landing
    <3>. QED  BY <1>1, <3>1, StaysOn DEF LandedIsOnTarget
  <2>2. ASSUME NEW a \in Actors, WriteLanded(a)
        PROVE  \A l \in landings' : InHistory(l.head, branch'[l.target])
    <3>1. InHistory(job[a].head, branch[job[a].target]) /\ branch' = branch
      BY <2>2 DEF WriteLanded, At, OnItsWay
    <3>. QED  BY <2>1, <2>2, <3>1 DEF WriteLanded
  <2>3. ASSUME UNCHANGED landings
        PROVE  \A l \in landings' : InHistory(l.head, branch'[l.target])
    BY <2>1, <2>3
  <2>4. (\E a \in Actors : WriteLanded(a)) \/ UNCHANGED landings
    BY StartsUnlooked DEF Next, Continue, LandSteps, WriteRef, WriteEvent, WriteNote,
           RunCheck, KillCheck, ReadTip, ReadCheckout, FastForward, CompareAndSwap,
           Follow, WriteRetarget, Crash, Advance, Checkout, vars
  <2>. QED  BY <2>2, <2>3, <2>4 DEF LandedIsOnTarget
<1>. QED  BY <1>5, <1>6

(* While nobody switches the working copy to another branch in the middle  *)
(* of a landing, every landed event the log will ever hold is about a head *)
(* that is on its target branch.                                           *)
THEOREM LandedEventsAreTrue ==
    ASSUME "checkout" \notin Ops
    PROVE  Spec => []LandedIsOnTarget
<1>. DEFINE Inv == TypeOK /\ TipUnderHead /\ OnItsWay /\ LandedIsOnTarget
<1>1. Init => Inv
  BY InitType, TipUnderHeadInit, OnItsWayInit
<1>2. Inv /\ [Next]_vars => Inv'
  BY NextType, TipUnderHeadNext, OnItsWayNext
<1>3. Inv => LandedIsOnTarget
  OBVIOUS
<1>. QED  BY <1>1, <1>2, <1>3, PTL DEF Spec

-----------------------------------------------------------------------------
(* Revisions.  Numbers are read and then written with nothing in between   *)
(* to keep two writers apart, so a revision survives because nobody else   *)
(* is recording one.  With a single reviser for each proposal none is lost,*)
(* whatever else runs, and however often the opening is repeated.  Then a  *)
(* note that was resolved when the gate opened stays resolved, and a line  *)
(* that could be folded when it was decided on can be folded where it is   *)
(* written.                                                                *)

(* Every proposal has at most one process recording its revisions.         *)
SoloRevision ==
    \A p \in Ids : \A a, b \in Actors :
        <<a, p>> \in MayRevise /\ <<b, p>> \in MayRevise => a = b

(* A proposal opens at the commit it is named after.                       *)
OpensAtFirst == \A p \in Ids : Known(p) => FirstOf(p) = FirstCommit[p]

(* A pending ref is the opening, which may be written again, or the next   *)
(* revision of a proposal by the process that records them.                *)
NumbersAreFresh ==
    \A a \in Actors : At(a, "ref") =>
        /\ job[a].opening # {} => job[a].number = 1 /\ job[a].commit = FirstCommit[job[a].id]
        /\ job[a].opening = {} => /\ <<a, job[a].id>> \in MayRevise
                                  /\ Known(job[a].id)
                                  /\ job[a].number = Len(refs[job[a].id]) + 1

RevisionInv == OpensAtFirst /\ NumbersAreFresh

LEMMA RevisionInvInit == Init => RevisionInv
BY ProposalsAssumption DEF Init, RevisionInv, OpensAtFirst, NumbersAreFresh, Known, FirstOf,
       At, AtRest

(* Appending a revision, and writing an opening that is there already.     *)
LEMMA PutNext ==
    ASSUME NEW revs \in Seq(Commits), NEW c \in Commits
    PROVE  /\ Put(revs, Len(revs) + 1, c) = Append(revs, c)
           /\ revs # <<>> /\ revs[1] = c => Put(revs, 1, c) = revs
           /\ revs = <<>> => Put(revs, 1, c) = <<c>>
<1>1. Len(revs) \in Nat
  BY LenProperties
<1>2. Put(revs, Len(revs) + 1, c) = Append(revs, c)
  BY <1>1 DEF Put
<1>3. ASSUME revs # <<>>, revs[1] = c  PROVE Put(revs, 1, c) = revs
  <2>1. 1 <= Len(revs)
    BY <1>1, <1>3, EmptySeq
  <2>2. [revs EXCEPT ![1] = c] = revs
    BY <1>1, <1>3, <2>1, LenProperties
  <2>. QED  BY <2>1, <2>2 DEF Put
<1>4. ASSUME revs = <<>>  PROVE Put(revs, 1, c) = <<c>>
  BY <1>4, EmptySeq DEF Put
<1>. QED  BY <1>2, <1>3, <1>4

(* What writing a ref does to the revisions of its proposal.               *)
LEMMA RefWritten ==
    ASSUME TypeOK, RevisionInv, NEW a \in Actors, WriteRef(a)
    PROVE  LET i == job[a].id
           IN  /\ i \in Ids
               /\ \A p \in Ids : p # i => refs'[p] = refs[p]
               /\ \/ /\ job[a].opening = {} /\ <<a, i>> \in MayRevise /\ Known(i)
                     /\ refs'[i] = Append(refs[i], job[a].commit)
                  \/ Known(i) /\ refs'[i] = refs[i]
                  \/ ~Known(i) /\ refs'[i] = <<FirstCommit[i]>>
<1>. DEFINE i == job[a].id
<1>1. /\ i \in Ids
      /\ job[a].commit \in Commits
      /\ job[a].opening # {} => job[a].number = 1 /\ job[a].commit = FirstCommit[i]
      /\ job[a].opening = {} => /\ <<a, i>> \in MayRevise
                                /\ Known(i)
                                /\ job[a].number = Len(refs[i]) + 1
  BY JobFields DEF WriteRef, RevisionInv, NumbersAreFresh
<1>2. /\ refs'[i] = Put(refs[i], job[a].number, job[a].commit)
      /\ \A p \in Ids : p # i => refs'[p] = refs[p]
      /\ refs[i] \in Seq(Commits)
  BY <1>1 DEF WriteRef, TypeOK
<1>3. Known(i) => refs[i][1] = FirstCommit[i]
  BY <1>1 DEF RevisionInv, OpensAtFirst, FirstOf
<1>. HIDE DEF i
<1>4. CASE job[a].opening = {}
  BY <1>1, <1>2, <1>4, PutNext DEF i
<1>5. CASE job[a].opening # {} /\ Known(i)
  BY <1>1, <1>2, <1>3, <1>5, PutNext DEF i, Known
<1>6. CASE job[a].opening # {} /\ ~Known(i)
  BY <1>1, <1>2, <1>6, PutNext DEF i, Known
<1>. QED  BY <1>4, <1>5, <1>6

(* Every other step leaves the refs alone.                                 *)
LEMMA OnlyRefsAreWritten ==
    ASSUME TypeOK, [Next]_vars, \A a \in Actors : ~WriteRef(a)
    PROVE  UNCHANGED refs
BY StartsUnlooked
   DEF Next, Continue, LandSteps, WriteEvent, WriteNote, RunCheck, KillCheck,
       ReadTip, ReadCheckout, FastForward, CompareAndSwap, WriteLanded, Follow,
       WriteRetarget, Crash, Advance, Checkout, vars, log

(* A command that starts with a ref to write has numbered it.              *)
LEMMA StartsFresh ==
    ASSUME TypeOK, NEW a \in Actors, NEW p \in Ids, StartSomething(a, p),
           job'[a].step = "ref"
    PROVE  /\ job'[a].opening # {} => /\ job'[a].number = 1
                                      /\ job'[a].commit = FirstCommit[job'[a].id]
           /\ job'[a].opening = {} => /\ <<a, job'[a].id>> \in MayRevise
                                      /\ Known(job'[a].id)
                                      /\ job'[a].number = Len(refs[job'[a].id]) + 1
<1>1. \A op, j : Issues(a, op, j) => job'[a] = j
  BY DEF Issues, TypeOK
<1>2. CASE StartPropose(a, p)
  <2>1. job'[a] = [step |-> "ref", id |-> p, number |-> 1, commit |-> FirstCommit[p],
                   opening |-> {Opened(Onto[p], Now)}]
    BY <1>1, <1>2 DEF StartPropose
  <2>. QED  BY <2>1
<1>3. CASE \E c \in Attempts[p] : StartRevise(a, p, c)
  <2>1. PICK c \in Attempts[p] : StartRevise(a, p, c)
    BY <1>3
  <2>2. <<a, p>> \in MayRevise /\ Known(p)
    BY <2>1 DEF StartRevise, Loads
  <2>3. job'[a] = [step |-> "ref", id |-> p, number |-> Len(refs[p]) + 1,
                   commit |-> c, opening |-> {}]
    BY <1>1, <2>1 DEF StartRevise
  <2>. QED  BY <2>2, <2>3
<1>4. CASE StartAnnotate(a, p) \/ StartDispatch(a, p)
  BY <1>1, <1>4 DEF StartAnnotate, StartDispatch, Appending
<1>5. CASE StartDescribe(a, p)
  BY <1>1, <1>5 DEF StartDescribe, Appending
<1>6. CASE StartCheck(a, p)
  BY <1>1, <1>6 DEF StartCheck
<1>7. CASE StartAbandon(a, p)
  BY <1>1, <1>7 DEF StartAbandon
<1>8. CASE \E n \in 1..issued : StartReply(a, p, n) \/ StartResolve(a, p, n)
  BY <1>1, <1>8 DEF StartReply, StartResolve, Appending
<1>9. CASE \E phase \in Phases : StartReport(a, p, phase)
  BY <1>1, <1>9 DEF StartReport, Appending
<1>10. CASE \E b \in Branches : StartLand(a, p, b)
  BY <1>1, <1>10 DEF StartLand
<1>. QED
  BY <1>2, <1>3, <1>4, <1>5, <1>6, <1>7, <1>8, <1>9, <1>10 DEF StartSomething

(* A landing has no ref to write.                                          *)
LEMMA ContinueHasNoRef ==
    ASSUME TypeOK, NEW a \in Actors, Continue(a) \/ Crash(a)
    PROVE  job'[a].step # "ref"
<1>1. CASE WriteRef(a) \/ WriteEvent(a) \/ WriteNote(a) \/ RunCheck(a) \/ KillCheck(a)
  BY <1>1, WriteGoes
<1>2. CASE job'[a] = AtRest
  BY <1>2 DEF AtRest
<1>3. CASE LandSteps(a) /\ job'[a] # AtRest
  BY <1>3, LandGoes
<1>4. CASE Crash(a)
  BY <1>4 DEF Crash, Done, Goes, AtRest, TypeOK
<1>. QED  BY <1>1, <1>2, <1>3, <1>4 DEF Continue

(* No step of anybody takes a revision away or puts another in its place.  *)
LEMMA StepKeepsRevisions ==
    ASSUME TypeOK, RevisionInv, [Next]_vars
    PROVE  /\ \A p \in Ids : \A n \in DOMAIN refs[p] :
                 n \in DOMAIN refs'[p] /\ refs'[p][n] = refs[p][n]
           /\ OpensAtFirst'
<1>. \A p \in Ids : refs[p] \in Seq(Commits)
  BY DEF TypeOK
<1>1. CASE UNCHANGED refs
  BY <1>1 DEF RevisionInv, OpensAtFirst, Known, FirstOf
<1>2. ASSUME NEW a \in Actors, WriteRef(a)
      PROVE  /\ \A p \in Ids : \A n \in DOMAIN refs[p] :
                   n \in DOMAIN refs'[p] /\ refs'[p][n] = refs[p][n]
             /\ OpensAtFirst'
  <2>. DEFINE i == job[a].id
  <2>1. /\ i \in Ids
        /\ \A p \in Ids : p # i => refs'[p] = refs[p]
        /\ \/ Known(i) /\ refs'[i] = Append(refs[i], job[a].commit)
           \/ Known(i) /\ refs'[i] = refs[i]
           \/ ~Known(i) /\ refs'[i] = <<FirstCommit[i]>>
        /\ job[a].commit \in Commits
    BY <1>2, RefWritten, JobFields DEF WriteRef
  <2>. HIDE DEF i
  <2>2. /\ \A n \in DOMAIN refs[i] : n \in DOMAIN refs'[i] /\ refs'[i][n] = refs[i][n]
        /\ refs'[i] # <<>> /\ refs'[i][1] = FirstCommit[i]
    <3>1. CASE Known(i) /\ refs'[i] = Append(refs[i], job[a].commit)
      <4>1. 1 \in DOMAIN refs[i] /\ refs[i][1] = FirstCommit[i]
        BY <2>1, <3>1, EmptySeq, LenProperties DEF Known, RevisionInv, OpensAtFirst, FirstOf
      <4>. QED  BY <2>1, <3>1, <4>1, AppendProperties
    <3>2. CASE Known(i) /\ refs'[i] = refs[i]
      BY <2>1, <3>2 DEF Known, RevisionInv, OpensAtFirst, FirstOf
    <3>3. CASE ~Known(i) /\ refs'[i] = <<FirstCommit[i]>>
      BY <3>3 DEF Known
    <3>. QED  BY <2>1, <3>1, <3>2, <3>3
  <2>. QED  BY <2>1, <2>2 DEF RevisionInv, OpensAtFirst, Known, FirstOf
<1>. QED  BY <1>1, <1>2, OnlyRefsAreWritten

LEMMA NumbersStayFresh ==
    ASSUME SoloRevision, TypeOK, RevisionInv, [Next]_vars
    PROVE  NumbersAreFresh'
<1>. DEFINE Fresh(b) ==
        At(b, "ref") =>
          /\ job[b].opening # {} => job[b].number = 1 /\ job[b].commit = FirstCommit[job[b].id]
          /\ job[b].opening = {} => /\ <<b, job[b].id>> \in MayRevise
                                    /\ Known(job[b].id)
                                    /\ job[b].number = Len(refs[job[b].id]) + 1
<1>1. \A b \in Actors : Fresh(b)
  BY DEF RevisionInv, NumbersAreFresh
<1>2. ASSUME NEW b \in Actors, UNCHANGED <<job[b], refs>>  PROVE Fresh(b)'
  BY <1>1, <1>2 DEF At, Known
<1>3. ASSUME NEW a \in Actors, NEW p \in Ids, StartSomething(a, p)  PROVE NumbersAreFresh'
  <2>1. UNCHANGED refs /\ \A b \in Actors : b # a => UNCHANGED job[b]
    BY <1>3, StartsUnlooked DEF log
  <2>2. Fresh(a)'
    BY <1>3, <2>1, StartsFresh DEF At, Known
  <2>. QED  BY <1>2, <2>1, <2>2 DEF NumbersAreFresh
<1>4. ASSUME NEW a \in Actors, WriteRef(a)  PROVE NumbersAreFresh'
  <2>1. ~At(a, "ref")'
    BY <1>4, ContinueHasNoRef DEF Continue, At
  <2>2. ASSUME NEW b \in Actors, b # a  PROVE Fresh(b)'
    <3>1. UNCHANGED job[b]
      BY <1>4, <2>2, OthersKeepTheirJob DEF Continue
    <3>2. CASE At(b, "ref") /\ job[b].opening = {}
      <4>1. /\ job[b].id \in Ids
            /\ <<b, job[b].id>> \in MayRevise
            /\ Known(job[b].id)
            /\ job[b].number = Len(refs[job[b].id]) + 1
        BY <1>1, <3>2, JobFields
      <4>2. refs'[job[b].id] = refs[job[b].id]
        BY <1>4, <2>2, <4>1, RefWritten DEF SoloRevision
      <4>. QED  BY <3>1, <3>2, <4>1, <4>2 DEF At, Known
    <3>3. CASE At(b, "ref") /\ job[b].opening # {}
      BY <1>1, <3>1, <3>3 DEF At
    <3>. QED  BY <3>1, <3>2, <3>3 DEF At
  <2>. QED  BY <2>1, <2>2 DEF NumbersAreFresh
<1>5. ASSUME NEW a \in Actors, Continue(a) \/ Crash(a), \A b \in Actors : ~WriteRef(b)
      PROVE  NumbersAreFresh'
  <2>1. ~At(a, "ref")'
    BY <1>5, ContinueHasNoRef DEF At
  <2>2. UNCHANGED refs /\ \A b \in Actors : b # a => UNCHANGED job[b]
    BY <1>5, OthersKeepTheirJob, OnlyRefsAreWritten
  <2>. QED  BY <1>2, <2>1, <2>2 DEF NumbersAreFresh
<1>6. ASSUME UNCHANGED <<job, refs>>  PROVE NumbersAreFresh'
  BY <1>2, <1>6 DEF NumbersAreFresh
<1>. QED
  BY <1>3, <1>4, <1>5, <1>6 DEF Next, Advance, Checkout, vars, log

(* Nothing is edited and nothing is deleted, as long as one process at a   *)
(* time records the revisions of a proposal: whoever else comments, checks,*)
(* lands or dies in between, revision n stays the commit it was.           *)
THEOREM RevisionsAreKept ==
    ASSUME SoloRevision
    PROVE  Spec => NoRevisionIsLost
<1>1. Init => TypeOK /\ RevisionInv
  BY InitType, RevisionInvInit
<1>2. TypeOK /\ RevisionInv /\ [Next]_vars => TypeOK' /\ RevisionInv'
  BY NextType, StepKeepsRevisions, NumbersStayFresh DEF RevisionInv
<1>3. TypeOK /\ RevisionInv /\ [Next]_vars
         => [\A p \in Ids : \A n \in DOMAIN refs[p] :
                n \in DOMAIN refs'[p] /\ refs'[p][n] = refs[p][n]]_vars
  BY StepKeepsRevisions
<1>. QED  BY <1>1, <1>2, <1>3, PTL DEF Spec, NoRevisionIsLost

-----------------------------------------------------------------------------
(* Lines.  What a note holds was decided on when it read differently.      *)

NamesCode(r) == r.kind \in {"comment", "rationale", "check"}

(* A line about code is kept with the code.                                *)
AtHome(c, r) == NamesCode(r) => r.rev = c

LinesAreAtHome ==
    /\ \A c \in Commits : \A r \in ToSet(notes[c]) : AtHome(c, r)
    /\ \A a \in Actors : At(a, "note") =>
           \A r \in ToSet(job[a].lines) : AtHome(job[a].commit, r)

(* What a command that starts has to write in a note is about the head of  *)
(* a proposal, and answers what is on it.                                  *)
LEMMA StartsWithLines ==
    ASSUME TypeOK, NEW a \in Actors, NEW p \in Ids, StartSomething(a, p)
    PROVE  /\ job'[a].step \in {"note", "check"} =>
                 Known(p) /\ job'[a].commit = HeadOf(p)
           /\ job'[a].step = "note" =>
                 \A r \in ToSet(job'[a].lines) :
                     /\ AtHome(HeadOf(p), r)
                     /\ IsAnswer(r) => Carries(p, r.target)
                     /\ r.kind = "comment" => r = Comment(issued', HeadOf(p))
           /\ job'[a].step = "ref" /\ job'[a].opening = {} =>
                 job'[a].commit \in Attempts[job'[a].id] \ Revs(job'[a].id)
           /\ job'[a].step = "tip" =>
                 /\ job'[a].id = p /\ Known(p) /\ Blocking(p) = {}
                 /\ \A n \in job'[a].seen :
                        \E r \in ToSet(notes[HeadOf(p)]) : IsCommentOn(r, n)
<1>. DEFINE Holds ==
           /\ job'[a].step \in {"note", "check"} =>
                 Known(p) /\ job'[a].commit = HeadOf(p)
           /\ job'[a].step = "note" =>
                 \A r \in ToSet(job'[a].lines) :
                     /\ AtHome(HeadOf(p), r)
                     /\ IsAnswer(r) => Carries(p, r.target)
                     /\ r.kind = "comment" => r = Comment(issued', HeadOf(p))
           /\ job'[a].step = "ref" /\ job'[a].opening = {} =>
                 job'[a].commit \in Attempts[job'[a].id] \ Revs(job'[a].id)
           /\ job'[a].step = "tip" =>
                 /\ job'[a].id = p /\ Known(p) /\ Blocking(p) = {}
                 /\ \A n \in job'[a].seen :
                        \E r \in ToSet(notes[HeadOf(p)]) : IsCommentOn(r, n)
<1>1. \A op, j : Issues(a, op, j) => job'[a] = j
  BY DEF Issues, TypeOK
<1>2. \A x, y : ToSet(<<x>>) = {x} /\ ToSet(<<x, y>>) = {x, y}
  BY DEF ToSet
<1>3. ASSUME NEW lines, Known(p), job'[a] = Appending(p, lines),
             \A r \in ToSet(lines) : /\ AtHome(HeadOf(p), r)
                                     /\ IsAnswer(r) => Carries(p, r.target)
                                     /\ r.kind = "comment" => r = Comment(issued', HeadOf(p))
      PROVE  Holds
  BY <1>3 DEF Appending
<1>4. CASE StartPropose(a, p)
  <2>1. job'[a] = [step |-> "ref", id |-> p, number |-> 1, commit |-> FirstCommit[p],
                   opening |-> {Opened(Onto[p], Now)}]
    BY <1>1, <1>4 DEF StartPropose
  <2>. QED  BY <2>1
<1>5. CASE StartAnnotate(a, p)
  <2>1. issued' = Now
    BY <1>5 DEF StartAnnotate, Issues
  <2>. QED  BY <1>1, <1>2, <1>3, <1>5, <2>1
  DEF StartAnnotate, Loads, Comment, AtHome, NamesCode, IsAnswer
<1>6. CASE StartDispatch(a, p)
  BY <1>1, <1>2, <1>3, <1>6 DEF StartDispatch, Loads, Ask, AtHome, NamesCode, IsAnswer
<1>7. CASE StartDescribe(a, p)
  <2>1. PICK lines \in {<<Chunk(Now)>>, <<Rationale(Now, HeadOf(p))>>,
                        <<Chunk(Now), Rationale(Now, HeadOf(p))>>} :
           job'[a] = Appending(p, lines)
    BY <1>1, <1>7 DEF StartDescribe
  <2>2. ToSet(lines) \subseteq {Chunk(Now), Rationale(Now, HeadOf(p))}
    BY <1>2, <2>1
  <2>3. \A r \in {Chunk(Now), Rationale(Now, HeadOf(p))} :
           AtHome(HeadOf(p), r) /\ ~IsAnswer(r) /\ r.kind # "comment"
    BY DEF Chunk, Rationale, AtHome, NamesCode, IsAnswer
  <2>. QED  BY <1>3, <1>7, <2>1, <2>2, <2>3 DEF StartDescribe, Loads
<1>8. CASE StartCheck(a, p)
  <2>1. PICK todo : job'[a] = [step |-> "check", commit |-> HeadOf(p), todo |-> todo]
    BY <1>1, <1>8 DEF StartCheck
  <2>. QED  BY <1>8, <2>1 DEF StartCheck, Loads
<1>9. CASE StartAbandon(a, p)
  BY <1>1, <1>9 DEF StartAbandon
<1>10. ASSUME NEW n \in 1..issued, StartReply(a, p, n)  PROVE Holds
  BY <1>1, <1>2, <1>3, <1>10 DEF StartReply, Loads, Reply, AtHome, NamesCode, IsAnswer
<1>11. ASSUME NEW n \in 1..issued, StartResolve(a, p, n)  PROVE Holds
  BY <1>1, <1>2, <1>3, <1>11 DEF StartResolve, Loads, Resolve, AtHome, NamesCode, IsAnswer
<1>12. ASSUME NEW phase \in Phases, StartReport(a, p, phase)  PROVE Holds
  BY <1>1, <1>2, <1>3, <1>12 DEF StartReport, Loads, WorkLine, AtHome, NamesCode, IsAnswer
<1>13. ASSUME NEW c \in Attempts[p], StartRevise(a, p, c)  PROVE Holds
  <2>1. job'[a] = [step |-> "ref", id |-> p, number |-> Len(refs[p]) + 1,
                   commit |-> c, opening |-> {}]
    BY <1>1, <1>13 DEF StartRevise
  <2>. QED  BY <1>13, <2>1 DEF StartRevise
<1>14. ASSUME NEW b \in Branches, StartLand(a, p, b)  PROVE Holds
  <2>1. PICK stack :
           job'[a] = [step |-> "tip", id |-> p, first |-> FirstOf(p), head |-> HeadOf(p),
                      target |-> b, tip |-> HeadOf(p), stack |-> stack, heir |-> {},
                      at |-> Now,
                      seen |-> {n \in 1..issued : \E r \in ToSet(notes[HeadOf(p)]) :
                                                     IsCommentOn(r, n)}]
    BY <1>1, <1>14 DEF StartLand
  <2>2. Known(p) /\ Blocking(p) = {}
    BY <1>14 DEF StartLand, Loads, Gate
  <2>. QED  BY <2>1, <2>2
<1>. QED
  BY <1>4, <1>5, <1>6, <1>7, <1>8, <1>9, <1>10, <1>11, <1>12, <1>13, <1>14
     DEF StartSomething

LEMMA OneMore ==
    ASSUME NEW S, NEW s \in Seq(S), NEW x \in S
    PROVE  ToSet(Append(s, x)) = ToSet(s) \cup {x}
<1>1. /\ DOMAIN s = 1..Len(s) /\ Len(s) \in Nat
      /\ DOMAIN Append(s, x) = 1..(Len(s) + 1)
      /\ Append(s, x)[Len(s) + 1] = x
      /\ \A i \in 1..Len(s) : Append(s, x)[i] = s[i]
  OBVIOUS
<1>2. ASSUME NEW i \in 1..(Len(s) + 1)  PROVE i \in 1..Len(s) \/ i = Len(s) + 1
  BY <1>1
<1>3. \A i \in 1..Len(s) : i \in 1..(Len(s) + 1)
  BY <1>1
<1>4. Len(s) + 1 \in 1..(Len(s) + 1)
  BY <1>1
<1>. QED  BY <1>1, <1>2, <1>3, <1>4 DEF ToSet

(* What a step adds to a note is one line that its job had to write.       *)
LEMMA LineWritten ==
    ASSUME TypeOK, NEW a \in Actors, WriteNote(a) \/ RunCheck(a)
    PROVE  \E r \in Record :
               /\ job[a].commit \in Commits
               /\ notes' = [notes EXCEPT ![job[a].commit] = Append(@, r)]
               /\ UNCHANGED <<refs, events, landings>>
               /\ \/ At(a, "note") /\ r \in ToSet(job[a].lines)
                  \/ At(a, "check") /\ r.kind = "check" /\ AtHome(job[a].commit, r)
               /\ job'[a].step = "note" =>
                     /\ At(a, "note") /\ job'[a].commit = job[a].commit
                     /\ ToSet(job'[a].lines) \subseteq ToSet(job[a].lines)
               /\ job'[a].step = "check" =>
                     At(a, "check") /\ job'[a].commit = job[a].commit
<1>. DEFINE j == job[a]
<1>0. \A k : Goes(a, k) => job'[a] = k
  BY DEF Goes, TypeOK
<1>1. CASE WriteNote(a)
  <2>1. /\ j \in [step : {"note"}, commit : Commits, lines : Seq(Record) \ {<<>>}]
        /\ At(a, "note")
    BY <1>1, JobFields DEF WriteNote
  <2>2. j.lines \in Seq(Record) /\ j.lines # <<>> /\ j.commit \in Commits
    BY <2>1
  <2>3. Head(j.lines) \in Record /\ Head(j.lines) \in ToSet(j.lines)
    <3>1. Head(j.lines) = j.lines[1] /\ 1 \in DOMAIN j.lines
      BY <2>2, EmptySeq, LenProperties, HeadTailProperties
    <3>. QED  BY <2>2, <3>1, HeadTailProperties DEF ToSet
  <2>4. ToSet(Tail(j.lines)) \subseteq ToSet(j.lines)
    <3>1. /\ Tail(j.lines) \in Seq(Record) /\ Len(Tail(j.lines)) = Len(j.lines) - 1
          /\ \A i \in 1..(Len(j.lines) - 1) : Tail(j.lines)[i] = j.lines[i + 1]
      BY <2>2, HeadTailProperties
    <3>2. /\ DOMAIN Tail(j.lines) = 1..(Len(j.lines) - 1)
          /\ DOMAIN j.lines = 1..Len(j.lines) /\ Len(j.lines) \in Nat
      BY <2>2, <3>1, LenProperties
    <3>3. \A i \in 1..(Len(j.lines) - 1) : i + 1 \in 1..Len(j.lines)
      BY <3>2
    <3>. QED  BY <3>1, <3>2, <3>3 DEF ToSet
  <2>5. /\ notes' = [notes EXCEPT ![j.commit] = Append(@, Head(j.lines))]
        /\ UNCHANGED <<refs, events, landings>>
        /\ Done(a) \/ Goes(a, [j EXCEPT !.lines = Tail(j.lines)])
    BY <1>1 DEF WriteNote
  <2>6. job'[a] = AtRest \/ job'[a] = [j EXCEPT !.lines = Tail(j.lines)]
    BY <1>0, <2>5 DEF Done
  <2>7. /\ AtRest.step = "rest"
        /\ [j EXCEPT !.lines = Tail(j.lines)].step = "note"
        /\ [j EXCEPT !.lines = Tail(j.lines)].commit = j.commit
        /\ [j EXCEPT !.lines = Tail(j.lines)].lines = Tail(j.lines)
    BY <2>1 DEF AtRest
  <2>. QED  BY <2>1, <2>2, <2>3, <2>4, <2>5, <2>6, <2>7
<1>2. CASE RunCheck(a)
  <2>1. PICK i \in j.todo, passed \in BOOLEAN :
           /\ notes' = [notes EXCEPT ![j.commit] =
                              Append(@, Verdict(CheckOrder[i], passed, j.commit))]
           /\ Done(a) \/ Goes(a, [j EXCEPT !.todo = j.todo \ {i}])
    BY <1>2 DEF RunCheck
  <2>2. /\ j \in [step : {"check"}, commit : Commits, todo : SUBSET DOMAIN CheckOrder]
        /\ At(a, "check")
    BY <1>2, JobFields DEF RunCheck
  <2>3. Verdict(CheckOrder[i], passed, j.commit) \in Record
    BY <2>1, <2>2 DEF Verdict, Record, ToSet
  <2>4. /\ Verdict(CheckOrder[i], passed, j.commit).kind = "check"
        /\ AtHome(j.commit, Verdict(CheckOrder[i], passed, j.commit))
    BY DEF Verdict, AtHome
  <2>5. job'[a] = AtRest \/ job'[a] = [j EXCEPT !.todo = j.todo \ {i}]
    BY <1>0, <2>1 DEF Done
  <2>6. /\ AtRest.step = "rest"
        /\ [j EXCEPT !.todo = j.todo \ {i}].step = "check"
        /\ [j EXCEPT !.todo = j.todo \ {i}].commit = j.commit
    BY <2>2 DEF AtRest
  <2>7. UNCHANGED <<refs, events, landings>> /\ j.commit \in Commits
    BY <1>2, <2>2 DEF RunCheck
  <2>. QED  BY <2>1, <2>2, <2>3, <2>4, <2>5, <2>6, <2>7
<1>. QED  BY <1>1, <1>2

(* Every other step leaves the notes alone.                                *)
LEMMA OnlyNotesAreWritten ==
    ASSUME TypeOK, [Next]_vars, \A a \in Actors : ~WriteNote(a) /\ ~RunCheck(a)
    PROVE  UNCHANGED notes
BY StartsUnlooked
   DEF Next, Continue, LandSteps, WriteRef, WriteEvent, KillCheck,
       ReadTip, ReadCheckout, FastForward, CompareAndSwap, WriteLanded, Follow,
       WriteRetarget, Crash, Advance, Checkout, vars, log

(* Only an actor that writes a note still has one to write afterwards.     *)
LEMMA NoOtherNotes ==
    ASSUME TypeOK, NEW a \in Actors, Continue(a) \/ Crash(a), ~WriteNote(a), ~RunCheck(a)
    PROVE  job'[a].step \notin {"note", "check"}
<1>0. \A k : Goes(a, k) => job'[a] = k
  BY DEF Goes, TypeOK
<1>1. CASE job'[a] = AtRest
  BY <1>1 DEF AtRest
<1>2. CASE WriteRef(a) /\ job'[a] # AtRest
  <2>1. PICK e : Goes(a, [step |-> "event", commit |-> job[a].commit, event |-> e])
    BY <1>0, <1>2 DEF WriteRef, Done
  <2>2. job'[a] = [step |-> "event", commit |-> job[a].commit, event |-> e]
    BY <1>0, <2>1
  <2>. QED  BY <2>2
<1>3. CASE LandSteps(a) /\ job'[a] # AtRest
  BY <1>3, LandGoes
<1>4. CASE WriteEvent(a) \/ KillCheck(a) \/ Crash(a)
  BY <1>0, <1>1, <1>4 DEF WriteEvent, KillCheck, Crash, Done
<1>. QED  BY <1>1, <1>2, <1>3, <1>4 DEF Continue

LEMMA LinesAreAtHomeInit == Init => LinesAreAtHome
BY DEF Init, LinesAreAtHome, ToSet, At, AtRest

LEMMA LinesAreAtHomeNext ==
    ASSUME TypeOK, LinesAreAtHome, [Next]_vars
    PROVE  LinesAreAtHome'
<1>. DEFINE Mine(b) == At(b, "note") => \A r \in ToSet(job[b].lines) : AtHome(job[b].commit, r)
<1>1. /\ \A c \in Commits : \A r \in ToSet(notes[c]) : AtHome(c, r)
      /\ \A b \in Actors : Mine(b)
  BY DEF LinesAreAtHome
<1>2. ASSUME NEW b \in Actors, UNCHANGED job[b]  PROVE Mine(b)'
  BY <1>1, <1>2 DEF At, AtHome
<1>3. ASSUME NEW a \in Actors, WriteNote(a) \/ RunCheck(a)  PROVE LinesAreAtHome'
  <2>1. PICK r \in Record :
           /\ job[a].commit \in Commits
           /\ notes' = [notes EXCEPT ![job[a].commit] = Append(@, r)]
           /\ \/ At(a, "note") /\ r \in ToSet(job[a].lines)
              \/ At(a, "check") /\ r.kind = "check" /\ AtHome(job[a].commit, r)
           /\ job'[a].step = "note" =>
                 /\ At(a, "note") /\ job'[a].commit = job[a].commit
                 /\ ToSet(job'[a].lines) \subseteq ToSet(job[a].lines)
    BY <1>3, LineWritten
  <2>2. AtHome(job[a].commit, r)
    BY <1>1, <2>1
  <2>3. \A c \in Commits : notes'[c] = IF c = job[a].commit THEN Append(notes[c], r)
                                       ELSE notes[c]
    BY <2>1 DEF TypeOK
  <2>4. ASSUME NEW c \in Commits, NEW l \in ToSet(notes'[c])  PROVE AtHome(c, l)
    <3>1. ToSet(Append(notes[c], r)) = ToSet(notes[c]) \cup {r}
      BY OneMore DEF TypeOK
    <3>. QED  BY <1>1, <2>2, <2>3, <2>4, <3>1
  <2>5. Mine(a)'
    BY <1>1, <2>1 DEF At, AtHome
  <2>6. \A b \in Actors : b # a => Mine(b)'
    BY <1>2, <1>3, OthersKeepTheirJob DEF Continue
  <2>7. \A c \in Commits : \A l \in ToSet(notes'[c]) : AtHome(c, l)'
    BY <2>4 DEF AtHome
  <2>. QED  BY <2>5, <2>6, <2>7 DEF LinesAreAtHome
<1>4. ASSUME \A a \in Actors : ~WriteNote(a) /\ ~RunCheck(a)  PROVE LinesAreAtHome'
  <2>1. notes' = notes
    BY <1>4, OnlyNotesAreWritten
  <2>2. \A c \in Commits : \A l \in ToSet(notes'[c]) : AtHome(c, l)'
    BY <1>1, <2>1 DEF AtHome
  <2>3. ASSUME NEW a \in Actors, NEW p \in Ids, StartSomething(a, p)
        PROVE  \A b \in Actors : Mine(b)'
    <3>1. Mine(a)'
      BY <2>3, StartsWithLines DEF At, AtHome
    <3>. QED  BY <1>2, <2>3, <3>1, StartsUnlooked
  <2>4. ASSUME NEW a \in Actors, Continue(a) \/ Crash(a)
        PROVE  \A b \in Actors : Mine(b)'
    <3>1. Mine(a)'
      BY <1>4, <2>4, NoOtherNotes DEF At
    <3>. QED  BY <1>2, <2>4, <3>1, OthersKeepTheirJob
  <2>5. ASSUME UNCHANGED job  PROVE \A b \in Actors : Mine(b)'
    BY <1>2, <2>5
  <2>6. \A b \in Actors : Mine(b)'
    BY <2>3, <2>4, <2>5 DEF Next, Advance, Checkout, vars
  <2>. QED  BY <2>2, <2>6 DEF LinesAreAtHome
<1>. QED  BY <1>3, <1>4

(* Nothing is taken out of a note.                                         *)
LEMMA NotesGrow ==
    ASSUME TypeOK, [Next]_vars
    PROVE  \A c \in Commits : ToSet(notes[c]) \subseteq ToSet(notes'[c])
<1>1. ASSUME NEW a \in Actors, WriteNote(a) \/ RunCheck(a), NEW c \in Commits
      PROVE  ToSet(notes[c]) \subseteq ToSet(notes'[c])
  <2>1. PICK r \in Record : /\ job[a].commit \in Commits
                            /\ notes' = [notes EXCEPT ![job[a].commit] = Append(@, r)]
    BY <1>1, LineWritten
  <2>2. notes'[c] \in {notes[c], Append(notes[c], r)}
    BY <2>1 DEF TypeOK
  <2>3. ToSet(Append(notes[c], r)) = ToSet(notes[c]) \cup {r}
    BY OneMore DEF TypeOK
  <2>. QED  BY <2>2, <2>3
<1>. QED  BY <1>1, OnlyNotesAreWritten

-----------------------------------------------------------------------------
(* The gate.                                                               *)

(* What a landing saw on the head is resolved, since its gate was open and *)
(* the comments in the note of the head are about the head.                *)
SeenAreResolved ==
    /\ \A a \in Actors : job[a].step \in LandStep =>
           job[a].id \in Ids /\ \A n \in job[a].seen : Resolved(job[a].id, n)
    /\ \A l \in landings : l.id \in Ids /\ \A n \in l.seen : Resolved(l.id, n)

(* A resolve stays one while no revision is lost.                          *)
LEMMA ResolvedStays ==
    ASSUME TypeOK, RevisionInv, [Next]_vars, NEW p \in Ids, NEW n, Resolved(p, n)
    PROVE  Resolved(p, n)'
<1>1. PICK c \in Revs(p) : \E r \in ToSet(notes[c]) : r.kind = "resolve" /\ r.target = n
  BY DEF Resolved, Lines
<1>2. PICK i \in DOMAIN refs[p] : c = refs[p][i]
  BY <1>1 DEF Revs, ToSet
<1>3. c \in Commits
  BY <1>2 DEF TypeOK
<1>4. i \in DOMAIN refs'[p] /\ refs'[p][i] = c
  BY <1>2, StepKeepsRevisions
<1>5. c \in Revs(p)'
  BY <1>4 DEF Revs, ToSet
<1>6. ToSet(notes[c]) \subseteq ToSet(notes'[c])
  BY <1>3, NotesGrow
<1>. QED  BY <1>1, <1>5, <1>6 DEF Resolved, Lines

LEMMA HeadIsOne ==
    ASSUME TypeOK, NEW p \in Ids, Known(p)
    PROVE  HeadOf(p) \in Revs(p)
BY EmptySeq, LenProperties DEF TypeOK, Known, HeadOf, Revs, ToSet

(* An open gate means that every note on the head is resolved.             *)
LEMMA OpenGateAnswers ==
    ASSUME TypeOK, LinesAreAtHome, NEW p \in Ids, Known(p), Blocking(p) = {},
           NEW n, NEW r \in ToSet(notes[HeadOf(p)]), IsCommentOn(r, n)
    PROVE  Resolved(p, n)
<1>1. HeadOf(p) \in Commits /\ HeadOf(p) \in Revs(p)
  BY HeadIsCommit, HeadIsOne
<1>2. r.rev = HeadOf(p) /\ r.kind = "comment" /\ r.id = n
  BY <1>1 DEF LinesAreAtHome, AtHome, NamesCode, IsCommentOn
<1>3. r \in Lines(p)
  BY <1>1 DEF Lines
<1>. QED  BY <1>2, <1>3 DEF Blocking

(* A landing carries what it saw to its event.                             *)
LEMMA LandKeepsSeen ==
    ASSUME TypeOK, NEW a \in Actors, LandSteps(a), job'[a] # AtRest
    PROVE  /\ job[a].step \in LandStep
           /\ job'[a].id = job[a].id /\ job'[a].seen = job[a].seen
<1>. DEFINE j == job[a]
<1>1. job[a].step \in LandStep
  BY DEF LandSteps, ReadTip, ReadCheckout, FastForward, CompareAndSwap,
         WriteLanded, Follow, WriteRetarget, At, LandStep
<1>2. j \in LandJob
  BY <1>1, JobFields
<1>3. \A k : Goes(a, k) => job'[a] = k
  BY DEF Goes, TypeOK
<1>4. ~Done(a)
  BY <1>3 DEF Done
<1>. HIDE DEF j
<1>5. /\ \A s, t : [j EXCEPT !.step = s, !.tip = t].id = j.id
                  /\ [j EXCEPT !.step = s, !.tip = t].seen = j.seen
      /\ \A s : [j EXCEPT !.step = s].id = j.id /\ [j EXCEPT !.step = s].seen = j.seen
      /\ \A s, h : /\ [j EXCEPT !.step = s, !.heir = h].id = j.id
                   /\ [j EXCEPT !.step = s, !.heir = h].seen = j.seen
      /\ \A t, h, s : /\ [j EXCEPT !.stack = t, !.heir = h, !.step = s].id = j.id
                      /\ [j EXCEPT !.stack = t, !.heir = h, !.step = s].seen = j.seen
  BY <1>2 DEF LandJob
<1>6. \/ \E s, t : Goes(a, [j EXCEPT !.step = s, !.tip = t])
      \/ \E s : Goes(a, [j EXCEPT !.step = s])
      \/ \E s, h : Goes(a, [j EXCEPT !.step = s, !.heir = h])
      \/ \E t, h, s : Goes(a, [j EXCEPT !.stack = t, !.heir = h, !.step = s])
  <2>1. CASE ReadTip(a)
    BY <1>4, <2>1 DEF ReadTip, j
  <2>2. CASE ReadCheckout(a) \/ FastForward(a) \/ CompareAndSwap(a) \/ WriteLanded(a)
    BY <1>4, <2>2 DEF ReadCheckout, FastForward, CompareAndSwap, WriteLanded, j
  <2>3. CASE WriteRetarget(a)
    BY <1>4, <2>3 DEF WriteRetarget, j
  <2>4. CASE Follow(a)
    <3>1. PICK s \in j.stack :
             Goes(a, [j EXCEPT !.stack = j.stack \ {s},
                               !.heir = IF branch[s.target] = j.head THEN {s} ELSE {},
                               !.step = IF branch[s.target] = j.head
                                        THEN "retarget" ELSE "follow"])
      BY <1>4, <2>4 DEF Follow, j
    <3>. QED  BY <3>1
  <2>. QED  BY <2>1, <2>2, <2>3, <2>4 DEF LandSteps
<1>7. \E k : /\ Goes(a, k)
             /\ k.id = j.id /\ k.seen = j.seen
  <2>1. CASE \E s, t : Goes(a, [j EXCEPT !.step = s, !.tip = t])
    <3>1. PICK s, t : Goes(a, [j EXCEPT !.step = s, !.tip = t])
      BY <2>1, Zenon
    <3>2. /\ [j EXCEPT !.step = s, !.tip = t].id = j.id
          /\ [j EXCEPT !.step = s, !.tip = t].seen = j.seen
      BY <1>5
    <3>. QED  BY <3>1, <3>2, Zenon
  <2>2. CASE \E s : Goes(a, [j EXCEPT !.step = s])
    BY <1>5, <2>2, Zenon
  <2>3. CASE \E s, h : Goes(a, [j EXCEPT !.step = s, !.heir = h])
    <3>1. PICK s, h : Goes(a, [j EXCEPT !.step = s, !.heir = h])
      BY <2>3, Zenon
    <3>2. /\ [j EXCEPT !.step = s, !.heir = h].id = j.id
          /\ [j EXCEPT !.step = s, !.heir = h].seen = j.seen
      BY <1>5
    <3>. QED  BY <3>1, <3>2, Zenon
  <2>4. CASE \E t, h, s : Goes(a, [j EXCEPT !.stack = t, !.heir = h, !.step = s])
    <3>1. PICK t, h, s : Goes(a, [j EXCEPT !.stack = t, !.heir = h, !.step = s])
      BY <2>4, Zenon
    <3>2. /\ [j EXCEPT !.stack = t, !.heir = h, !.step = s].id = j.id
          /\ [j EXCEPT !.stack = t, !.heir = h, !.step = s].seen = j.seen
      BY <1>5
    <3>. QED  BY <3>1, <3>2, Zenon
  <2>. QED  BY <1>6, <2>1, <2>2, <2>3, <2>4
<1>8. job'[a].id = j.id /\ job'[a].seen = j.seen
  BY <1>3, <1>7
<1>. QED  BY <1>1, <1>8 DEF j

LEMMA SeenAreResolvedInit == Init => SeenAreResolved
BY DEF Init, SeenAreResolved, AtRest, LandStep

LEMMA SeenAreResolvedNext ==
    ASSUME TypeOK, RevisionInv, LinesAreAtHome, SeenAreResolved, [Next]_vars
    PROVE  SeenAreResolved'
<1>. DEFINE Fine(b) == job[b].step \in LandStep =>
              job[b].id \in Ids /\ \A n \in job[b].seen : Resolved(job[b].id, n)
<1>1. \A b \in Actors : Fine(b)
  BY DEF SeenAreResolved
<1>2. \A p \in Ids : \A n : Resolved(p, n) => Resolved(p, n)'
  BY ResolvedStays
<1>3. ASSUME NEW b \in Actors, job'[b].id = job[b].id, job'[b].seen = job[b].seen,
             job[b].step \in LandStep
      PROVE  Fine(b)'
  <2>1. PICK p \in Ids : p = job[b].id
    BY <1>1, <1>3
  <2>2. \A n \in job'[b].seen : Resolved(p, n)'
    BY <1>1, <1>2, <1>3, <2>1
  <2>3. (job[b].id)' = p
    BY <1>3, <2>1
  <2>. QED  BY <2>2, <2>3 DEF Resolved, Lines, Revs
<1>4. ASSUME NEW b \in Actors, UNCHANGED job[b]  PROVE Fine(b)'
  BY <1>1, <1>3, <1>4
<1>5. ASSUME NEW a \in Actors, NEW p \in Ids, StartSomething(a, p)
      PROVE  \A b \in Actors : Fine(b)'
  <2>1. Fine(a)'
    <3>1. job'[a].step \in LandStep => job'[a].step = "tip"
      BY <1>5, StartsUnlooked DEF LandStep
    <3>2. ASSUME job'[a].step = "tip", NEW n \in job'[a].seen
          PROVE  Resolved(p, n)'
      <4>1. /\ job'[a].id = p /\ Known(p) /\ Blocking(p) = {}
            /\ \E r \in ToSet(notes[HeadOf(p)]) : IsCommentOn(r, n)
        BY <1>5, <3>2, StartsWithLines
      <4>2. Resolved(p, n)
        BY <4>1, OpenGateAnswers
      <4>3. Resolved(p, n)'
        BY <1>2, <4>2
      <4>. QED  BY <4>3
    <3>3. job'[a].step = "tip" => (job[a].id)' = p
      BY <1>5, StartsWithLines
    <3>. QED  BY <3>1, <3>2, <3>3 DEF Resolved, Lines, Revs
  <2>. QED  BY <1>4, <1>5, <2>1, StartsUnlooked
<1>6. ASSUME NEW a \in Actors, Continue(a) \/ Crash(a)
      PROVE  \A b \in Actors : Fine(b)'
  <2>1. Fine(a)'
    <3>1. CASE job'[a] = AtRest
      BY <3>1 DEF AtRest, LandStep
    <3>2. CASE LandSteps(a) /\ job'[a] # AtRest
      BY <1>3, <3>2, LandKeepsSeen
    <3>3. CASE WriteRef(a) \/ WriteEvent(a) \/ WriteNote(a) \/ RunCheck(a) \/ KillCheck(a)
      BY <3>3, WriteGoes DEF LandStep
    <3>4. CASE Crash(a)
      BY <3>4 DEF Crash, Done, Goes, AtRest, LandStep, TypeOK
    <3>. QED  BY <1>6, <3>1, <3>2, <3>3, <3>4 DEF Continue
  <2>. QED  BY <1>4, <1>6, <2>1, OthersKeepTheirJob
<1>7. ASSUME UNCHANGED job  PROVE \A b \in Actors : Fine(b)'
  BY <1>4, <1>7
<1>8. \A b \in Actors : Fine(b)'
  BY <1>5, <1>6, <1>7 DEF Next, Advance, Checkout, vars
<1>9. ASSUME NEW l \in landings'
      PROVE  l.id \in Ids /\ \A n \in l.seen : Resolved(l.id, n)'
  <2>1. CASE l \in landings
    BY <1>2, <2>1 DEF SeenAreResolved
  <2>2. CASE l \notin landings
    <3>1. PICK a \in Actors : WriteLanded(a)
      BY <1>9, <2>2, StartsUnlooked
      DEF Next, Continue, LandSteps, WriteRef, WriteEvent, WriteNote, RunCheck, KillCheck,
          ReadTip, ReadCheckout, FastForward, CompareAndSwap, Follow, WriteRetarget,
          Crash, Advance, Checkout, vars
    <3>2. l = [id |-> job[a].id, head |-> job[a].head, target |-> job[a].target,
               seen |-> job[a].seen, stack |-> job[a].stack]
      BY <1>9, <2>2, <3>1 DEF WriteLanded
    <3>3. l.id = job[a].id /\ l.seen = job[a].seen
      BY <3>2
    <3>4. job[a].step \in LandStep
      BY <3>1 DEF WriteLanded, At, LandStep
    <3>. QED  BY <1>1, <1>2, <3>3, <3>4
  <2>. QED  BY <2>1, <2>2
<1>. QED  BY <1>8, <1>9 DEF SeenAreResolved, Resolved, Lines, Revs

(* A note that was on the head before a landing read the log has been      *)
(* answered when the landed event is written, and stays answered, however  *)
(* many commands run between the gate and the event: the gate is asked once*)
(* and what it saw cannot be taken back, as long as one process records the*)
(* revisions of a proposal, for a lost revision takes its notes with it.   *)
THEOREM GatesAreNotTakenBack ==
    ASSUME SoloRevision
    PROVE  Spec => []LandingAnswersWhatItSaw
<1>. DEFINE Inv == TypeOK /\ RevisionInv /\ LinesAreAtHome /\ SeenAreResolved
<1>1. Init => Inv
  BY InitType, RevisionInvInit, LinesAreAtHomeInit, SeenAreResolvedInit
<1>2. Inv /\ [Next]_vars => Inv'
  BY NextType, StepKeepsRevisions, NumbersStayFresh, LinesAreAtHomeNext, SeenAreResolvedNext
     DEF RevisionInv
<1>3. Inv => LandingAnswersWhatItSaw
  BY DEF SeenAreResolved, LandingAnswersWhatItSaw
<1>. QED  BY <1>1, <1>2, <1>3, PTL DEF Spec

-----------------------------------------------------------------------------
(* A log that reads.                                                       *)

(* The commits that may become revisions of a proposal.                    *)
Candidates(p) == {FirstCommit[p]} \cup Attempts[p]

(* No commit is proposed twice: the notes of a commit would be those of    *)
(* two proposals, and an answer of the one unreadable in the other.        *)
NoSharedCommits ==
    \A p, q \in Ids : p # q => Candidates(p) \cap Candidates(q) = {}

(* Wherever c is a revision, note n is on it or on one before it.          *)
Anchor(c, n) ==
    \A p \in Ids : \A i \in DOMAIN refs[p] : refs[p][i] = c =>
        \E j \in 1..i : \E s \in ToSet(notes[refs[p][j]]) : IsCommentOn(s, n)

IsRevision(c) == \E p \in Ids : c \in Revs(p)

OwnRevisions == \A p \in Ids : Revs(p) \subseteq Candidates(p)

NoRevisionTwice ==
    \A p \in Ids : \A i, j \in DOMAIN refs[p] : refs[p][i] = refs[p][j] => i = j

(* What is in a note is anchored, and only revisions have notes.           *)
NotesAreAnchored ==
    \A c \in Commits : \A r \in ToSet(notes[c]) :
        IsRevision(c) /\ (IsAnswer(r) => Anchor(c, r.target))

(* What is still to be written will be.                                    *)
WillBeAnchored(a) ==
    /\ job[a].step = "ref" /\ job[a].opening = {} =>
           job[a].commit \in Attempts[job[a].id] \ Revs(job[a].id)
    /\ job[a].step \in {"note", "check"} => IsRevision(job[a].commit)
    /\ job[a].step = "note" =>
           \A r \in ToSet(job[a].lines) : IsAnswer(r) => Anchor(job[a].commit, r.target)

AnchorInv ==
    /\ OwnRevisions /\ NoRevisionTwice /\ NotesAreAnchored
    /\ \A a \in Actors : WillBeAnchored(a)

LEMMA AnchorInvInit == Init => AnchorInv
<1>. SUFFICES ASSUME Init  PROVE AnchorInv
  OBVIOUS
<1>1. \A p \in Ids : refs[p] = <<FirstCommit[p]>> \/ refs[p] = <<>>
  BY DEF Init
<1>2. OwnRevisions /\ NoRevisionTwice
  BY <1>1 DEF OwnRevisions, NoRevisionTwice, Revs, Candidates, ToSet
<1>3. NotesAreAnchored
  BY DEF Init, NotesAreAnchored, ToSet
<1>4. \A a \in Actors : WillBeAnchored(a)
  BY DEF Init, WillBeAnchored, AtRest
<1>. QED  BY <1>2, <1>3, <1>4 DEF AnchorInv

(* How the log grows: revisions stay where they are, and a new one is not  *)
(* yet a revision of anything.                                             *)
LogGrows ==
    /\ \A p \in Ids : \A i \in DOMAIN refs[p] :
           i \in DOMAIN refs'[p] /\ refs'[p][i] = refs[p][i]
    /\ \A p \in Ids : \A i \in DOMAIN refs'[p] :
           i \in DOMAIN refs[p] \/ ~IsRevision(refs'[p][i])
    /\ \A c \in Commits : ToSet(notes[c]) \subseteq ToSet(notes'[c])

LEMMA AnchorStays ==
    ASSUME TypeOK, LogGrows, NEW c, NEW n, IsRevision(c), Anchor(c, n)
    PROVE  Anchor(c, n)' /\ IsRevision(c)'
<1>1. IsRevision(c)'
  <2>1. PICK p \in Ids : \E i \in DOMAIN refs[p] : c = refs[p][i]
    BY DEF IsRevision, Revs, ToSet
  <2>2. PICK i \in DOMAIN refs[p] : i \in DOMAIN refs'[p] /\ refs'[p][i] = c
    BY <2>1 DEF LogGrows
  <2>. QED  BY <2>2 DEF IsRevision, Revs, ToSet
<1>2. ASSUME NEW p \in Ids, NEW i \in DOMAIN refs'[p], refs'[p][i] = c
      PROVE  \E j \in 1..i : \E s \in ToSet(notes'[refs'[p][j]]) : IsCommentOn(s, n)
  <2>1. i \in DOMAIN refs[p] /\ refs[p][i] = c
    BY <1>2 DEF LogGrows
  <2>2. PICK j \in 1..i : \E s \in ToSet(notes[refs[p][j]]) : IsCommentOn(s, n)
    BY <2>1 DEF Anchor
  <2>3. j \in DOMAIN refs[p] /\ refs[p][j] \in Commits
    BY <2>1, <2>2, LenProperties DEF TypeOK
  <2>4. refs'[p][j] = refs[p][j] /\ ToSet(notes[refs[p][j]]) \subseteq ToSet(notes'[refs[p][j]])
    BY <2>3 DEF LogGrows
  <2>. QED  BY <2>2, <2>4
<1>. QED  BY <1>1, <1>2 DEF Anchor, IsCommentOn

(* A comment of the proposal is on the head or before it.                  *)
LEMMA CarriedIsAnchored ==
    ASSUME TypeOK, NoSharedCommits, OwnRevisions, NoRevisionTwice,
           NEW p \in Ids, Known(p), NEW n, Carries(p, n)
    PROVE  Anchor(HeadOf(p), n)
<1>1. HeadOf(p) \in Revs(p)
  BY HeadIsOne
<1>2. PICK k \in DOMAIN refs[p] : \E s \in ToSet(notes[refs[p][k]]) : IsCommentOn(s, n)
  <2>1. PICK c \in Revs(p) : \E s \in ToSet(notes[c]) : IsCommentOn(s, n)
    BY DEF Carries, Lines
  <2>2. \E k \in DOMAIN refs[p] : c = refs[p][k]
    BY <2>1 DEF Revs, ToSet
  <2>. QED  BY <2>1, <2>2
<1>3. ASSUME NEW q \in Ids, NEW i \in DOMAIN refs[q], refs[q][i] = HeadOf(p)
      PROVE  \E j \in 1..i : \E s \in ToSet(notes[refs[q][j]]) : IsCommentOn(s, n)
  <2>1. refs[q][i] \in Revs(q)
    BY DEF Revs, ToSet
  <2>2. q = p
    BY <1>1, <1>3, <2>1 DEF NoSharedCommits, OwnRevisions
  <2>3. Len(refs[p]) \in DOMAIN refs[p] /\ DOMAIN refs[p] = 1..Len(refs[p]) /\ Len(refs[p]) \in Nat
    BY EmptySeq, LenProperties DEF TypeOK, Known
  <2>4. i = Len(refs[p])
    BY <1>3, <2>2, <2>3 DEF HeadOf, NoRevisionTwice
  <2>5. k \in 1..i
    BY <1>2, <2>3, <2>4
  <2>. QED  BY <1>2, <2>2, <2>5
<1>. QED  BY <1>3 DEF Anchor

(* What becomes a revision was none.                                       *)
LEMMA NewRevision ==
    ASSUME NoSharedCommits, TypeOK, RevisionInv, AnchorInv, NEW a \in Actors, WriteRef(a)
    PROVE  LogGrows /\ OwnRevisions' /\ NoRevisionTwice'
<1>0. notes' = notes /\ \A p \in Ids : refs[p] \in Seq(Commits)
  BY DEF WriteRef, TypeOK
<1>1. PICK i \in Ids, c \in Commits :
         /\ i = job[a].id /\ c = job[a].commit
         /\ \A p \in Ids : p # i => refs'[p] = refs[p]
         /\ \/ job[a].opening = {} /\ Known(i) /\ refs'[i] = Append(refs[i], c)
            \/ Known(i) /\ refs'[i] = refs[i]
            \/ ~Known(i) /\ refs'[i] = <<FirstCommit[i]>>
  BY RefWritten, JobFields DEF WriteRef
<1>2. job[a].opening = {} => c \in Attempts[i] \ Revs(i)
  BY <1>1 DEF AnchorInv, WillBeAnchored, WriteRef, At
<1>3. ASSUME NEW x \in Candidates(i), x \notin Revs(i)  PROVE ~IsRevision(x)
  BY <1>1, <1>3 DEF IsRevision, AnchorInv, OwnRevisions, NoSharedCommits
<1>4. CASE refs'[i] = refs[i]
  <2>1. \A p \in Ids : refs'[p] = refs[p]
    BY <1>1, <1>4
  <2>2. LogGrows
    BY <1>0, <2>1 DEF LogGrows
  <2>. QED  BY <2>1, <2>2 DEF AnchorInv, OwnRevisions, NoRevisionTwice, Revs
<1>5. CASE job[a].opening = {} /\ Known(i) /\ refs'[i] = Append(refs[i], c)
  <2>. DEFINE n == Len(refs[i])
  <2>1. /\ n \in Nat /\ DOMAIN refs[i] = 1..n /\ DOMAIN refs'[i] = 1..(n + 1)
        /\ refs'[i][n + 1] = c
        /\ \A k \in 1..n : refs'[i][k] = refs[i][k]
    BY <1>0, <1>1, <1>5
  <2>2. ~IsRevision(c) /\ c \in Candidates(i) /\ \A k \in 1..n : refs[i][k] # c
    <3>1. \A k \in 1..n : refs[i][k] \in Revs(i)
      BY <2>1 DEF Revs, ToSet
    <3>. QED  BY <1>2, <1>3, <1>5, <3>1 DEF Candidates
  <2>. HIDE DEF n
  <2>3. \A k \in 1..(n + 1) : k \in 1..n \/ k = n + 1
    BY <2>1
  <2>4. \A k \in 1..n : k \in 1..(n + 1)
    BY <2>1
  <2>5. LogGrows
    BY <1>0, <1>1, <2>1, <2>2, <2>3, <2>4 DEF LogGrows
  <2>6. OwnRevisions'
    <3>1. Revs(i)' \subseteq Revs(i) \cup {c}
      BY <2>1, <2>3 DEF Revs, ToSet
    <3>2. \A p \in Ids : p # i => Revs(p)' = Revs(p)
      BY <1>1 DEF Revs
    <3>. QED  BY <2>2, <3>1, <3>2 DEF AnchorInv, OwnRevisions, Candidates
  <2>7. NoRevisionTwice'
    <3>1. ASSUME NEW k \in 1..(n + 1), NEW m \in 1..(n + 1), refs'[i][k] = refs'[i][m]
          PROVE  k = m
      <4>1. CASE k \in 1..n /\ m \in 1..n
        <5>1. refs[i][k] = refs[i][m] /\ k \in DOMAIN refs[i] /\ m \in DOMAIN refs[i]
          BY <2>1, <3>1, <4>1
        <5>. QED  BY <1>1, <5>1 DEF AnchorInv, NoRevisionTwice
      <4>2. CASE k \in 1..n /\ m = n + 1
        BY <2>1, <2>2, <3>1, <4>2
      <4>3. CASE k = n + 1 /\ m \in 1..n
        BY <2>1, <2>2, <3>1, <4>3
      <4>. QED  BY <2>3, <4>1, <4>2, <4>3
    <3>. QED  BY <1>1, <2>1, <3>1 DEF AnchorInv, NoRevisionTwice
  <2>. QED  BY <2>5, <2>6, <2>7
<1>6. CASE ~Known(i) /\ refs'[i] = <<FirstCommit[i]>>
  <2>1. /\ DOMAIN refs[i] = {} /\ Revs(i) = {}
        /\ DOMAIN refs'[i] = {1} /\ refs'[i][1] = FirstCommit[i]
    BY <1>6 DEF Known, Revs, ToSet
  <2>2. ~IsRevision(FirstCommit[i])
    BY <1>3, <2>1 DEF Candidates
  <2>3. LogGrows
    BY <1>0, <1>1, <2>1, <2>2 DEF LogGrows
  <2>4. Revs(i)' = {FirstCommit[i]} /\ \A p \in Ids : p # i => Revs(p)' = Revs(p)
    BY <1>1, <2>1 DEF Revs, ToSet
  <2>5. OwnRevisions'
    BY <2>4 DEF AnchorInv, OwnRevisions, Candidates
  <2>6. NoRevisionTwice'
    BY <1>1, <2>1 DEF AnchorInv, NoRevisionTwice
  <2>. QED  BY <2>3, <2>5, <2>6
<1>. QED  BY <1>1, <1>4, <1>5, <1>6

(* Every step grows the log.                                               *)
LEMMA StepGrowsTheLog ==
    ASSUME NoSharedCommits, TypeOK, RevisionInv, AnchorInv, [Next]_vars
    PROVE  LogGrows /\ OwnRevisions' /\ NoRevisionTwice'
<1>1. CASE \E a \in Actors : WriteRef(a)
  BY <1>1, NewRevision
<1>2. CASE UNCHANGED refs
  <2>1. LogGrows
    BY <1>2, NotesGrow DEF LogGrows
  <2>. QED  BY <1>2, <2>1 DEF AnchorInv, OwnRevisions, NoRevisionTwice, Revs
<1>. QED  BY <1>1, <1>2, OnlyRefsAreWritten

LEMMA StillToWrite ==
    ASSUME TypeOK, LogGrows, NEW b \in Actors, WillBeAnchored(b), UNCHANGED job[b],
           job[b].step = "ref" /\ job[b].opening = {} =>
               refs'[job[b].id] = refs[job[b].id]
    PROVE  WillBeAnchored(b)'
<1>1. job[b].step = "ref" /\ job[b].opening = {} =>
          job'[b].commit \in Attempts[job'[b].id] \ Revs(job[b].id)'
  BY DEF WillBeAnchored, Revs
<1>2. job[b].step \in {"note", "check"} => IsRevision(job[b].commit)'
  <2>1. PICK c : c = job[b].commit
    OBVIOUS
  <2>2. IsRevision(c) => IsRevision(c)'
    <3>1. ASSUME NEW p \in Ids, c \in Revs(p)  PROVE c \in Revs(p)'
      BY <3>1 DEF LogGrows, Revs, ToSet
    <3>. QED  BY <3>1 DEF IsRevision
  <2>. QED  BY <2>1, <2>2 DEF WillBeAnchored, IsRevision, Revs
<1>3. ASSUME job[b].step = "note", NEW r \in ToSet(job[b].lines), IsAnswer(r)
      PROVE  Anchor(job[b].commit, r.target)'
  <2>1. PICK c : c = job[b].commit
    OBVIOUS
  <2>2. Anchor(c, r.target) /\ IsRevision(c)
    BY <1>3, <2>1 DEF WillBeAnchored
  <2>3. Anchor(c, r.target)'
    BY <2>2, AnchorStays
  <2>. QED  BY <2>1, <2>3 DEF Anchor
<1>. QED  BY <1>1, <1>2, <1>3 DEF WillBeAnchored, Revs, Anchor, IsRevision

(* A line that was anchored when it was decided on still is where it comes *)
(* to be written.                                                          *)
LEMMA AnchorInvNext ==
    ASSUME SoloRevision, NoSharedCommits, TypeOK, RevisionInv, AnchorInv, [Next]_vars
    PROVE  AnchorInv'
<1>1. LogGrows /\ OwnRevisions' /\ NoRevisionTwice'
  BY StepGrowsTheLog
<1>2. /\ \A b \in Actors : WillBeAnchored(b)
      /\ NotesAreAnchored
  BY DEF AnchorInv
<1>3. ASSUME NEW c \in Commits, NEW r \in ToSet(notes[c])
      PROVE  IsRevision(c)' /\ (IsAnswer(r) => Anchor(c, r.target)')
  <2>1. IsRevision(c)'
    <3>1. IsRevision(c)
      BY <1>2, <1>3 DEF NotesAreAnchored
    <3>2. ASSUME NEW p \in Ids, c \in Revs(p)  PROVE c \in Revs(p)'
      BY <1>1, <3>2 DEF LogGrows, Revs, ToSet
    <3>. QED  BY <3>1, <3>2 DEF IsRevision
  <2>. QED  BY <1>1, <1>2, <1>3, <2>1, AnchorStays DEF NotesAreAnchored
<1>4. ASSUME NEW b \in Actors, UNCHANGED <<job[b], refs>>  PROVE WillBeAnchored(b)'
  BY <1>1, <1>2, <1>4, StillToWrite
<1>5. ASSUME NEW a \in Actors, WriteNote(a) \/ RunCheck(a)
      PROVE  NotesAreAnchored' /\ \A b \in Actors : WillBeAnchored(b)'
  <2>1. PICK r \in Record, c \in Commits :
           /\ c = job[a].commit
           /\ notes' = [notes EXCEPT ![c] = Append(@, r)]
           /\ refs' = refs
           /\ \/ job[a].step = "note" /\ r \in ToSet(job[a].lines)
              \/ job[a].step = "check" /\ r.kind = "check"
           /\ job'[a].step = "note" =>
                 /\ job[a].step = "note" /\ job'[a].commit = c
                 /\ ToSet(job'[a].lines) \subseteq ToSet(job[a].lines)
           /\ job'[a].step = "check" => job[a].step = "check" /\ job'[a].commit = c
    BY <1>5, LineWritten DEF At
  <2>2. IsRevision(c) /\ (IsAnswer(r) => Anchor(c, r.target))
    BY <1>2, <2>1 DEF WillBeAnchored, IsAnswer
  <2>3. IsRevision(c)' /\ (IsAnswer(r) => Anchor(c, r.target)')
    BY <1>1, <2>1, <2>2, AnchorStays DEF IsRevision, Revs
  <2>4. NotesAreAnchored'
    <3>1. ASSUME NEW d \in Commits, NEW l \in ToSet(notes'[d])
          PROVE  IsRevision(d)' /\ (IsAnswer(l) => Anchor(d, l.target)')
      <4>1. notes'[d] = notes[d] \/ (d = c /\ notes'[d] = Append(notes[d], r))
        BY <2>1 DEF TypeOK
      <4>2. ToSet(Append(notes[d], r)) = ToSet(notes[d]) \cup {r}
        BY OneMore DEF TypeOK
      <4>. QED  BY <1>3, <2>3, <3>1, <4>1, <4>2
    <3>. QED  BY <3>1 DEF NotesAreAnchored, IsAnswer
  <2>5. WillBeAnchored(a)'
    <3>1. job'[a].step # "ref"
      BY <1>5, ContinueHasNoRef DEF Continue
    <3>2. job'[a].step \in {"note", "check"} => (job[a].commit)' = c
      BY <2>1
    <3>3. ASSUME job'[a].step = "note", NEW l \in ToSet(job'[a].lines), IsAnswer(l)
          PROVE  Anchor(c, l.target)'
      <4>1. l \in ToSet(job[a].lines) /\ job[a].step = "note"
        BY <2>1, <3>3
      <4>2. Anchor(c, l.target)
        BY <1>2, <2>1, <3>3, <4>1 DEF WillBeAnchored
      <4>. QED  BY <1>1, <2>2, <4>2, AnchorStays
    <3>. QED  BY <2>3, <3>1, <3>2, <3>3 DEF WillBeAnchored, IsRevision, Revs, Anchor, IsAnswer
  <2>6. \A b \in Actors : b # a => WillBeAnchored(b)'
    BY <1>4, <1>5, <2>1, OthersKeepTheirJob DEF Continue
  <2>. QED  BY <2>4, <2>5, <2>6
<1>6. ASSUME \A a \in Actors : ~WriteNote(a) /\ ~RunCheck(a)
      PROVE  NotesAreAnchored'
  <2>1. notes' = notes
    BY <1>6, OnlyNotesAreWritten
  <2>2. \A c \in Commits : \A r \in ToSet(notes'[c]) :
            IsRevision(c)' /\ (IsAnswer(r) => Anchor(c, r.target)')
    BY <1>3, <2>1
  <2>. QED  BY <2>2 DEF NotesAreAnchored, IsAnswer
<1>7. ASSUME NEW a \in Actors, WriteRef(a)  PROVE \A b \in Actors : WillBeAnchored(b)'
  <2>1. WillBeAnchored(a)'
    <3>1. job'[a].step \notin {"ref", "note", "check"}
      BY <1>7, ContinueHasNoRef, NoOtherNotes DEF Continue, WriteRef, WriteNote, RunCheck, At
    <3>. QED  BY <3>1 DEF WillBeAnchored
  <2>2. ASSUME NEW b \in Actors, b # a  PROVE WillBeAnchored(b)'
    <3>1. UNCHANGED job[b]
      BY <1>7, <2>2, OthersKeepTheirJob DEF Continue
    <3>2. ASSUME job[b].step = "ref", job[b].opening = {}
          PROVE  refs'[job[b].id] = refs[job[b].id]
      <4>1. /\ job[b].id \in Ids
            /\ <<b, job[b].id>> \in MayRevise
            /\ Known(job[b].id)
        BY <3>2, JobFields DEF At, RevisionInv, NumbersAreFresh
      <4>. QED  BY <1>7, <2>2, <4>1, RefWritten DEF SoloRevision
    <3>. QED  BY <1>1, <1>2, <3>1, <3>2, StillToWrite
  <2>. QED  BY <2>1, <2>2
<1>8. ASSUME NEW a \in Actors, Continue(a) \/ Crash(a), ~WriteNote(a), ~RunCheck(a), refs' = refs
      PROVE  \A b \in Actors : WillBeAnchored(b)'
  <2>1. job'[a].step \notin {"ref", "note", "check"}
    BY <1>8, ContinueHasNoRef, NoOtherNotes
  <2>2. WillBeAnchored(a)'
    BY <2>1 DEF WillBeAnchored
  <2>. QED  BY <1>4, <1>8, <2>2, OthersKeepTheirJob
<1>9. ASSUME NEW a \in Actors, NEW p \in Ids, StartSomething(a, p)
      PROVE  \A b \in Actors : WillBeAnchored(b)'
  <2>1. UNCHANGED <<refs, notes>> /\ \A b \in Actors : b # a => UNCHANGED job[b]
    BY <1>9, StartsUnlooked DEF log
  <2>2. /\ job'[a].step = "ref" /\ job'[a].opening = {} =>
              job'[a].commit \in Attempts[job'[a].id] \ Revs(job'[a].id)
        /\ job'[a].step \in {"note", "check"} => IsRevision(job'[a].commit)
        /\ job'[a].step = "note" =>
              \A r \in ToSet(job'[a].lines) : IsAnswer(r) => Anchor(job'[a].commit, r.target)
    <3>1. job'[a].step \in {"note", "check"} =>
             job'[a].commit = HeadOf(p) /\ Known(p) /\ IsRevision(HeadOf(p))
      BY <1>9, StartsWithLines, HeadIsOne DEF IsRevision
    <3>2. ASSUME job'[a].step = "note", NEW r \in ToSet(job'[a].lines), IsAnswer(r)
          PROVE  Anchor(HeadOf(p), r.target)
      BY <1>9, <3>1, <3>2, StartsWithLines, CarriedIsAnchored DEF AnchorInv
    <3>. QED  BY <1>9, <3>1, <3>2, StartsWithLines
  <2>3. WillBeAnchored(a)'
    BY <2>1, <2>2 DEF WillBeAnchored, IsRevision, Revs, Anchor, IsAnswer
  <2>. QED  BY <1>4, <2>1, <2>3
<1>10. ASSUME UNCHANGED <<job, refs>>  PROVE \A b \in Actors : WillBeAnchored(b)'
  BY <1>4, <1>10
<1>11. NotesAreAnchored'
  BY <1>5, <1>6
<1>12. \A b \in Actors : WillBeAnchored(b)'
  <2>1. CASE \E a \in Actors : WriteRef(a)
    BY <1>7, <2>1
  <2>2. CASE \E a \in Actors : WriteNote(a) \/ RunCheck(a)
    BY <1>5, <2>2
  <2>3. ASSUME \A a \in Actors : ~WriteRef(a) /\ ~WriteNote(a) /\ ~RunCheck(a)
        PROVE  \A b \in Actors : WillBeAnchored(b)'
    <3>1. refs' = refs
      BY <2>3, OnlyRefsAreWritten
    <3>. QED  BY <1>8, <1>9, <1>10, <2>3, <3>1 DEF Next, Advance, Checkout, vars
  <2>. QED  BY <2>1, <2>2, <2>3
<1>. QED  BY <1>1, <1>11, <1>12 DEF AnchorInv

(* Reading the anchors as the fold does.                                   *)
LEMMA AnchoredLogsRead ==
    ASSUME TypeOK, LinesAreAtHome, NoRevisionTwice, NotesAreAnchored
    PROVE  LogReads
<1>1. ASSUME NEW p \in Ids, NEW c \in Revs(p)  PROVE c \in Commits
  BY <1>1 DEF TypeOK, Revs, ToSet
<1>2. ASSUME NEW p \in Ids  PROVE CodeLinesAreAnchored(p)
  <2>1. ASSUME NEW r \in Lines(p), NamesCode(r)  PROVE r.rev \in Revs(p)
    <3>1. PICK c \in Revs(p) : r \in ToSet(notes[c])
      BY <2>1 DEF Lines
    <3>. QED  BY <1>1, <2>1, <3>1 DEF LinesAreAtHome, AtHome
  <2>. QED  BY <2>1 DEF CodeLinesAreAnchored, NamesCode
<1>3. ASSUME NEW p \in Ids, NEW i \in DOMAIN refs[p], NEW r \in ToSet(notes[refs[p][i]]),
             IsAnswer(r)
      PROVE  \E j \in 1..i : \E s \in ToSet(notes[refs[p][j]]) : IsCommentOn(s, r.target)
  <2>1. refs[p][i] \in Commits
    BY DEF TypeOK
  <2>2. Anchor(refs[p][i], r.target)
    BY <1>3, <2>1 DEF NotesAreAnchored
  <2>. QED  BY <2>2 DEF Anchor
<1>. QED  BY <1>2, <1>3 DEF LogReads, AnswersAreAnchored, NoRevisionTwice

(* A log that reads keeps reading, whatever several processes write on top *)
(* of what each of them read earlier and wherever they die: as long as one *)
(* process at a time records the revisions of a proposal, and no commit is *)
(* proposed in two proposals.                                              *)
THEOREM TheLogKeepsReading ==
    ASSUME SoloRevision, NoSharedCommits
    PROVE  Spec => []LogReads
<1>. DEFINE Inv == TypeOK /\ RevisionInv /\ LinesAreAtHome /\ AnchorInv
<1>1. Init => Inv
  BY InitType, RevisionInvInit, LinesAreAtHomeInit, AnchorInvInit
<1>2. Inv /\ [Next]_vars => Inv'
  BY NextType, StepKeepsRevisions, NumbersStayFresh, LinesAreAtHomeNext, AnchorInvNext
     DEF RevisionInv
<1>3. Inv => LogReads
  BY AnchoredLogsRead DEF AnchorInv
<1>. QED  BY <1>1, <1>2, <1>3, PTL DEF Spec

-----------------------------------------------------------------------------
(* The guards and the fold.  A command asks its questions of the lines as  *)
(* they are written; the code asks the aggregate it folds them into.       *)

(* Every line there is or will be, whoever crashes.                        *)
Written == UNION {ToSet(notes[c]) : c \in Commits}
Waiting == UNION {ToSet(job[a].lines) : a \in {b \in Actors : job[b].step = "note"}}

WrittenOrWaiting == Written \cup Waiting

(* Two comments never have one name.                                       *)
CommentsAreOne ==
    \A r, s \in WrittenOrWaiting : r.kind = "comment" /\ s.kind = "comment" =>
        r.id <= issued /\ (r.id = s.id => r = s)

LEMMA CommentsAreOneInit == Init => CommentsAreOne
BY DEF Init, CommentsAreOne, WrittenOrWaiting, Written, Waiting, ToSet, AtRest

LEMMA StartsNumbered ==
    ASSUME NEW a \in Actors, NEW p \in Ids, StartSomething(a, p)
    PROVE  issued' = issued + 1
BY DEF StartSomething, StartPropose, StartAnnotate, StartDispatch, StartDescribe,
       StartCheck, StartAbandon, StartReply, StartResolve, StartReport, StartRevise,
       StartLand, Issues, Now

(* A line is written in a note, or some process has it to write.           *)
IsToWrite(r, a) == job[a].step = "note" /\ r \in ToSet(job[a].lines)

LEMMA WhereALineIs ==
    ASSUME NEW r
    PROVE  /\ r \in WrittenOrWaiting <=> \/ \E c \in Commits : r \in ToSet(notes[c])
                                        \/ \E a \in Actors : IsToWrite(r, a)
           /\ r \in WrittenOrWaiting' <=> \/ \E c \in Commits : r \in ToSet(notes'[c])
                                         \/ \E a \in Actors : IsToWrite(r, a)'
<1>1. r \in Written <=> \E c \in Commits : r \in ToSet(notes[c])
  BY DEF Written
<1>2. r \in Written' <=> \E c \in Commits : r \in ToSet(notes'[c])
  BY DEF Written
<1>3. r \in Waiting <=> \E a \in Actors : IsToWrite(r, a)
  <2>1. r \in Waiting <=> \E a \in {b \in Actors : job[b].step = "note"} : r \in ToSet(job[a].lines)
    BY DEF Waiting
  <2>2. (\E a \in {b \in Actors : job[b].step = "note"} : r \in ToSet(job[a].lines))
        <=> \E a \in Actors : job[a].step = "note" /\ r \in ToSet(job[a].lines)
    OBVIOUS
  <2>. QED  BY <2>1, <2>2 DEF IsToWrite
<1>4. r \in Waiting' <=> \E a \in Actors : IsToWrite(r, a)'
  <2>1. r \in Waiting' <=> \E a \in {b \in Actors : job'[b].step = "note"} : r \in ToSet(job'[a].lines)
    BY DEF Waiting
  <2>2. (\E a \in {b \in Actors : job'[b].step = "note"} : r \in ToSet(job'[a].lines))
        <=> \E a \in Actors : job'[a].step = "note" /\ r \in ToSet(job'[a].lines)
    OBVIOUS
  <2>. QED  BY <2>1, <2>2 DEF IsToWrite
<1>. QED  BY <1>1, <1>2, <1>3, <1>4 DEF WrittenOrWaiting

(* A step adds at most one comment, and its name is new.                   *)
LEMMA OneCommentAtATime ==
    ASSUME TypeOK, [Next]_vars
    PROVE  /\ issued' \in Nat /\ issued <= issued'
           /\ \E x : \A r \in WrittenOrWaiting' : r.kind = "comment" =>
                  \/ r \in WrittenOrWaiting
                  \/ r = x /\ issued < r.id /\ r.id <= issued'
<1>. DEFINE Old(r) == r \in WrittenOrWaiting
            Mine(b) == {r \in ToSet(job[b].lines) : job[b].step = "note"}
            Later(b) == {r \in ToSet(job'[b].lines) : job'[b].step = "note"}
<1>1. /\ issued \in Nat
      /\ issued' \in {issued, issued + 1}
  <2>1. ASSUME NEW a \in Actors, NEW p \in Ids, StartSomething(a, p)
        PROVE  issued' = issued + 1
    BY <2>1, StartsNumbered
  <2>2. ASSUME NEW a \in Actors, Continue(a) \/ Crash(a)  PROVE issued' = issued
    BY <2>2 DEF Continue, LandSteps, WriteRef, WriteEvent, WriteNote, RunCheck,
                KillCheck, ReadTip, ReadCheckout, FastForward, CompareAndSwap,
                WriteLanded, Follow, WriteRetarget, Crash
  <2>. QED  BY <2>1, <2>2 DEF TypeOK, Next, Advance, Checkout, vars, Now
<1>2. \A r : Old(r) <=> \/ \E c \in Commits : r \in ToSet(notes[c])
                        \/ \E b \in Actors : r \in Mine(b)
  BY WhereALineIs DEF IsToWrite
<1>3. \A r : r \in WrittenOrWaiting' <=> \/ \E c \in Commits : r \in ToSet(notes'[c])
                                         \/ \E b \in Actors : r \in Later(b)
  BY WhereALineIs DEF IsToWrite
<1>4. ASSUME NEW b \in Actors, UNCHANGED job[b]  PROVE Later(b) = Mine(b)
  BY <1>4
<1>5. ASSUME NEW a \in Actors, WriteNote(a) \/ RunCheck(a),
             NEW r \in WrittenOrWaiting', r.kind = "comment"
      PROVE  Old(r)
  <2>1. PICK x \in Record :
           /\ job[a].commit \in Commits
           /\ notes' = [notes EXCEPT ![job[a].commit] = Append(@, x)]
           /\ \/ At(a, "note") /\ x \in ToSet(job[a].lines)
              \/ At(a, "check") /\ x.kind = "check" /\ AtHome(job[a].commit, x)
           /\ job'[a].step = "note" =>
                 /\ At(a, "note") /\ job'[a].commit = job[a].commit
                 /\ ToSet(job'[a].lines) \subseteq ToSet(job[a].lines)
    BY <1>5, LineWritten
  <2>2. ASSUME NEW c \in Commits, r \in ToSet(notes'[c])  PROVE Old(r)
    <3>1. notes'[c] = notes[c] \/ notes'[c] = Append(notes[c], x)
      BY <2>1 DEF TypeOK
    <3>2. ToSet(Append(notes[c], x)) = ToSet(notes[c]) \cup {x}
      BY OneMore DEF TypeOK
    <3>3. r \in ToSet(notes[c]) \/ r = x
      BY <2>2, <3>1, <3>2
    <3>. QED  BY <1>2, <1>5, <2>1, <3>3 DEF At
  <2>3. Later(a) \subseteq Mine(a)
    BY <2>1 DEF At
  <2>4. \A b \in Actors : b # a => Later(b) = Mine(b)
    BY <1>4, <1>5, OthersKeepTheirJob DEF Continue
  <2>. QED  BY <1>2, <1>3, <1>5, <2>2, <2>3, <2>4
<1>6. ASSUME \A a \in Actors : ~WriteNote(a) /\ ~RunCheck(a)
      PROVE  \E x : \A r \in WrittenOrWaiting' : r.kind = "comment" =>
                \/ Old(r)
                \/ r = x /\ issued < r.id /\ r.id <= issued'
  <2>1. notes' = notes
    BY <1>6, OnlyNotesAreWritten
  <2>2. ASSUME NEW a \in Actors, NEW p \in Ids, StartSomething(a, p)
        PROVE  \A r \in WrittenOrWaiting' : r.kind = "comment" =>
                  \/ Old(r)
                  \/ r = Comment(issued', HeadOf(p)) /\ issued < r.id /\ r.id <= issued'
    <3>1. issued' = issued + 1
      BY <2>2, StartsNumbered
    <3>2. \A b \in Actors : b # a => Later(b) = Mine(b)
      BY <1>4, <2>2, StartsUnlooked
    <3>3. ASSUME NEW r \in Later(a), r.kind = "comment"
          PROVE  r = Comment(issued', HeadOf(p)) /\ r.id = issued'
      <4>1. job'[a].step = "note" /\ r \in ToSet(job'[a].lines)
        BY <3>3 DEF At
      <4>2. r = Comment(issued', HeadOf(p))
        BY <2>2, <3>3, <4>1, StartsWithLines
      <4>. QED  BY <4>2 DEF Comment
    <3>4. issued < issued' /\ issued' <= issued'
      BY <1>1, <3>1
    <3>. QED  BY <1>2, <1>3, <2>1, <3>2, <3>3, <3>4
  <2>3. ASSUME \A b \in Actors : Later(b) \subseteq Mine(b)
        PROVE  \A r \in WrittenOrWaiting' : Old(r)
    BY <1>2, <1>3, <2>1, <2>3
  <2>4. ASSUME NEW a \in Actors, Continue(a) \/ Crash(a)
        PROVE  \A b \in Actors : Later(b) \subseteq Mine(b)
    <3>1. Later(a) = {}
      BY <1>6, <2>4, NoOtherNotes DEF At
    <3>. QED  BY <1>4, <2>4, <3>1, OthersKeepTheirJob
  <2>5. ASSUME UNCHANGED job  PROVE \A b \in Actors : Later(b) \subseteq Mine(b)
    BY <1>4, <2>5
  <2>. QED  BY <2>2, <2>3, <2>4, <2>5 DEF Next, Advance, Checkout, vars
<1>. QED  BY <1>1, <1>5, <1>6

LEMMA CommentsAreOneNext ==
    ASSUME TypeOK, CommentsAreOne, [Next]_vars
    PROVE  CommentsAreOne'
<1>1. PICK x : \A r \in WrittenOrWaiting' : r.kind = "comment" =>
                  \/ r \in WrittenOrWaiting
                  \/ r = x /\ issued < r.id /\ r.id <= issued'
  BY OneCommentAtATime
<1>2. issued \in Nat /\ issued' \in Nat /\ issued <= issued'
  BY OneCommentAtATime DEF TypeOK
<1>3. ASSUME NEW r \in WrittenOrWaiting, r.kind = "comment"  PROVE r.id \in Nat
  <2>1. r \in Record
    <3>1. \A c \in Commits : ToSet(notes[c]) \subseteq Record
      BY DEF TypeOK, ToSet
    <3>2. ASSUME NEW b \in Actors, IsToWrite(r, b)  PROVE r \in Record
      <4>1. job[b] \in [step : {"note"}, commit : Commits, lines : Seq(Record) \ {<<>>}]
        BY <3>2, JobFields DEF IsToWrite, At
      <4>2. job[b].lines \in Seq(Record) /\ r \in ToSet(job[b].lines)
        BY <3>2, <4>1 DEF IsToWrite
      <4>. QED  BY <4>2 DEF ToSet
    <3>. QED  BY <3>1, <3>2, WhereALineIs
  <2>. QED  BY <1>3, <2>1 DEF Record
<1>4. ASSUME NEW r \in WrittenOrWaiting', NEW s \in WrittenOrWaiting',
             r.kind = "comment", s.kind = "comment"
      PROVE  r.id <= issued' /\ (r.id = s.id => r = s)
  <2>1. CASE r \in WrittenOrWaiting /\ s \in WrittenOrWaiting
    BY <1>2, <1>3, <1>4, <2>1 DEF CommentsAreOne
  <2>2. CASE r \in WrittenOrWaiting /\ s \notin WrittenOrWaiting
    <3>1. r.id <= issued /\ r.id \in Nat
      BY <1>3, <1>4, <2>2 DEF CommentsAreOne
    <3>2. issued < s.id
      BY <1>1, <1>4, <2>2
    <3>. QED  BY <1>2, <3>1, <3>2
  <2>3. CASE r \notin WrittenOrWaiting /\ s \in WrittenOrWaiting
    <3>1. s.id <= issued /\ s.id \in Nat
      BY <1>3, <1>4, <2>3 DEF CommentsAreOne
    <3>2. issued < r.id /\ r.id <= issued'
      BY <1>1, <1>4, <2>3
    <3>. QED  BY <1>2, <3>1, <3>2
  <2>4. CASE r \notin WrittenOrWaiting /\ s \notin WrittenOrWaiting
    BY <1>1, <1>4, <2>4
  <2>. QED  BY <2>1, <2>2, <2>3, <2>4
<1>. QED  BY <1>4 DEF CommentsAreOne

(* What p is folded from, and how places in it are places in p.            *)
LEMMA NotesInOrder ==
    ASSUME TypeOK, NEW p \in Ids, Known(p),
           NEW logs, logs = NotesOf(refs[p], notes)
    PROVE  /\ Len(refs[p]) \in Nat \ {0} /\ DOMAIN refs[p] = 1..Len(refs[p])
           /\ Len(logs) = Len(refs[p])
           /\ \A i \in 1..Len(refs[p]) : /\ logs[i] = notes[refs[p][i]]
                                         /\ refs[p][i] \in Commits
                                         /\ refs[p][i] \in Revs(p)
                                         /\ logs[i] \in Seq(Record)
           /\ Last(logs) = notes[HeadOf(p)]
           /\ UpToNote(logs, Len(logs)) = Lines(p)
<1>1. refs[p] \in Seq(Commits) /\ refs[p] # <<>>
  BY DEF TypeOK, Known
<1>2. Len(refs[p]) \in Nat \ {0} /\ DOMAIN refs[p] = 1..Len(refs[p])
  BY <1>1
<1>3. logs = [i \in 1..Len(refs[p]) |-> notes[refs[p][i]]]
  BY <1>2 DEF NotesOf
<1>4. \A i \in 1..Len(refs[p]) : logs[i] = notes[refs[p][i]] /\ refs[p][i] \in Commits
  BY <1>1, <1>3
<1>5. \A i \in 1..Len(refs[p]) : logs[i] \in Seq(Record)
  BY <1>4 DEF TypeOK
<1>6. logs \in Seq(Seq(Record)) /\ Len(logs) = Len(refs[p])
  <2>1. logs \in [1..Len(refs[p]) -> Seq(Record)]
    BY <1>3, <1>5
  <2>. QED  BY <1>2, <2>1
<1>7. Last(logs) = notes[HeadOf(p)]
  BY <1>2, <1>4, <1>6 DEF Last, HeadOf
<1>8. \A i \in 1..Len(refs[p]) : refs[p][i] \in Revs(p)
  BY <1>2 DEF Revs, ToSet
<1>9. \A r : r \in UpToNote(logs, Len(logs)) <=> \E i \in 1..Len(refs[p]) : r \in ToSet(logs[i])
  BY <1>6 DEF UpToNote
<1>10. \A r : r \in Lines(p) <=> \E i \in 1..Len(refs[p]) : r \in ToSet(notes[refs[p][i]])
  <2>1. \A r : r \in Lines(p) <=> \E c \in Revs(p) : r \in ToSet(notes[c])
    BY DEF Lines
  <2>2. \A c : c \in Revs(p) <=> \E i \in 1..Len(refs[p]) : c = refs[p][i]
    BY <1>2 DEF Revs, ToSet
  <2>. QED  BY <2>1, <2>2
<1>11. UpToNote(logs, Len(logs)) = Lines(p)
  BY <1>4, <1>9, <1>10
<1>. QED  BY <1>2, <1>4, <1>5, <1>6, <1>7, <1>8, <1>11

(* A log folds exactly when it reads.                                      *)
LEMMA FoldsWhenItReads ==
    ASSUME TypeOK, NEW p \in Ids, Known(p),
           NEW logs, logs = NotesOf(refs[p], notes)
    PROVE  /\ HasOpening(events[refs[p][1]]) /\ NoneTwice(refs[p]) /\ LogsRead(refs[p], logs)
           <=> Reads(p)
<1>1. /\ DOMAIN refs[p] = 1..Len(refs[p]) /\ Len(logs) = Len(refs[p])
      /\ \A i \in 1..Len(refs[p]) : logs[i] = notes[refs[p][i]]
  BY NotesInOrder
<1>2. HasOpening(events[refs[p][1]]) <=>
         \E i \in DOMAIN events[FirstOf(p)] : IsOpening(events[FirstOf(p)][i])
  BY DEF HasOpening, FirstOf
<1>3. (\A i \in 1..Len(refs[p]) : \A r \in ToSet(logs[i]) : IsAnchored(r, UpToNote(logs, i)))
      <=> AnswersAreAnchored(p)
  <2>1. ASSUME NEW i \in 1..Len(refs[p]), NEW r
        PROVE  IsAnchored(r, UpToNote(logs, i)) <=>
                  (IsAnswer(r) => \E j \in 1..i : \E s \in ToSet(notes[refs[p][j]]) :
                                     IsCommentOn(s, r.target))
    <3>1. \A j \in 1..i : j \in 1..Len(refs[p])
      BY NotesInOrder
    <3>2. \A s : s \in UpToNote(logs, i) <=> \E j \in 1..i : s \in ToSet(notes[refs[p][j]])
      BY <1>1, <3>1 DEF UpToNote
    <3>. QED  BY <3>2 DEF IsAnchored, IsCommentOn
  <2>. QED  BY <1>1, <2>1 DEF AnswersAreAnchored
<1>4. (\A i \in 1..Len(refs[p]) : \A r \in ToSet(logs[i]) : IsPlaced(r, refs[p]))
      <=> CodeLinesAreAnchored(p)
  <2>1. \A r : r \in Lines(p) <=> \E i \in 1..Len(refs[p]) : r \in ToSet(logs[i])
    <3>1. Lines(p) = UpToNote(logs, Len(logs))
      BY NotesInOrder
    <3>. QED  BY <1>1, <3>1 DEF UpToNote
  <2>2. \A r : IsPlaced(r, refs[p]) <=>
               (r.kind \in {"comment", "rationale", "check"} => r.rev \in Revs(p))
    BY DEF IsPlaced, IsAboutCode, Revs
  <2>. QED  BY <2>1, <2>2 DEF CodeLinesAreAnchored
<1>5. LogsRead(refs[p], logs) <=> AnswersAreAnchored(p) /\ CodeLinesAreAnchored(p)
  BY <1>1, <1>3, <1>4 DEF LogsRead, NoteReads
<1>. QED  BY <1>2, <1>5 DEF NoneTwice, Reads

(* Where it is aimed and whether it is open.                               *)
LEMMA EventsFold ==
    ASSUME TypeOK, NEW p \in Ids, Known(p), HasOpening(events[FirstOf(p)])
    PROVE  /\ (StateOf(events[FirstOf(p)]) = "open") <=> IsOpen(p)
           /\ AimsAt(p, Target(OpeningOf(events[FirstOf(p)]).target, events[FirstOf(p)]))
<1>. DEFINE told == events[FirstOf(p)]
<1>1. told \in Seq(Event)
  BY HeadIsCommit DEF TypeOK
<1>2. (StateOf(told) = "open") <=> IsOpen(p)
  <2>1. PICK n : n = SelectInSeq(told, IsEnding)
    OBVIOUS
  <2>2. n = 0 <=> ~\E i \in DOMAIN told : told[i].kind \in {"landed", "abandoned"}
    BY <1>1, <2>1, FirstEnding
  <2>3. n # 0 => told[n].kind \in {"landed", "abandoned"}
    BY <1>1, <2>1, FirstEnding
  <2>4. IsOpen(p) <=> ~\E i \in DOMAIN told : told[i].kind \in {"landed", "abandoned"}
    BY DEF IsOpen, IsEnding
  <2>5. StateOf(told) = IF n = 0 THEN "open" ELSE told[n].kind
    BY <2>1 DEF StateOf
  <2>. QED  BY <2>2, <2>3, <2>4, <2>5
<1>3. PICK o : o = SelectInSeq(told, IsOpening)
  OBVIOUS
<1>4. /\ o \in DOMAIN told /\ told[o].kind = "opened"
      /\ \A i \in DOMAIN told : told[i].kind = "opened" => o <= i
  <2>1. o = 0 <=> ~\E i \in DOMAIN told : told[i].kind = "opened"
    BY <1>1, <1>3, FirstOpening
  <2>2. o # 0
    BY <2>1 DEF HasOpening, IsOpening
  <2>. QED  BY <1>1, <1>3, <2>2, FirstOpening
<1>5. PICK b : b = Target(told[o].target, told)
  OBVIOUS
<1>6. Moves(told) = {i \in DOMAIN told : told[i].kind = "retargeted"}
  BY DEF Moves, IsMove
<1>7. \A i \in Moves(told) : told[i].at \in Int
  <2>1. \A e \in Event : e.at \in Nat
    BY DEF Event
  <2>2. \A i \in DOMAIN told : told[i] \in Event
    BY <1>1
  <2>. QED  BY <1>6, <2>1, <2>2
<1>0. AimsAt(p, b) <=>
         \E i \in DOMAIN told :
            /\ told[i].kind \in {"opened", "retargeted"}
            /\ told[i].target = b
            /\ IF \E j \in DOMAIN told : told[j].kind = "retargeted"
               THEN /\ told[i].kind = "retargeted"
                    /\ \A j \in DOMAIN told : told[j].kind = "retargeted" =>
                          \/ told[j].at < told[i].at
                          \/ told[j].at = told[i].at /\ j <= i
               ELSE \A j \in DOMAIN told : told[j].kind = "opened" => i <= j
  BY DEF AimsAt, IsMove, IsOpening
<1>. HIDE DEF told
<1>8. ASSUME Moves(told) = {}  PROVE AimsAt(p, b)
  <2>1. b = told[o].target
    BY <1>1, <1>5, <1>7, <1>8, TargetIsOfTheLatest
  <2>2. ~\E j \in DOMAIN told : told[j].kind = "retargeted"
    BY <1>6, <1>8
  <2>. QED  BY <1>0, <1>4, <2>1, <2>2
<1>9. ASSUME Moves(told) # {}  PROVE AimsAt(p, b)
  <2>1. PICK i \in Moves(told) : IsLatestMove(told, i) /\ b = told[i].target
    BY <1>1, <1>5, <1>7, <1>9, TargetIsOfTheLatest
  <2>2. i \in DOMAIN told /\ told[i].kind = "retargeted"
    BY <1>6
  <2>3. \A j \in DOMAIN told : told[j].kind = "retargeted" =>
            \/ told[j].at < told[i].at
            \/ told[j].at = told[i].at /\ j <= i
    <3>1. \A j \in DOMAIN told : told[j].kind = "retargeted" => j \in Moves(told)
      BY <1>6
    <3>. QED  BY <2>1, <3>1 DEF IsLatestMove
  <2>. QED  BY <1>0, <2>1, <2>2, <2>3
<1>10. AimsAt(p, b)
  BY <1>8, <1>9
<1>. QED  BY <1>2, <1>3, <1>5, <1>10 DEF OpeningOf, told

LEMMA LinesAreRecords ==
    ASSUME TypeOK, NEW p \in Ids, NEW r \in Lines(p)
    PROVE  r \in Record /\ \E c \in Revs(p) : c \in Commits /\ r \in ToSet(notes[c])
<1>1. PICK c \in Revs(p) : r \in ToSet(notes[c])
  BY DEF Lines
<1>2. c \in Commits
  BY DEF TypeOK, Revs, ToSet
<1>3. notes[c] \in Seq(Record)
  BY <1>2 DEF TypeOK
<1>. QED  BY <1>1, <1>2, <1>3 DEF ToSet

(* The comments that block are those nobody resolved: one for every name   *)
(* is kept, and no two have one.                                           *)
LEMMA CommentsFold ==
    ASSUME TypeOK, CommentsAreOne, NEW p \in Ids, Known(p),
           NEW r, r.revs = refs[p], r.comments \in Seq(Record), Says(r, Lines(p))
    PROVE  OpenComments(r) = Blocking(p)
<1>1. HeadRev(r) = HeadOf(p)
  BY DEF HeadRev, HeadOf, Last
<1>2. ASSUME NEW x \in Lines(p), NEW y \in Lines(p), x.kind = "comment", y.kind = "comment",
             x.id = y.id
      PROVE  x = y
  <2>1. x \in WrittenOrWaiting /\ y \in WrittenOrWaiting
    BY LinesAreRecords, WhereALineIs
  <2>. QED  BY <1>2, <2>1 DEF CommentsAreOne
<1>3. \A x : x \in ToSet(r.comments) <=> x \in Lines(p) /\ x.kind = "comment"
  <2>1. \A i \in DOMAIN r.comments : r.comments[i] \in Lines(p) /\ r.comments[i].kind = "comment"
    BY DEF Says
  <2>2. \A x \in Lines(p) : x.kind = "comment" =>
            \E i \in DOMAIN r.comments : r.comments[i].id = x.id
    BY DEF Says
  <2>3. ASSUME NEW x \in Lines(p), x.kind = "comment"  PROVE \E i \in DOMAIN r.comments : r.comments[i] = x
    BY <1>2, <2>1, <2>2, <2>3
  <2>4. \A x : x \in ToSet(r.comments) <=> \E i \in DOMAIN r.comments : r.comments[i] = x
    BY DEF ToSet
  <2>. QED  BY <2>1, <2>3, <2>4
<1>4. \A n : n \in r.resolved <=> Resolved(p, n)
  <2>1. r.resolved = {x.target : x \in {y \in Lines(p) : y.kind = "resolve"}}
    BY DEF Says
  <2>. QED  BY <2>1 DEF Resolved
<1>5. \A x : x \in OpenComments(r) <=>
            x \in ToSet(r.comments) /\ x.id \notin r.resolved /\ x.rev = HeadOf(p)
  BY <1>1 DEF OpenComments, Conversation
<1>6. \A x : x \in Blocking(p) <=>
            x \in Lines(p) /\ x.kind = "comment" /\ x.rev = HeadOf(p) /\ ~Resolved(p, x.id)
  BY DEF Blocking
<1>. QED  BY <1>3, <1>4, <1>5, <1>6

(* The verdicts on the head are the last of each name in its own note:     *)
(* what stood before it ran on another revision.                           *)
LEMMA VerdictsFold ==
    ASSUME TypeOK, LinesAreAtHome, NEW p \in Ids, Known(p), NoneTwice(refs[p]),
           NEW logs, logs = NotesOf(refs[p], notes),
           NEW r, r.revs = refs[p], VerdictsStand(r, logs), NEW k, NEW ok
    PROVE  Answered(p, k, ok) <=> \E v \in Checks(r) : v.name = k /\ v.passed = ok
<1>. DEFINE ran == notes[HeadOf(p)]
            N   == Len(refs[p])
<1>1. /\ N \in Nat \ {0} /\ DOMAIN refs[p] = 1..N /\ Len(logs) = N
      /\ \A i \in 1..N : logs[i] = notes[refs[p][i]] /\ refs[p][i] \in Commits
      /\ Last(logs) = ran /\ HeadOf(p) = refs[p][N]
  BY NotesInOrder DEF HeadOf
<1>2. HeadRev(r) = HeadOf(p)
  BY DEF HeadRev, HeadOf, Last
<1>3. ran \in Seq(Record) /\ HeadOf(p) \in Commits
  BY HeadIsCommit DEF TypeOK
<1>4. PICK older : /\ older.checks \subseteq {x \in UpToNote(logs, N - 1) : x.kind = "check"}
                   /\ \A v : v \in r.checks <=> Stands(older, ran, Len(ran), v)
  BY <1>1 DEF VerdictsStand
<1>5. ASSUME NEW v \in older.checks  PROVE v.rev # HeadOf(p)
  <2>1. v.kind = "check" /\ v \in UpToNote(logs, N - 1)
    BY <1>4
  <2>2. PICK j \in 1..(N - 1) : v \in ToSet(logs[j])
    BY <2>1 DEF UpToNote
  <2>3. j \in 1..N /\ N \in 1..N /\ j # N
    BY <1>1
  <2>4. refs[p][j] # HeadOf(p)
    BY <1>1, <2>3 DEF NoneTwice
  <2>5. AtHome(refs[p][j], v)
    BY <1>1, <2>2, <2>3 DEF LinesAreAtHome
  <2>. QED  BY <2>1, <2>4, <2>5 DEF AtHome, NamesCode
<1>6. \A i \in DOMAIN ran : ran[i].kind = "check" => ran[i].rev = HeadOf(p)
  <2>1. \A i \in DOMAIN ran : ran[i] \in ToSet(ran)
    BY DEF ToSet
  <2>. QED  BY <1>3, <2>1 DEF LinesAreAtHome, AtHome, NamesCode
<1>7. DOMAIN ran = 1..Len(ran)
  BY <1>3
<1>. HIDE DEF ran, N
<1>8. \A v : v \in Checks(r) <=>
            /\ v.rev = HeadOf(p)
            /\ \E j \in DOMAIN ran :
                  /\ v = ran[j] /\ v.kind = "check"
                  /\ \A m \in DOMAIN ran : ran[m].kind = "check" /\ ran[m].name = v.name => m <= j
  BY <1>2, <1>4, <1>5, <1>7 DEF Checks, Stands, IsVerdict
<1>9. Answered(p, k, ok) <=>
         \E i \in DOMAIN ran :
            /\ ran[i].kind = "check" /\ ran[i].name = k /\ ran[i].passed = ok
            /\ \A j \in DOMAIN ran : ran[j].kind = "check" /\ ran[j].name = k => j <= i
  BY DEF Answered, ran
<1>10. ASSUME Answered(p, k, ok)  PROVE \E v \in Checks(r) : v.name = k /\ v.passed = ok
  <2>1. PICK i \in DOMAIN ran :
            /\ ran[i].kind = "check" /\ ran[i].name = k /\ ran[i].passed = ok
            /\ \A j \in DOMAIN ran : ran[j].kind = "check" /\ ran[j].name = k => j <= i
    BY <1>9, <1>10
  <2>2. ran[i] \in Checks(r)
    BY <1>6, <1>8, <2>1
  <2>. QED  BY <2>1, <2>2
<1>11. ASSUME NEW v \in Checks(r), v.name = k, v.passed = ok  PROVE Answered(p, k, ok)
  BY <1>8, <1>9, <1>11
<1>. QED  BY <1>10, <1>11

LEMMA TheFoldAnswersTheGuards ==
    ASSUME TypeOK, LinesAreAtHome, CommentsAreOne, NEW p \in Ids, Known(p),
           NEW r, r = Rebuild(refs[p], events, notes)
    PROVE  /\ r.ok = Reads(p)
           /\ r.ok => /\ (r.state = "open") = IsOpen(p)
                      /\ AimsAt(p, r.target)
                      /\ OpenComments(r) = Blocking(p)
                      /\ Landable(r, Required) = Gate(p)
                      /\ \A k, ok : Answered(p, k, ok) <=>
                            \E v \in Checks(r) : v.name = k /\ v.passed = ok
<1>. DEFINE told == events[FirstOf(p)]
<1>1. PICK logs : logs = NotesOf(refs[p], notes)
  OBVIOUS
<1>2. /\ r.ok \in BOOLEAN
      /\ r.ok <=> HasOpening(told) /\ NoneTwice(refs[p]) /\ LogsRead(refs[p], logs)
      /\ r.ok => /\ r.revs = refs[p] /\ r.state = StateOf(told)
                 /\ r.target = Target(OpeningOf(told).target, told)
                 /\ r.comments \in Seq(Record)
                 /\ Says(r, UpToNote(logs, Len(logs)))
                 /\ VerdictsStand(r, logs)
  <2>1. refs[p] \in Seq(Commits) /\ refs[p] # <<>>
    BY DEF TypeOK, Known
  <2>2. events[refs[p][1]] \in Seq(Event)
    BY HeadIsCommit DEF TypeOK, FirstOf
  <2>3. AreLines(Record)
    BY DEF AreLines, LineKinds, Record
  <2>4. \A i \in DOMAIN refs[p] : notes[refs[p][i]] \in Seq(Record)
    BY <2>1 DEF TypeOK
  <2>5. PICK revs, story : revs = refs[p] /\ story = events[revs[1]]
    OBVIOUS
  <2>6. /\ revs \in Seq(Commits) /\ revs # <<>> /\ events[revs[1]] \in Seq(Event)
        /\ \A i \in DOMAIN revs : notes[revs[i]] \in Seq(Record)
        /\ logs = NotesOf(revs, notes) /\ r = Rebuild(revs, events, notes)
    BY <1>1, <2>1, <2>2, <2>4, <2>5
  <2>7. /\ r.ok \in BOOLEAN
        /\ r.ok <=> HasOpening(story) /\ NoneTwice(revs) /\ LogsRead(revs, logs)
    BY <2>3, <2>5, <2>6, WhatALogSays
  <2>8. r.ok => ReadsAs(r, revs, story, logs, Record)
    BY <2>3, <2>5, <2>6, WhatALogSays
  <2>9. story = told
    BY <2>5 DEF FirstOf
  <2>. QED  BY <2>5, <2>7, <2>8, <2>9 DEF ReadsAs
<1>3. r.ok <=> Reads(p)
  BY <1>1, <1>2, FoldsWhenItReads DEF FirstOf
<1>4. UpToNote(logs, Len(logs)) = Lines(p)
  BY <1>1, NotesInOrder
<1>5. ASSUME r.ok
      PROVE  /\ (r.state = "open") <=> IsOpen(p)
             /\ AimsAt(p, r.target)
  BY <1>2, <1>5, EventsFold
<1>6. ASSUME r.ok  PROVE OpenComments(r) = Blocking(p)
  BY <1>2, <1>4, <1>6, CommentsFold
<1>7. ASSUME r.ok, NEW k, NEW ok
      PROVE  Answered(p, k, ok) <=> \E v \in Checks(r) : v.name = k /\ v.passed = ok
  BY <1>1, <1>2, <1>7, VerdictsFold
<1>8. ASSUME r.ok, NEW v \in Checks(r)  PROVE v.passed <=> v.passed = TRUE
  <2>1. v \in Lines(p) /\ v.kind = "check"
    BY <1>2, <1>4, <1>8 DEF Checks, Says
  <2>2. v \in Record
    BY <2>1, LinesAreRecords
  <2>3. v.passed = TRUE \/ v.passed = FALSE
    BY <2>1, <2>2 DEF Record
  <2>. QED  BY <2>3
<1>9. ASSUME r.ok  PROVE Landable(r, Required) <=> Gate(p)
  <2>0. ASSUME NEW k
        PROVE  Answered(p, k, TRUE) <=> \E v \in Checks(r) : v.name = k /\ v.passed = TRUE
    <3>1. PICK ok : ok = TRUE
      OBVIOUS
    <3>2. Answered(p, k, ok) <=> \E v \in Checks(r) : v.name = k /\ v.passed = ok
      BY <1>7, <1>9
    <3>3. Answered(p, k, ok) <=> Answered(p, k, TRUE)
      BY <3>1 DEF Answered
    <3>. QED  BY <3>1, <3>2, <3>3
  <2>1. \A k : Answered(p, k, TRUE) <=> \E v \in Checks(r) : v.name = k /\ v.passed
    BY <1>8, <1>9, <2>0, Zenon
  <2>. QED  BY <1>5, <1>6, <1>9, <2>1 DEF Landable, Gate
<1>10. /\ IsOpen(p) \in BOOLEAN /\ Reads(p) \in BOOLEAN /\ Gate(p) \in BOOLEAN
       /\ Landable(r, Required) \in BOOLEAN
  BY DEF IsOpen, Reads, Gate, Landable
<1>. QED  BY <1>2, <1>3, <1>5, <1>6, <1>7, <1>9, <1>10

(* In every state, what the commands ask of the log before they write      *)
(* (whether it reads, whether the proposal is open, where it is aimed,     *)
(* which notes block it, what each check said, whether the gate opens) is  *)
(* what the aggregate answers once snapshot.rs has folded the log into it: *)
(* whatever the processes wrote in whatever order, also when the log does  *)
(* not read.                                                               *)
THEOREM GuardsAreWhatTheFoldAnswers == Spec => []GuardsAreTheFold
<1>. DEFINE Inv == TypeOK /\ LinesAreAtHome /\ CommentsAreOne
<1>1. Init => Inv
  BY InitType, LinesAreAtHomeInit, CommentsAreOneInit
<1>2. Inv /\ [Next]_vars => Inv'
  BY NextType, LinesAreAtHomeNext, CommentsAreOneNext
<1>3. Inv => GuardsAreTheFold
  <2>. SUFFICES ASSUME Inv, NEW p \in Ids, Known(p), NEW r, r = Rebuild(refs[p], events, notes)
                PROVE  /\ r.ok = Reads(p)
                       /\ r.ok => /\ (r.state = "open") = IsOpen(p)
                                  /\ AimsAt(p, r.target)
                                  /\ OpenComments(r) = Blocking(p)
                                  /\ Landable(r, Required) = Gate(p)
                                  /\ \A k \in ToSet(CheckOrder), ok \in BOOLEAN :
                                        Answered(p, k, ok) <=>
                                            \E v \in Checks(r) : v.name = k /\ v.passed = ok
    BY DEF GuardsAreTheFold
  <2>. QED  BY TheFoldAnswersTheGuards
<1>. QED  BY <1>1, <1>2, <1>3, PTL DEF Spec

-----------------------------------------------------------------------------
(* What was stacked.                                                       *)

(* A landing under way, and one that is over but for its stack.            *)
Under(a)     == job[a].step \in {"tip", "where", "fast-forward", "swap", "landed"}
Following(a) == job[a].step \in {"follow", "retarget"}

(* Whether the proposal that opened at c has ended, or was retargeted.     *)
NotEnded(c) == \A i \in DOMAIN events[c] : ~IsEnding(events[c][i])
HasMoved(c) == \E i \in DOMAIN events[c] : IsMove(events[c][i])

(* If l and m land the same proposal, m does not land it on a branch that  *)
(* l found another open proposal aimed at.                                 *)
Apart(l, m) ==
    l.id = m.id => \A s \in l.stack :
        s.target \notin Pushed /\ NotEnded(s.first) => s.target # m.target

(* Two processes landing one proposal at once: one that read the log       *)
(* before the proposal was retargeted does not land it, on the branch it   *)
(* was aimed at then, under what the other found stacked there.            *)
RivalsApart ==
    \A a, b \in Actors : a # b /\ Under(a) /\ Under(b) => Apart(job[a], job[b])

(* The first revision is always the commit a proposal is named after.      *)
OwnRefs ==
    /\ \A p \in Ids : Revs(p) \subseteq Candidates(p) /\ (Known(p) => FirstOf(p) = FirstCommit[p])
    /\ \A a \in Actors : At(a, "ref") =>
          /\ job[a].commit \in Candidates(job[a].id)
          /\ job[a].number = 1 => job[a].commit = FirstCommit[job[a].id]
          /\ job[a].number # 1 => Known(job[a].id)

(* A landing is about its proposal, and its stack about other branches.    *)
OwnHeads ==
    /\ \A a \in Actors : Under(a) =>
          /\ job[a].head \in Candidates(job[a].id)
          /\ job[a].first = FirstCommit[job[a].id]
          /\ \A s \in job[a].stack : s.target # job[a].target
    /\ \A l \in landings : l.head \in Candidates(l.id)

(* What landed has ended.                                                  *)
LandingsEnd == \A l \in landings : ~NotEnded(FirstCommit[l.id])

(* The same of landings that are over, with each other and with the rest.  *)
LandingsApart ==
    /\ \A l, m \in landings : Apart(l, m)
    /\ \A l \in landings : \A a \in Actors :
           Under(a) => Apart(l, job[a]) /\ Apart(job[a], l)

(* A proposal is only ever told to land where another one landed.          *)
Visited(b) == \E l \in landings : l.target = b

MovesAreLandings ==
    /\ \A c \in Commits : \A i \in DOMAIN events[c] :
          IsMove(events[c][i]) => Visited(events[c][i].target)
    /\ \A a \in Actors :
          /\ At(a, "event") => ~IsMove(job[a].event)
          /\ At(a, "ref") => \A e \in job[a].opening : ~IsMove(e)
          /\ Following(a) => Visited(job[a].target)

(* Branches, and whatever lands on them, are past where they began.        *)
BranchesStart ==
    /\ \A b \in Branches : InHistory(Start[b], branch[b])
    /\ \A a \in Actors : job[a].step \in {"where", "fast-forward", "swap", "landed"} =>
          InHistory(Start[job[a].target], job[a].head)
    /\ \A l \in landings : InHistory(Start[l.target], l.head)

(* A branch nobody pushes to is where it was, or a landing moved it.       *)
MovedByLandings ==
    \A b \in Branches \ Pushed :
        \/ branch[b] = Start[b]
        \/ \E l \in landings : l.target = b /\ l.head = branch[b]
        \/ \E a \in Actors : job[a].step = "landed" /\ job[a].target = b
                                                    /\ job[a].head = branch[b]

(* One retarget at a time waits to be written.                             *)
OneHeir ==
    \A a \in Actors :
        /\ Under(a) \/ At(a, "follow") => job[a].heir = {}
        /\ At(a, "retarget") => \E s \in Stacked : job[a].heir = {s}

(* A landing of head h has still to look at s, or to tell it.              *)
ToFollow(h, s) ==
    \E a \in Actors : /\ Following(a) /\ job[a].head = h
                      /\ s \in job[a].stack \cup job[a].heir

(* What is stacked on a landed head, on a branch that never moved, is told *)
(* or will be.                                                             *)
AllAreFollowed ==
    \A l \in landings : \A s \in l.stack :
        branch[s.target] = Start[s.target] /\ Start[s.target] = l.head =>
            ToFollow(l.head, s) \/ HasMoved(s.first)

-----------------------------------------------------------------------------
(* What each step of a landing keeps of its job.                           *)
LEMMA LandTurns ==
    ASSUME TypeOK, NEW a \in Actors, LandSteps(a), job'[a] # AtRest
    PROVE  /\ job[a] \in LandJob
           /\ job'[a].id = job[a].id /\ job'[a].first = job[a].first
           /\ job'[a].head = job[a].head /\ job'[a].target = job[a].target
           /\ \/ /\ ReadTip(a) \/ ReadCheckout(a) \/ FastForward(a) \/ CompareAndSwap(a)
                 /\ Under(a) /\ Under(a)'
                 /\ job'[a].stack = job[a].stack /\ job'[a].heir = job[a].heir
              \/ /\ WriteLanded(a)
                 /\ At(a, "landed") /\ At(a, "follow")'
                 /\ job'[a].stack = job[a].stack /\ job'[a].heir = job[a].heir
              \/ /\ Follow(a) /\ At(a, "follow")
                 /\ \E s \in job[a].stack :
                       /\ job'[a].stack = job[a].stack \ {s}
                       /\ \/ /\ branch[s.target] = job[a].head
                             /\ job'[a].heir = {s} /\ At(a, "retarget")'
                          \/ /\ branch[s.target] # job[a].head
                             /\ job'[a].heir = {} /\ At(a, "follow")'
              \/ /\ WriteRetarget(a) /\ At(a, "retarget") /\ At(a, "follow")'
                 /\ job'[a].stack = job[a].stack /\ job'[a].heir = {}
<1>. DEFINE j == job[a]
            Keeps(k) == /\ k.id = j.id /\ k.first = j.first
                        /\ k.head = j.head /\ k.target = j.target
<1>1. j \in LandJob
  BY JobFields DEF LandSteps, ReadTip, ReadCheckout, FastForward, CompareAndSwap,
                   WriteLanded, Follow, WriteRetarget, At, LandStep
<1>2. \A k : Goes(a, k) => job'[a] = k
  BY DEF Goes, TypeOK
<1>3. ~Done(a)
  BY <1>2 DEF Done
<1>4. job[a] = j
  OBVIOUS
<1>. HIDE DEF j
<1>5. CASE ReadTip(a)
  <2>. DEFINE k == [j EXCEPT !.step = "where", !.tip = branch[j.target]]
  <2>1. /\ k.step = "where" /\ Keeps(k) /\ k.stack = j.stack /\ k.heir = j.heir
    BY <1>1 DEF LandJob
  <2>2. Goes(a, k)
    BY <1>3, <1>4, <1>5 DEF ReadTip
  <2>3. Under(a)
    BY <1>5 DEF ReadTip, At, Under
  <2>. HIDE DEF k
  <2>. QED  BY <1>1, <1>2, <1>4, <1>5, <2>1, <2>2, <2>3 DEF Under
<1>6. CASE ReadCheckout(a)
  <2>. DEFINE step == IF checkout = j.target THEN "fast-forward" ELSE "swap"
              k == [j EXCEPT !.step = step]
  <2>1. k.step = step /\ Keeps(k) /\ k.stack = j.stack /\ k.heir = j.heir
    BY <1>1 DEF LandJob
  <2>2. Goes(a, k)
    BY <1>4, <1>6 DEF ReadCheckout
  <2>3. Under(a)
    BY <1>6 DEF ReadCheckout, At, Under
  <2>. HIDE DEF k
  <2>. QED  BY <1>1, <1>2, <1>4, <1>6, <2>1, <2>2, <2>3 DEF Under
<1>7. CASE FastForward(a) \/ CompareAndSwap(a)
  <2>. DEFINE k == [j EXCEPT !.step = "landed"]
  <2>1. k.step = "landed" /\ Keeps(k) /\ k.stack = j.stack /\ k.heir = j.heir
    BY <1>1 DEF LandJob
  <2>2. Goes(a, k)
    BY <1>3, <1>4, <1>7 DEF FastForward, CompareAndSwap
  <2>3. Under(a)
    BY <1>7 DEF FastForward, CompareAndSwap, At, Under
  <2>. HIDE DEF k
  <2>. QED  BY <1>1, <1>2, <1>4, <1>7, <2>1, <2>2, <2>3 DEF Under
<1>8. CASE WriteLanded(a)
  <2>. DEFINE k == [j EXCEPT !.step = "follow"]
  <2>1. k.step = "follow" /\ Keeps(k) /\ k.stack = j.stack /\ k.heir = j.heir
    BY <1>1 DEF LandJob
  <2>2. Goes(a, k) /\ At(a, "landed")
    BY <1>4, <1>8 DEF WriteLanded
  <2>. HIDE DEF k
  <2>. QED  BY <1>1, <1>2, <1>4, <1>8, <2>1, <2>2 DEF At
<1>9. CASE Follow(a)
  <2>1. PICK s \in j.stack :
           Goes(a, [j EXCEPT !.stack = @ \ {s},
                             !.heir = IF branch[s.target] = j.head THEN {s} ELSE {},
                             !.step = IF branch[s.target] = j.head
                                      THEN "retarget" ELSE "follow"])
    BY <1>3, <1>4, <1>9 DEF Follow
  <2>. DEFINE heir == IF branch[s.target] = j.head THEN {s} ELSE {}
              step == IF branch[s.target] = j.head THEN "retarget" ELSE "follow"
              k == [j EXCEPT !.stack = j.stack \ {s}, !.heir = heir, !.step = step]
  <2>2. k.step = step /\ Keeps(k) /\ k.stack = j.stack \ {s} /\ k.heir = heir
    BY <1>1 DEF LandJob
  <2>3. Goes(a, k) /\ At(a, "follow")
    BY <1>9, <2>1 DEF Follow
  <2>. HIDE DEF k
  <2>. QED  BY <1>1, <1>2, <1>4, <1>9, <2>1, <2>2, <2>3 DEF At
<1>10. CASE WriteRetarget(a)
  <2>. DEFINE k == [j EXCEPT !.step = "follow", !.heir = {}]
  <2>1. k.step = "follow" /\ Keeps(k) /\ k.stack = j.stack /\ k.heir = {}
    BY <1>1 DEF LandJob
  <2>2. Goes(a, k) /\ At(a, "retarget")
    BY <1>4, <1>10 DEF WriteRetarget
  <2>. HIDE DEF k
  <2>. QED  BY <1>1, <1>2, <1>4, <1>10, <2>1, <2>2 DEF At
<1>. QED
  BY <1>5, <1>6, <1>7, <1>8, <1>9, <1>10 DEF LandSteps

(* The kinds of steps, when no process dies and nobody switches branches.  *)
LEMMA StepKinds ==
    ASSUME "crash" \notin Ops, "checkout" \notin Ops, TypeOK, [Next]_vars
    PROVE  \/ \E a \in Actors, p \in Ids : job[a] = AtRest /\ StartSomething(a, p)
           \/ \E a \in Actors :
                 WriteRef(a) \/ WriteEvent(a) \/ WriteNote(a) \/ RunCheck(a) \/ KillCheck(a)
           \/ \E a \in Actors : LandSteps(a)
           \/ /\ UNCHANGED <<refs, events, notes, job, landings>>
              /\ \A b \in Branches \ Pushed : branch'[b] = branch[b]
BY DEF Next, Continue, Crash, Checkout, Advance, vars, log, TypeOK

(* What a command that starts leaves in its job.                           *)
LEMMA StartsSound ==
    ASSUME TypeOK, OwnRefs, NEW a \in Actors, NEW p \in Ids, StartSomething(a, p)
    PROVE  /\ At(a, "ref")' =>
                 /\ job'[a].commit \in Candidates(job'[a].id)
                 /\ job'[a].number = 1 => job'[a].commit = FirstCommit[job'[a].id]
                 /\ job'[a].number # 1 => Known(p) /\ job'[a].id = p
                 /\ \A e \in job'[a].opening : ~IsMove(e)
           /\ At(a, "event")' => ~IsMove(job'[a].event)
           /\ At(a, "tip")' =>
                 /\ job'[a].id = p /\ Known(p) /\ IsOpen(p)
                 /\ job'[a].head = HeadOf(p) /\ job'[a].first = FirstOf(p)
                 /\ job'[a].heir = {}
                 /\ \A s \in job'[a].stack : s.target # job'[a].target
<1>. DEFINE Holds ==
           /\ At(a, "ref")' =>
                 /\ job'[a].commit \in Candidates(job'[a].id)
                 /\ job'[a].number = 1 => job'[a].commit = FirstCommit[job'[a].id]
                 /\ job'[a].number # 1 => Known(p) /\ job'[a].id = p
                 /\ \A e \in job'[a].opening : ~IsMove(e)
           /\ At(a, "event")' => ~IsMove(job'[a].event)
           /\ At(a, "tip")' =>
                 /\ job'[a].id = p /\ Known(p) /\ IsOpen(p)
                 /\ job'[a].head = HeadOf(p) /\ job'[a].first = FirstOf(p)
                 /\ job'[a].heir = {}
                 /\ \A s \in job'[a].stack : s.target # job'[a].target
<1>1. \A op, j : Issues(a, op, j) => job'[a] = j
  BY DEF Issues, TypeOK
<1>2. CASE StartPropose(a, p)
  <2>1. job'[a] = [step |-> "ref", id |-> p, number |-> 1, commit |-> FirstCommit[p],
                   opening |-> {Opened(Onto[p], Now)}]
    BY <1>1, <1>2 DEF StartPropose
  <2>. QED  BY <2>1 DEF At, Candidates, Opened, IsMove
<1>3. CASE \E c \in Attempts[p] : StartRevise(a, p, c)
  <2>1. PICK c \in Attempts[p] : StartRevise(a, p, c)
    BY <1>3
  <2>2. Known(p) /\ Len(refs[p]) + 1 # 1
    BY <2>1, EmptySeq, LenProperties DEF StartRevise, Loads, Known, TypeOK
  <2>3. job'[a] = [step |-> "ref", id |-> p, number |-> Len(refs[p]) + 1,
                   commit |-> c, opening |-> {}]
    BY <1>1, <2>1 DEF StartRevise
  <2>. QED  BY <2>1, <2>2, <2>3 DEF At, Candidates
<1>4. CASE StartAbandon(a, p)
  <2>1. job'[a] = [step |-> "event", commit |-> FirstOf(p), event |-> Abandoned(Now)]
    BY <1>1, <1>4 DEF StartAbandon
  <2>. QED  BY <2>1 DEF At, Abandoned, IsMove
<1>5. ASSUME NEW b \in Branches, StartLand(a, p, b)  PROVE Holds
  <2>1. PICK stack, seen :
           /\ \A s \in stack : s.target # b
           /\ job'[a] = [step |-> "tip", id |-> p, first |-> FirstOf(p), head |-> HeadOf(p),
                         target |-> b, tip |-> HeadOf(p), stack |-> stack, heir |-> {},
                         at |-> Now, seen |-> seen]
    <3>. DEFINE others == {q \in Ids : Known(q) /\ IsOpen(q)}
                stack  == {s \in Stacked : /\ s.target # b
                                           /\ \E q \in others : /\ s.first = FirstOf(q)
                                                                /\ AimsAt(q, s.target)}
                seen == {n \in 1..issued : \E r \in ToSet(notes[HeadOf(p)]) :
                                                  IsCommentOn(r, n)}
    <3>1. job'[a] = [step |-> "tip", id |-> p, first |-> FirstOf(p), head |-> HeadOf(p),
                     target |-> b, tip |-> HeadOf(p), stack |-> stack, heir |-> {},
                     at |-> Now, seen |-> seen]
      BY <1>1, <1>5 DEF StartLand
    <3>2. \A s \in stack : s.target # b
      OBVIOUS
    <3>. HIDE DEF stack, seen
    <3>. QED  BY <3>1, <3>2
  <2>2. Known(p) /\ IsOpen(p)
    BY <1>5 DEF StartLand, Loads, Gate
  <2>. QED  BY <2>1, <2>2 DEF At
<1>6. ASSUME job'[a].step \in {"note", "check"}  PROVE Holds
  BY <1>6 DEF At
<1>7. CASE StartAnnotate(a, p) \/ StartDispatch(a, p)
  BY <1>1, <1>6, <1>7 DEF StartAnnotate, StartDispatch, Appending
<1>8. CASE StartDescribe(a, p)
  BY <1>1, <1>6, <1>8 DEF StartDescribe, Appending
<1>9. CASE StartCheck(a, p)
  BY <1>1, <1>6, <1>9 DEF StartCheck
<1>10. CASE \E n \in 1..issued : StartReply(a, p, n) \/ StartResolve(a, p, n)
  BY <1>1, <1>6, <1>10 DEF StartReply, StartResolve, Appending
<1>11. CASE \E phase \in Phases : StartReport(a, p, phase)
  BY <1>1, <1>6, <1>11 DEF StartReport, Appending
<1>. QED
  BY <1>2, <1>3, <1>4, <1>5, <1>7, <1>8, <1>9, <1>10, <1>11 DEF StartSomething

(* What the writes of the other commands leave.                            *)
LEMMA WritesSound ==
    ASSUME TypeOK, NEW a \in Actors,
           WriteRef(a) \/ WriteEvent(a) \/ WriteNote(a) \/ RunCheck(a) \/ KillCheck(a)
    PROVE  /\ job'[a].step \in {"rest", "event", "note", "check"}
           /\ UNCHANGED <<branch, landings>>
           /\ ~WriteEvent(a) => events' = events
           /\ At(a, "event")' => At(a, "ref") /\ job'[a].event \in job[a].opening
<1>1. job'[a].step \in {"rest", "event", "note", "check"}
  BY WriteGoes
<1>2. UNCHANGED <<branch, landings>> /\ (~WriteEvent(a) => events' = events)
  <2>1. UNCHANGED <<branch, landings>>
    BY DEF WriteRef, WriteEvent, WriteNote, RunCheck, KillCheck
  <2>2. ASSUME ~WriteEvent(a)  PROVE events' = events
    BY <2>2 DEF WriteRef, WriteNote, RunCheck, KillCheck, log
  <2>. QED  BY <2>1, <2>2
<1>3. ASSUME At(a, "event")'  PROVE At(a, "ref") /\ job'[a].event \in job[a].opening
  <2>1. \A k : Goes(a, k) => job'[a] = k
    BY DEF Goes, TypeOK
  <2>2. ~Done(a)
    BY <1>3, <2>1 DEF Done, At, AtRest
  <2>3. CASE WriteRef(a)
    <3>1. PICK e \in job[a].opening :
             Goes(a, [step |-> "event", commit |-> job[a].commit, event |-> e])
      BY <2>2, <2>3 DEF WriteRef
    <3>2. job'[a] = [step |-> "event", commit |-> job[a].commit, event |-> e]
      BY <2>1, <3>1
    <3>3. job'[a].event = e
      BY <3>2
    <3>. QED  BY <2>3, <3>1, <3>3 DEF WriteRef
  <2>4. CASE WriteEvent(a) \/ KillCheck(a)
    BY <2>2, <2>4 DEF WriteEvent, KillCheck
  <2>5. CASE WriteNote(a)
    <3>1. job[a] \in [step : {"note"}, commit : Commits, lines : Seq(Record) \ {<<>>}]
      BY <2>5, JobFields DEF WriteNote
    <3>2. job'[a] = [job[a] EXCEPT !.lines = Tail(@)]
      BY <2>1, <2>2, <2>5 DEF WriteNote
    <3>3. job'[a].step = "note"
      BY <3>1, <3>2
    <3>. QED  BY <1>3, <3>3 DEF At
  <2>6. CASE RunCheck(a)
    <3>1. job[a] \in [step : {"check"}, commit : Commits, todo : SUBSET DOMAIN CheckOrder]
      BY <2>6, JobFields DEF RunCheck
    <3>2. PICK i : job'[a] = [job[a] EXCEPT !.todo = @ \ {i}]
      BY <2>1, <2>2, <2>6 DEF RunCheck
    <3>3. job'[a].step = "check"
      BY <3>1, <3>2
    <3>. QED  BY <1>3, <3>3 DEF At
  <2>. QED  BY <2>3, <2>4, <2>5, <2>6
<1>. QED  BY <1>1, <1>2, <1>3

(* Events are only ever appended: what ended stays ended, what moved moved.*)
LEMMA EventsGrow ==
    ASSUME TypeOK, [Next]_vars
    PROVE  \A c \in Commits : \A i \in DOMAIN events[c] :
               i \in DOMAIN events'[c] /\ events'[c][i] = events[c][i]
<1>. DEFINE Kept == \A c \in Commits : \A i \in DOMAIN events[c] :
                        i \in DOMAIN events'[c] /\ events'[c][i] = events[c][i]
<1>1. \A c \in Commits : events[c] \in Seq(Event)
  BY DEF TypeOK
<1>2. ASSUME NEW c \in Commits, NEW e \in Event,
             events' = [events EXCEPT ![c] = Append(@, e)]
      PROVE  Kept
  <2>1. events'[c] = Append(events[c], e) /\ \A d \in Commits : d # c => events'[d] = events[d]
    BY <1>2 DEF TypeOK
  <2>2. \A i \in DOMAIN events[c] : i \in DOMAIN events'[c] /\ events'[c][i] = events[c][i]
    BY <1>1, <2>1, AppendProperties, LenProperties
  <2>. QED  BY <2>1, <2>2
<1>3. CASE \E a \in Actors : WriteEvent(a)
  BY <1>2, <1>3, JobFields DEF WriteEvent
<1>4. ASSUME NEW a \in Actors, WriteLanded(a)  PROVE Kept
  <2>1. job[a].first \in Commits /\ Landed(job[a].at) \in Event
    BY <1>4, JobFields DEF WriteLanded, At, LandStep, LandJob, Landed, Event
  <2>. QED  BY <1>2, <1>4, <2>1 DEF WriteLanded
<1>5. ASSUME NEW a \in Actors, WriteRetarget(a)  PROVE Kept
  <2>1. /\ job[a].heir \subseteq Stacked
        /\ Retargeted(job[a].target, job[a].at) \in Event
    BY <1>5, JobFields DEF WriteRetarget, At, LandStep, LandJob, Retargeted, Event
  <2>2. PICK s \in job[a].heir :
           events' = [events EXCEPT ![s.first] = Append(@, Retargeted(job[a].target, job[a].at))]
    BY <1>5 DEF WriteRetarget
  <2>3. s.first \in Commits
    BY <2>1, <2>2 DEF Stacked
  <2>. QED  BY <1>2, <2>1, <2>2, <2>3
<1>6. CASE UNCHANGED events
  BY <1>6
<1>. QED
  BY <1>3, <1>4, <1>5, <1>6, StartsUnlooked
  DEF Next, Continue, LandSteps, WriteRef, WriteNote, RunCheck, KillCheck, ReadTip,
      ReadCheckout, FastForward, CompareAndSwap, Follow, Crash, Advance, Checkout, vars, log

-----------------------------------------------------------------------------
(* The first revision.                                                     *)

(* Whatever number is written, a proposal that has revisions keeps opening *)
(* at its own commit.                                                      *)
LEMMA PutFirst ==
    ASSUME NEW revs \in Seq(Commits), NEW n \in Nat \ {0}, NEW c \in Commits
    PROVE  /\ ToSet(Put(revs, n, c)) \subseteq ToSet(revs) \cup {c}
           /\ n = 1 => Put(revs, n, c)[1] = c
           /\ n # 1 /\ revs # <<>> => Put(revs, n, c) # <<>> /\ Put(revs, n, c)[1] = revs[1]
           /\ revs # <<>> => Put(revs, n, c) # <<>>
<1>1. Len(revs) \in Nat /\ DOMAIN revs = 1..Len(revs) /\ (revs # <<>> => 1 <= Len(revs))
  BY LenProperties, EmptySeq
<1>2. CASE n <= Len(revs)
  <2>1. Put(revs, n, c) = [revs EXCEPT ![n] = c] /\ n \in DOMAIN revs
    BY <1>1, <1>2 DEF Put
  <2>2. /\ DOMAIN Put(revs, n, c) = 1..Len(revs)
        /\ \A i \in 1..Len(revs) : Put(revs, n, c)[i] = IF i = n THEN c ELSE revs[i]
    BY <1>1, <2>1
  <2>3. Put(revs, n, c) \in Seq(Commits) /\ Put(revs, n, c) # <<>>
    <3>1. 1 \in DOMAIN Put(revs, n, c)
      BY <1>1, <1>2, <2>2
    <3>2. DOMAIN <<>> = {}
      OBVIOUS
    <3>3. Put(revs, n, c) # <<>>
      BY <3>1, <3>2
    <3>. QED  BY <3>3, PutType
  <2>4. 1 \in 1..Len(revs)
    BY <1>1, <1>2
  <2>. QED  BY <1>1, <2>2, <2>3, <2>4 DEF ToSet
<1>3. CASE ~(n <= Len(revs))
  <2>1. Put(revs, n, c) = Append(revs, c)
    BY <1>3 DEF Put
  <2>2. /\ DOMAIN Put(revs, n, c) = 1..(Len(revs) + 1)
        /\ Put(revs, n, c)[Len(revs) + 1] = c
        /\ \A i \in 1..Len(revs) : Put(revs, n, c)[i] = revs[i]
    BY <1>1, <2>1
  <2>3. Put(revs, n, c) # <<>>
    BY <2>1
  <2>4. \A i \in 1..(Len(revs) + 1) : i \in 1..Len(revs) \/ i = Len(revs) + 1
    BY <1>1
  <2>5. ToSet(Put(revs, n, c)) \subseteq ToSet(revs) \cup {c}
    BY <1>1, <2>2, <2>4 DEF ToSet
  <2>6. n = 1 => Len(revs) = 0
    BY <1>1, <1>3
  <2>7. revs # <<>> => Put(revs, n, c)[1] = revs[1]
    BY <1>1, <2>2
  <2>. QED  BY <1>1, <2>2, <2>3, <2>5, <2>6, <2>7
<1>. QED  BY <1>2, <1>3

LEMMA OwnRefsInit == Init => OwnRefs
<1>. SUFFICES ASSUME Init  PROVE OwnRefs
  OBVIOUS
<1>1. \A p \in Ids : refs[p] = <<FirstCommit[p]>> \/ refs[p] = <<>>
  BY DEF Init
<1>2. \A a \in Actors : ~At(a, "ref")
  BY DEF Init, At, AtRest
<1>. QED  BY <1>1, <1>2 DEF OwnRefs, Revs, Candidates, ToSet, Known, FirstOf

LEMMA OwnRefsNext ==
    ASSUME "crash" \notin Ops, "checkout" \notin Ops, TypeOK, OwnRefs, [Next]_vars
    PROVE  OwnRefs'
<1>. DEFINE OwnLog(p) == /\ Revs(p) \subseteq Candidates(p)
                         /\ Known(p) => FirstOf(p) = FirstCommit[p]
            OwnRef(b) == At(b, "ref") =>
                /\ job[b].commit \in Candidates(job[b].id)
                /\ job[b].number = 1 => job[b].commit = FirstCommit[job[b].id]
                /\ job[b].number # 1 => Known(job[b].id)
<1>0. (\A p \in Ids : OwnLog(p)) /\ (\A b \in Actors : OwnRef(b))
  BY DEF OwnRefs
<1>1. ASSUME NEW a \in Actors, WriteRef(a)
      PROVE  (\A p \in Ids : OwnLog(p)') /\ (\A p \in Ids : Known(p) => Known(p)')
  <2>1. PICK i, n, c : i = job[a].id /\ n = job[a].number /\ c = job[a].commit
    OBVIOUS
  <2>2. /\ i \in Ids /\ n \in Nat \ {0} /\ c \in Commits
        /\ c \in Candidates(i) /\ (n = 1 => c = FirstCommit[i]) /\ (n # 1 => Known(i))
    BY <1>0, <1>1, <2>1, JobFields DEF WriteRef, At
  <2>3. refs' = [refs EXCEPT ![i] = Put(refs[i], n, c)]
    BY <1>1, <2>1 DEF WriteRef
  <2>4. refs[i] \in Seq(Commits) /\ refs'[i] = Put(refs[i], n, c)
    BY <2>2, <2>3 DEF TypeOK
  <2>5. \A p \in Ids : p # i => refs'[p] = refs[p]
    BY <2>2, <2>3 DEF TypeOK
  <2>6. OwnLog(i)' /\ (Known(i) => Known(i)')
    BY <1>0, <2>2, <2>4, PutFirst DEF Revs, Known, FirstOf
  <2>7. \A p \in Ids : p # i => OwnLog(p)' /\ (Known(p) => Known(p)')
    BY <1>0, <2>5 DEF Revs, Known, FirstOf
  <2>. QED  BY <2>6, <2>7
<1>2. ASSUME UNCHANGED refs
      PROVE  (\A p \in Ids : OwnLog(p)') /\ (\A p \in Ids : Known(p) => Known(p)')
  BY <1>0, <1>2 DEF Revs, Known, FirstOf
<1>3. (\A p \in Ids : OwnLog(p)') /\ (\A p \in Ids : Known(p) => Known(p)')
  BY <1>1, <1>2, OnlyRefsAreWritten
<1>4. ASSUME NEW b \in Actors, UNCHANGED job[b]  PROVE OwnRef(b)'
  <2>1. At(b, "ref") => \E p \in Ids : p = job[b].id
    BY JobFields
  <2>. QED  BY <1>0, <1>3, <1>4, <2>1 DEF At, Known
<1>5. ASSUME NEW a \in Actors, NEW p \in Ids, StartSomething(a, p)
      PROVE  \A b \in Actors : OwnRef(b)'
  <2>1. OwnRef(a)'
    BY <1>3, <1>5, StartsSound DEF Known
  <2>. QED  BY <1>4, <1>5, <2>1, StartsUnlooked
<1>6. ASSUME NEW a \in Actors, Continue(a)  PROVE \A b \in Actors : OwnRef(b)'
  BY <1>4, <1>6, OthersKeepTheirJob, ContinueHasNoRef DEF At
<1>7. ASSUME UNCHANGED job  PROVE \A b \in Actors : OwnRef(b)'
  BY <1>4, <1>7
<1>8. \A b \in Actors : OwnRef(b)'
  BY <1>5, <1>6, <1>7, StepKinds DEF Continue
<1>. QED  BY <1>3, <1>8 DEF OwnRefs

-----------------------------------------------------------------------------
(* Landings.                                                               *)

(* What a landed event of process a is about.                              *)
LandedBy(a) == [id |-> job[a].id, head |-> job[a].head, target |-> job[a].target,
                seen |-> job[a].seen, stack |-> job[a].stack]

(* Only a landing that is over adds to what has landed.                    *)
LEMMA LandingsGrow ==
    ASSUME TypeOK, [Next]_vars
    PROVE  \/ UNCHANGED landings
           \/ \E a \in Actors :
                 /\ WriteLanded(a) /\ At(a, "landed") /\ Under(a)
                 /\ landings' = landings \cup {LandedBy(a)}
                 /\ LandedBy(a).id = job[a].id /\ LandedBy(a).head = job[a].head
                 /\ LandedBy(a).target = job[a].target /\ LandedBy(a).stack = job[a].stack
<1>1. ASSUME NEW a \in Actors, WriteLanded(a)
      PROVE  landings' = landings \cup {LandedBy(a)} /\ At(a, "landed") /\ Under(a)
  BY <1>1 DEF WriteLanded, LandedBy, At, Under
<1>2. (\E a \in Actors : WriteLanded(a)) \/ UNCHANGED landings
  BY StartsUnlooked DEF Next, Continue, LandSteps, WriteRef, WriteEvent, WriteNote,
         RunCheck, KillCheck, ReadTip, ReadCheckout, FastForward, CompareAndSwap,
         Follow, WriteRetarget, Crash, Advance, Checkout, vars
<1>3. \A a \in Actors : /\ LandedBy(a).id = job[a].id /\ LandedBy(a).head = job[a].head
                        /\ LandedBy(a).target = job[a].target
                        /\ LandedBy(a).stack = job[a].stack
  BY DEF LandedBy
<1>. QED  BY <1>1, <1>2, <1>3

(* A process that is landing after a step was landing before it, the same  *)
(* proposal, or has just begun to.                                         *)
LEMMA StillUnder ==
    ASSUME "crash" \notin Ops, "checkout" \notin Ops, TypeOK, OwnRefs, [Next]_vars,
           NEW b \in Actors, Under(b)'
    PROVE  \/ /\ Under(b)
              /\ job'[b].id = job[b].id /\ job'[b].first = job[b].first
              /\ job'[b].head = job[b].head /\ job'[b].target = job[b].target
              /\ job'[b].stack = job[b].stack /\ job'[b].heir = job[b].heir
              /\ UNCHANGED job[b] \/ UNCHANGED landings
           \/ \E p \in Ids :
                 /\ job'[b].id = p /\ Known(p) /\ IsOpen(p)
                 /\ job'[b].head = HeadOf(p) /\ job'[b].first = FirstOf(p)
                 /\ job'[b].heir = {}
                 /\ \A s \in job'[b].stack : s.target # job'[b].target
                 /\ UNCHANGED landings
<1>1. CASE UNCHANGED job[b]
  BY <1>1 DEF Under
<1>2. ASSUME NEW p \in Ids, StartSomething(b, p)
      PROVE  /\ job'[b].id = p /\ Known(p) /\ IsOpen(p)
             /\ job'[b].head = HeadOf(p) /\ job'[b].first = FirstOf(p)
             /\ job'[b].heir = {}
             /\ \A s \in job'[b].stack : s.target # job'[b].target
             /\ UNCHANGED landings
  BY <1>2, StartsUnlooked, StartsSound DEF Under, At
<1>3. CASE WriteRef(b) \/ WriteEvent(b) \/ WriteNote(b) \/ RunCheck(b) \/ KillCheck(b)
  BY <1>3, WriteGoes DEF Under
<1>4. ASSUME LandSteps(b)
      PROVE  /\ Under(b)
             /\ job'[b].id = job[b].id /\ job'[b].first = job[b].first
             /\ job'[b].head = job[b].head /\ job'[b].target = job[b].target
             /\ job'[b].stack = job[b].stack /\ job'[b].heir = job[b].heir
             /\ UNCHANGED landings
  <2>1. job'[b] # AtRest
    BY DEF Under, AtRest
  <2>2. ReadTip(b) \/ ReadCheckout(b) \/ FastForward(b) \/ CompareAndSwap(b) => UNCHANGED landings
    BY DEF ReadTip, ReadCheckout, FastForward, CompareAndSwap
  <2>. QED  BY <1>4, <2>1, <2>2, LandTurns DEF Under, At
<1>5. CASE \E a \in Actors : a # b /\ (Continue(a) \/ \E p \in Ids : StartSomething(a, p))
  BY <1>1, <1>5, OthersKeepTheirJob, StartsUnlooked
<1>. QED
  BY <1>1, <1>2, <1>3, <1>4, <1>5, StepKinds DEF Continue

LEMMA OwnHeadsInit == Init => OwnHeads /\ LandingsEnd /\ LandingsApart /\ OneHeir
BY DEF Init, OwnHeads, LandingsEnd, LandingsApart, OneHeir, Under, At, AtRest

LEMMA OwnHeadsNext ==
    ASSUME "crash" \notin Ops, "checkout" \notin Ops, TypeOK, OwnRefs, OwnHeads, [Next]_vars
    PROVE  OwnHeads'
<1>1. ASSUME NEW b \in Actors, Under(b)'
      PROVE  /\ job'[b].head \in Candidates(job'[b].id)
             /\ job'[b].first = FirstCommit[job'[b].id]
             /\ \A s \in job'[b].stack : s.target # job'[b].target
  <2>1. ASSUME NEW p \in Ids, Known(p)
        PROVE  HeadOf(p) \in Candidates(p) /\ FirstOf(p) = FirstCommit[p]
    BY <2>1, HeadIsOne DEF OwnRefs
  <2>. QED  BY <1>1, <2>1, StillUnder DEF OwnHeads
<1>2. \A l \in landings' : l.head \in Candidates(l.id)
  BY LandingsGrow DEF OwnHeads
<1>. QED  BY <1>1, <1>2 DEF OwnHeads, Under, Candidates

(* What happened to an event log is not undone.                            *)
LEMMA EventsStay ==
    ASSUME TypeOK, [Next]_vars, NEW c \in Commits
    PROVE  /\ NotEnded(c)' => NotEnded(c)
           /\ HasMoved(c) => HasMoved(c)'
BY EventsGrow DEF NotEnded, HasMoved

LEMMA LandingsEndNext ==
    ASSUME TypeOK, OwnHeads, LandingsEnd, [Next]_vars
    PROVE  LandingsEnd'
<1>1. ASSUME NEW l \in landings  PROVE ~NotEnded(FirstCommit[l.id])'
  <2>1. FirstCommit[l.id] \in Commits
    BY ProposalsAssumption DEF TypeOK, Landing
  <2>. QED  BY <1>1, <2>1, EventsStay DEF LandingsEnd
<1>2. ASSUME NEW a \in Actors, WriteLanded(a), Under(a), NEW c, c = FirstCommit[job[a].id]
      PROVE  ~NotEnded(c)'
  <2>1. job[a].first = c /\ c \in Commits
    BY <1>2, JobFields DEF OwnHeads, WriteLanded, At, LandStep, LandJob
  <2>2. events'[c] = Append(events[c], Landed(job[a].at)) /\ events[c] \in Seq(Event)
    BY <1>2, <2>1 DEF WriteLanded, TypeOK
  <2>3. /\ Len(events[c]) + 1 \in DOMAIN events'[c]
        /\ events'[c][Len(events[c]) + 1] = Landed(job[a].at)
    <3>1. Landed(job[a].at) \in Event
      BY <1>2, JobFields DEF WriteLanded, At, LandStep, LandJob, Landed, Event
    <3>. QED  BY <2>2, <3>1
  <2>. QED  BY <2>3 DEF NotEnded, IsEnding, Landed
<1>. QED  BY <1>1, <1>2, LandingsGrow DEF LandingsEnd

LEMMA OneHeirNext ==
    ASSUME "crash" \notin Ops, "checkout" \notin Ops, TypeOK, OwnRefs, OneHeir, [Next]_vars
    PROVE  OneHeir'
<1>. DEFINE Fine(b) == /\ Under(b) \/ At(b, "follow") => job[b].heir = {}
                       /\ At(b, "retarget") => \E s \in Stacked : job[b].heir = {s}
<1>1. \A b \in Actors : Fine(b)
  BY DEF OneHeir
<1>2. ASSUME NEW b \in Actors, UNCHANGED job[b]  PROVE Fine(b)'
  BY <1>1, <1>2 DEF Under, At
<1>3. ASSUME NEW a \in Actors, NEW p \in Ids, StartSomething(a, p)
      PROVE  \A b \in Actors : Fine(b)'
  <2>1. Fine(a)'
    BY <1>3, StartsUnlooked, StartsSound DEF Under, At
  <2>. QED  BY <1>2, <1>3, <2>1, StartsUnlooked
<1>4. ASSUME NEW a \in Actors, Continue(a)  PROVE \A b \in Actors : Fine(b)'
  <2>1. Fine(a)'
    <3>1. CASE WriteRef(a) \/ WriteEvent(a) \/ WriteNote(a) \/ RunCheck(a) \/ KillCheck(a)
      BY <3>1, WriteGoes DEF Under, At
    <3>2. CASE job'[a] = AtRest
      BY <3>2 DEF AtRest, Under, At
    <3>3. CASE LandSteps(a) /\ job'[a] # AtRest
      <4>1. job[a].stack \subseteq Stacked
        BY <3>3, LandTurns DEF LandJob
      <4>. QED  BY <1>1, <3>3, <4>1, LandTurns DEF Under, At
    <3>. QED  BY <1>4, <3>1, <3>2, <3>3 DEF Continue
  <2>. QED  BY <1>2, <1>4, <2>1, OthersKeepTheirJob
<1>5. ASSUME UNCHANGED job  PROVE \A b \in Actors : Fine(b)'
  BY <1>2, <1>5
<1>6. \A b \in Actors : Fine(b)'
  BY <1>3, <1>4, <1>5, StepKinds DEF Continue
<1>. QED  BY <1>6 DEF OneHeir

LEMMA ApartStays ==
    ASSUME TypeOK, [Next]_vars, NEW l, NEW m, l.stack \subseteq Stacked, Apart(l, m)
    PROVE  Apart(l, m)'
BY EventsStay DEF Apart, Stacked

LEMMA LandingsApartNext ==
    ASSUME "crash" \notin Ops, "checkout" \notin Ops, RivalsApart,
           TypeOK, OwnRefs, OwnHeads, LandingsEnd, LandingsApart, [Next]_vars
    PROVE  LandingsApart'
<1>1. /\ \A l \in landings : l.stack \subseteq Stacked /\ l.id \in Ids
      /\ \A b \in Actors : Under(b) => job[b].stack \subseteq Stacked
  BY JobFields DEF TypeOK, Landing, LandJob, Under, LandStep
<1>2. ASSUME NEW a \in Actors, WriteLanded(a), Under(a), NEW r, r = LandedBy(a)
      PROVE  /\ r.id = job[a].id /\ r.target = job[a].target /\ r.stack = job[a].stack
             /\ Apart(r, r)
             /\ \A l \in landings : Apart(l, r) /\ Apart(r, l)
             /\ \A b \in Actors \ {a} : Under(b) => Apart(r, job[b]) /\ Apart(job[b], r)
  <2>1. r.id = job[a].id /\ r.target = job[a].target /\ r.stack = job[a].stack
    BY <1>2 DEF LandedBy
  <2>2. Apart(r, r)
    BY <1>2, <2>1 DEF Apart, OwnHeads
  <2>3. \A l \in landings : Apart(l, r) /\ Apart(r, l)
    BY <1>2, <2>1 DEF Apart, LandingsApart
  <2>4. \A b \in Actors \ {a} : Under(b) => Apart(r, job[b]) /\ Apart(job[b], r)
    BY <1>2, <2>1 DEF Apart, RivalsApart
  <2>. QED  BY <2>1, <2>2, <2>3, <2>4
<1>3. \A l, m \in landings' : Apart(l, m)'
  <2>1. \A l, m \in landings : Apart(l, m)'
    BY <1>1, ApartStays DEF LandingsApart
  <2>2. ASSUME NEW a \in Actors, WriteLanded(a), Under(a), NEW r, r = LandedBy(a)
        PROVE  Apart(r, r)' /\ \A l \in landings : Apart(l, r)' /\ Apart(r, l)'
    <3>1. r.stack \subseteq Stacked
      BY <1>1, <1>2, <2>2
    <3>. QED  BY <1>1, <1>2, <2>2, <3>1, ApartStays
  <2>. QED  BY <2>1, <2>2, LandingsGrow
<1>4. ASSUME NEW b \in Actors, Under(b)', NEW l \in landings'
      PROVE  Apart(l, job[b])' /\ Apart(job[b], l)'
  <2>1. PICK k : k = job'[b]
    OBVIOUS
  <2>2. CASE Under(b) /\ k.id = job[b].id /\ k.target = job[b].target /\ k.stack = job[b].stack
             /\ (UNCHANGED job[b] \/ UNCHANGED landings)
    <3>1. k.stack \subseteq Stacked
      BY <1>1, <2>2
    <3>2. ASSUME l \in landings  PROVE Apart(l, k) /\ Apart(k, l)
      BY <2>2, <3>2 DEF Apart, LandingsApart
    <3>3. ASSUME l \notin landings  PROVE Apart(l, k) /\ Apart(k, l)
      <4>1. PICK a \in Actors : WriteLanded(a) /\ Under(a) /\ l = LandedBy(a)
        BY <1>4, <3>3, LandingsGrow
      <4>2. a # b
        <5>1. At(a, "follow")'
          <6>1. job'[a] # AtRest
            <7>1. job[a] \in LandJob /\ job'[a] = [job[a] EXCEPT !.step = "follow"]
              BY <4>1, JobFields DEF WriteLanded, Goes, TypeOK, At, LandStep
            <7>2. job'[a].step = "follow"
              BY <7>1 DEF LandJob
            <7>. QED  BY <7>2 DEF AtRest
          <6>. QED  BY <4>1, <6>1, LandTurns DEF LandSteps, WriteLanded, ReadTip, ReadCheckout,
                       FastForward, CompareAndSwap, Follow, WriteRetarget, At
        <5>. QED  BY <1>4, <5>1 DEF Under, At
      <4>3. Apart(l, job[b]) /\ Apart(job[b], l)
        BY <1>2, <2>2, <4>1, <4>2
      <4>. QED  BY <2>2, <4>3 DEF Apart
    <3>4. l.stack \subseteq Stacked
      BY <1>1, <1>2, LandingsGrow
    <3>5. Apart(l, k)' /\ Apart(k, l)'
      BY <3>1, <3>2, <3>3, <3>4, ApartStays
    <3>. QED  BY <2>1, <3>5 DEF Apart
  <2>3. CASE \E p \in Ids : k.id = p /\ Known(p) /\ IsOpen(p) /\ UNCHANGED landings
    <3>1. PICK p \in Ids : k.id = p /\ Known(p) /\ IsOpen(p) /\ UNCHANGED landings
      BY <2>3
    <3>2. NotEnded(FirstCommit[p])
      BY <3>1 DEF OwnRefs, IsOpen, NotEnded
    <3>3. l.id # k.id
      BY <1>4, <3>1, <3>2 DEF LandingsEnd
    <3>. QED  BY <2>1, <3>3 DEF Apart
  <2>. QED  BY <1>4, <2>1, <2>2, <2>3, StillUnder
<1>. QED  BY <1>3, <1>4 DEF LandingsApart, Under, Apart

-----------------------------------------------------------------------------
(* Where proposals are told to land.                                       *)

LEMMA MovesAreLandingsInit == Init => MovesAreLandings
<1>. SUFFICES ASSUME Init  PROVE MovesAreLandings
  OBVIOUS
<1>1. \A c \in Commits : events[c] = <<>> \/ \E b : events[c] = <<Opened(b, 0)>>
  BY DEF Init
<1>2. ASSUME NEW c \in Commits, NEW i \in DOMAIN events[c]  PROVE ~IsMove(events[c][i])
  <2>1. \A b : DOMAIN <<Opened(b, 0)>> = {1} /\ <<Opened(b, 0)>>[1].kind = "opened"
    BY DEF Opened
  <2>2. PICK b : events[c] = <<Opened(b, 0)>>
    BY <1>1, <1>2
  <2>. QED  BY <1>2, <2>1, <2>2 DEF IsMove
<1>3. \A a \in Actors : ~At(a, "event") /\ ~At(a, "ref") /\ ~Following(a)
  BY DEF Init, At, Following, AtRest
<1>. QED  BY <1>2, <1>3 DEF MovesAreLandings

LEMMA MovesAreLandingsNext ==
    ASSUME "crash" \notin Ops, "checkout" \notin Ops,
           TypeOK, OwnRefs, MovesAreLandings, [Next]_vars
    PROVE  MovesAreLandings'
<1>. DEFINE Fine(b) == /\ At(b, "event") => ~IsMove(job[b].event)
                       /\ At(b, "ref") => \A e \in job[b].opening : ~IsMove(e)
                       /\ Following(b) => Visited(job[b].target)
            Told(c) == \A i \in DOMAIN events[c] :
                          IsMove(events[c][i]) => Visited(events[c][i].target)
<1>1. (\A b \in Actors : Fine(b)) /\ (\A c \in Commits : Told(c))
  BY DEF MovesAreLandings
<1>2. \A d : Visited(d) => Visited(d)'
  BY LandingsGrow DEF Visited
<1>3. ASSUME NEW b \in Actors, UNCHANGED job[b]  PROVE Fine(b)'
  BY <1>1, <1>2, <1>3 DEF At, Following, Visited
<1>4. ASSUME NEW a \in Actors, NEW p \in Ids, StartSomething(a, p)
      PROVE  \A b \in Actors : Fine(b)'
  <2>1. Fine(a)'
    BY <1>4, StartsUnlooked, StartsSound DEF Following, At
  <2>. QED  BY <1>3, <1>4, <2>1, StartsUnlooked
<1>5. ASSUME NEW a \in Actors, Continue(a)  PROVE \A b \in Actors : Fine(b)'
  <2>1. Fine(a)'
    <3>1. CASE WriteRef(a) \/ WriteEvent(a) \/ WriteNote(a) \/ RunCheck(a) \/ KillCheck(a)
      BY <1>1, <3>1, WritesSound DEF Following, At
    <3>2. CASE job'[a] = AtRest
      BY <3>2 DEF AtRest, Following, At
    <3>3. ASSUME LandSteps(a), job'[a] # AtRest  PROVE Fine(a)'
      <4>1. ~At(a, "event")' /\ ~At(a, "ref")'
        BY <3>3, LandTurns DEF At, Under
      <4>2. PICK t : t = job[a].target /\ t = job'[a].target
        BY <3>3, LandTurns
      <4>3. ASSUME WriteLanded(a)  PROVE Visited(t)'
        <5>1. LandedBy(a) \in landings' /\ LandedBy(a).target = t
          BY <4>2, <4>3 DEF WriteLanded, LandedBy
        <5>. QED  BY <5>1 DEF Visited
      <4>4. Following(a) => Visited(t)'
        BY <1>1, <1>2, <4>2
      <4>5. Following(a)' => Visited(t)'
        BY <3>3, <4>3, <4>4, LandTurns DEF Following, Under, At
      <4>. QED  BY <4>1, <4>2, <4>5 DEF Visited
    <3>. QED  BY <1>5, <3>1, <3>2, <3>3 DEF Continue
  <2>. QED  BY <1>3, <1>5, <2>1, OthersKeepTheirJob
<1>6. ASSUME UNCHANGED job  PROVE \A b \in Actors : Fine(b)'
  BY <1>3, <1>6
<1>7. \A b \in Actors : Fine(b)'
  BY <1>4, <1>5, <1>6, StepKinds DEF Continue
<1>8. ASSUME NEW d \in Commits, NEW e, IsMove(e) => Visited(e.target)',
             events' = [events EXCEPT ![d] = Append(@, e)], e \in Event
      PROVE  \A c \in Commits : Told(c)'
  <2>1. /\ events[d] \in Seq(Event) /\ events'[d] = Append(events[d], e)
        /\ \A c \in Commits : c # d => events'[c] = events[c]
    BY <1>8 DEF TypeOK
  <2>2. ASSUME NEW c \in Commits, c # d  PROVE Told(c)'
    BY <1>1, <1>2, <2>1, <2>2 DEF Visited
  <2>3. ASSUME NEW i \in DOMAIN events'[d]
        PROVE  \/ i \in DOMAIN events[d] /\ events'[d][i] = events[d][i]
               \/ events'[d][i] = e
    BY <1>8, <2>1
  <2>4. ASSUME NEW i \in DOMAIN events'[d], IsMove(events'[d][i])
        PROVE  \E l \in landings' : l.target = events'[d][i].target
    <3>1. CASE events'[d][i] = e
      BY <1>8, <2>4, <3>1 DEF Visited
    <3>2. CASE i \in DOMAIN events[d] /\ events'[d][i] = events[d][i]
      <4>1. Visited(events[d][i].target)
        BY <1>1, <2>4, <3>2
      <4>2. PICK t : t = events[d][i].target
        OBVIOUS
      <4>3. Visited(t)'
        BY <1>2, <4>1, <4>2
      <4>. QED  BY <3>2, <4>2, <4>3 DEF Visited
    <3>. QED  BY <2>3, <3>1, <3>2
  <2>5. Told(d)'
    BY <2>4 DEF Visited
  <2>. QED  BY <2>2, <2>5
<1>9. ASSUME UNCHANGED events  PROVE \A c \in Commits : Told(c)'
  BY <1>1, <1>2, <1>9 DEF Visited
<1>10. ASSUME NEW a \in Actors, WriteEvent(a)  PROVE \A c \in Commits : Told(c)'
  <2>1. /\ job[a].commit \in Commits /\ job[a].event \in Event /\ ~IsMove(job[a].event)
        /\ events' = [events EXCEPT ![job[a].commit] = Append(@, job[a].event)]
    BY <1>1, <1>10, JobFields DEF WriteEvent
  <2>. QED  BY <1>8, <2>1
<1>11. ASSUME NEW a \in Actors, WriteLanded(a)  PROVE \A c \in Commits : Told(c)'
  <2>1. /\ job[a].first \in Commits /\ Landed(job[a].at) \in Event
        /\ ~IsMove(Landed(job[a].at))
        /\ events' = [events EXCEPT ![job[a].first] = Append(@, Landed(job[a].at))]
    BY <1>11, JobFields DEF WriteLanded, At, LandStep, LandJob, Landed, Event, IsMove
  <2>. QED  BY <1>8, <2>1
<1>12. ASSUME NEW a \in Actors, WriteRetarget(a)  PROVE \A c \in Commits : Told(c)'
  <2>1. /\ job[a].heir \subseteq Stacked /\ Visited(job[a].target)
        /\ Retargeted(job[a].target, job[a].at) \in Event
    <3>1. At(a, "retarget") /\ Following(a)
      BY <1>12 DEF WriteRetarget, At, Following
    <3>2. Visited(job[a].target)
      BY <1>1, <3>1
    <3>3. job[a] \in LandJob
      BY <3>1, JobFields DEF At, LandStep
    <3>. QED  BY <3>2, <3>3 DEF LandJob, Retargeted, Event
  <2>2. PICK s \in job[a].heir :
           events' = [events EXCEPT ![s.first] = Append(@, Retargeted(job[a].target, job[a].at))]
    BY <1>12 DEF WriteRetarget
  <2>3. PICK e : e = Retargeted(job[a].target, job[a].at)
    OBVIOUS
  <2>4. PICK t : t = job[a].target
    OBVIOUS
  <2>5. Visited(t)' /\ e.target = t
    BY <1>2, <2>1, <2>3, <2>4 DEF Retargeted
  <2>6. s.first \in Commits
    BY <2>1, <2>2 DEF Stacked
  <2>7. Visited(e.target)'
    BY <2>5 DEF Visited
  <2>. QED  BY <1>8, <2>1, <2>2, <2>3, <2>6, <2>7
<1>13. \A c \in Commits : Told(c)'
  BY <1>9, <1>10, <1>11, <1>12, StartsUnlooked
  DEF Next, Continue, LandSteps, WriteRef, WriteNote, RunCheck, KillCheck, ReadTip,
      ReadCheckout, FastForward, CompareAndSwap, Follow, Crash, Advance, Checkout, vars, log
<1>. QED  BY <1>7, <1>13 DEF MovesAreLandings

-----------------------------------------------------------------------------
(* Where branches are.                                                     *)

LEMMA BranchesStartInit == Init => BranchesStart /\ MovedByLandings /\ AllAreFollowed
<1>. SUFFICES ASSUME Init  PROVE BranchesStart /\ MovedByLandings /\ AllAreFollowed
  OBVIOUS
<1>1. branch = Start /\ landings = {} /\ \A a \in Actors : job[a].step = "rest"
  BY DEF Init, AtRest
<1>. QED  BY <1>1, ProposalsAssumption DEF BranchesStart, MovedByLandings, AllAreFollowed

LEMMA BranchesStartNext ==
    ASSUME "crash" \notin Ops, "checkout" \notin Ops,
           TypeOK, TipUnderHead, OwnRefs, BranchesStart, [Next]_vars
    PROVE  BranchesStart'
<1>. DEFINE Fine(b) == job[b].step \in {"where", "fast-forward", "swap", "landed"} =>
                           InHistory(Start[job[b].target], job[b].head)
<1>1. \A b \in Actors : Fine(b)
  BY DEF BranchesStart
<1>2. \A b \in Branches : InHistory(Start[b], branch'[b])
  <2>1. TypeOK' /\ \A b \in Branches : InHistory(branch[b], branch'[b])
    BY NextType, StepAdvances
  <2>2. \A b \in Branches : Start[b] \in Commits
    BY ProposalsAssumption
  <2>. QED  BY <2>1, <2>2, StaysOn DEF BranchesStart
<1>3. ASSUME NEW b \in Actors, UNCHANGED job[b]  PROVE Fine(b)'
  BY <1>1, <1>3
<1>4. ASSUME NEW a \in Actors, NEW p \in Ids, StartSomething(a, p)
      PROVE  \A b \in Actors : Fine(b)'
  BY <1>3, <1>4, StartsUnlooked
<1>5. ASSUME NEW a \in Actors, Continue(a)  PROVE \A b \in Actors : Fine(b)'
  <2>1. Fine(a)'
    <3>1. CASE WriteRef(a) \/ WriteEvent(a) \/ WriteNote(a) \/ RunCheck(a) \/ KillCheck(a)
      BY <3>1, WriteGoes
    <3>2. CASE job'[a] = AtRest
      BY <3>2 DEF AtRest
    <3>3. ASSUME LandSteps(a), job'[a] # AtRest  PROVE Fine(a)'
      <4>1. /\ job[a].head \in Commits /\ job[a].target \in Branches
            /\ job'[a].head = job[a].head /\ job'[a].target = job[a].target
        BY <3>3, LandTurns DEF LandJob
      <4>2. CASE ReadTip(a)
        <5>1. InHistory(branch[job[a].target], job[a].head)
          BY <3>3, <4>2, LandGoes DEF ReadTip, ReadCheckout, FastForward, CompareAndSwap,
             WriteLanded, Follow, WriteRetarget, At
        <5>2. /\ Start[job[a].target] \in Commits /\ branch[job[a].target] \in Commits
              /\ InHistory(Start[job[a].target], branch[job[a].target])
          BY <4>1, ProposalsAssumption DEF TypeOK, BranchesStart
        <5>. QED  BY <4>1, <5>1, <5>2, ProposalsAssumption
      <4>3. CASE ReadCheckout(a) \/ FastForward(a) \/ CompareAndSwap(a)
        <5>1. job[a].step \in {"where", "fast-forward", "swap"}
          BY <4>3 DEF ReadCheckout, FastForward, CompareAndSwap, At
        <5>. QED  BY <1>1, <4>1, <5>1
      <4>4. CASE WriteLanded(a) \/ Follow(a) \/ WriteRetarget(a)
        <5>1. job[a].step \in {"landed", "follow", "retarget"}
          BY <4>4 DEF WriteLanded, Follow, WriteRetarget, At
        <5>2. job'[a].step \in {"follow", "retarget"}
          BY <3>3, <4>4, <5>1, LandTurns
             DEF ReadTip, ReadCheckout, FastForward, CompareAndSwap, At
        <5>. QED  BY <5>2
      <4>. QED  BY <3>3, <4>2, <4>3, <4>4 DEF LandSteps
    <3>. QED  BY <1>5, <3>1, <3>2, <3>3 DEF Continue
  <2>. QED  BY <1>3, <1>5, <2>1, OthersKeepTheirJob
<1>6. ASSUME UNCHANGED job  PROVE \A b \in Actors : Fine(b)'
  BY <1>3, <1>6
<1>7. \A b \in Actors : Fine(b)'
  BY <1>4, <1>5, <1>6, StepKinds DEF Continue
<1>8. \A l \in landings' : InHistory(Start[l.target], l.head)
  BY <1>1, LandingsGrow DEF BranchesStart, At
<1>. QED  BY <1>2, <1>7, <1>8 DEF BranchesStart

(* A branch that moves is a landing's, or pushed to.                       *)
LEMMA BranchMoves ==
    ASSUME "crash" \notin Ops, "checkout" \notin Ops, TypeOK, OnItsWay, [Next]_vars,
           NEW b \in Branches \ Pushed, branch'[b] # branch[b]
    PROVE  \E a \in Actors :
              At(a, "landed")' /\ job'[a].target = b /\ job'[a].head = branch'[b]
<1>1. PICK a \in Actors : FastForward(a) \/ CompareAndSwap(a)
  BY StepKinds, StartsUnlooked, WritesSound
     DEF LandSteps, ReadTip, ReadCheckout, WriteLanded, Follow, WriteRetarget
<1>2. job[a].target \in Branches /\ job[a].head \in Commits
  BY <1>1, JobFields DEF FastForward, CompareAndSwap, At, LandStep, LandJob
<1>3. CASE FastForward(a)
  <2>1. checkout = job[a].target
    BY <1>3 DEF FastForward, At, OnItsWay
  <2>2. /\ branch' = [branch EXCEPT ![checkout] = job[a].head]
        /\ Goes(a, [job[a] EXCEPT !.step = "landed"])
    BY <1>3 DEF FastForward
  <2>3. b = job[a].target /\ branch'[b] = job[a].head
    BY <1>2, <2>1, <2>2 DEF TypeOK
  <2>4. job[a] \in LandJob /\ job'[a] = [job[a] EXCEPT !.step = "landed"]
    BY <1>3, <2>2, JobFields DEF FastForward, At, LandStep, Goes, TypeOK
  <2>5. job'[a].step = "landed" /\ job'[a].target = b /\ job'[a].head = branch'[b]
    BY <2>3, <2>4 DEF LandJob
  <2>. QED  BY <2>5 DEF At
<1>4. CASE CompareAndSwap(a)
  <2>1. /\ branch' = [branch EXCEPT ![job[a].target] = job[a].head]
        /\ Goes(a, [job[a] EXCEPT !.step = "landed"])
    BY <1>4 DEF CompareAndSwap
  <2>2. b = job[a].target /\ branch'[b] = job[a].head
    BY <1>2, <2>1 DEF TypeOK
  <2>3. job[a] \in LandJob /\ job'[a] = [job[a] EXCEPT !.step = "landed"]
    BY <1>4, <2>1, JobFields DEF CompareAndSwap, At, LandStep, Goes, TypeOK
  <2>4. job'[a].step = "landed" /\ job'[a].target = b /\ job'[a].head = branch'[b]
    BY <2>2, <2>3 DEF LandJob
  <2>. QED  BY <2>4 DEF At
<1>. QED  BY <1>1, <1>3, <1>4

(* A landing that has moved its branch stays there until its event is      *)
(* written.                                                                *)
LEMMA LandedWaits ==
    ASSUME "crash" \notin Ops, "checkout" \notin Ops, TypeOK, [Next]_vars,
           NEW a \in Actors, At(a, "landed")
    PROVE  \/ UNCHANGED job[a]
           \/ LandedBy(a) \in landings'
<1>1. CASE WriteLanded(a)
  BY <1>1 DEF WriteLanded, LandedBy
<1>2. CASE \E b \in Actors : b # a /\ (Continue(b) \/ \E p \in Ids : StartSomething(b, p))
  BY <1>2, OthersKeepTheirJob, StartsUnlooked
<1>3. job[a] # AtRest
  BY DEF At, AtRest
<1>4. ~WriteRef(a) /\ ~WriteEvent(a) /\ ~WriteNote(a) /\ ~RunCheck(a) /\ ~KillCheck(a)
  BY DEF WriteRef, WriteEvent, WriteNote, RunCheck, KillCheck, At
<1>5. LandSteps(a) => WriteLanded(a)
  BY DEF LandSteps, ReadTip, ReadCheckout, FastForward, CompareAndSwap, Follow,
         WriteRetarget, At
<1>. QED  BY <1>1, <1>2, <1>3, <1>4, <1>5, StepKinds DEF Continue

LEMMA MovedByLandingsNext ==
    ASSUME "crash" \notin Ops, "checkout" \notin Ops,
           TypeOK, OnItsWay, MovedByLandings, [Next]_vars
    PROVE  MovedByLandings'
<1>. SUFFICES ASSUME NEW b \in Branches \ Pushed
              PROVE  \/ branch'[b] = Start[b]
                     \/ \E l \in landings' : l.target = b /\ l.head = branch'[b]
                     \/ \E a \in Actors : job'[a].step = "landed" /\ job'[a].target = b
                                                    /\ job'[a].head = branch'[b]
  BY DEF MovedByLandings
<1>1. CASE branch'[b] # branch[b]
  BY <1>1, BranchMoves DEF At
<1>2. CASE branch'[b] = branch[b]
  <2>1. CASE branch[b] = Start[b]
    BY <1>2, <2>1
  <2>2. CASE \E l \in landings : l.target = b /\ l.head = branch[b]
    BY <1>2, <2>2, LandingsGrow
  <2>3. ASSUME NEW a \in Actors, job[a].step = "landed", job[a].target = b,
               job[a].head = branch[b]
        PROVE  \/ \E l \in landings' : l.target = b /\ l.head = branch'[b]
               \/ /\ job'[a].step = "landed" /\ job'[a].target = b
                  /\ job'[a].head = branch'[b]
    <3>1. LandedBy(a).target = b /\ LandedBy(a).head = branch[b]
      BY <2>3 DEF LandedBy
    <3>. QED  BY <1>2, <2>3, <3>1, LandedWaits DEF At
  <2>. QED  BY <2>1, <2>2, <2>3 DEF MovedByLandings
<1>. QED  BY <1>1, <1>2

(* History has no cycles.                                                  *)
NoCycles == \A c, d \in Commits : InHistory(c, d) /\ InHistory(d, c) => c = d

(* While its branch sits on the landed head, what is to be followed stays  *)
(* to be followed until it is told.                                        *)
LEMMA FollowGoesOn ==
    ASSUME "crash" \notin Ops, "checkout" \notin Ops, TypeOK, OneHeir, [Next]_vars,
           NEW h, NEW s \in Stacked, branch[s.target] = h, ToFollow(h, s)
    PROVE  ToFollow(h, s)' \/ HasMoved(s.first)'
<1>1. PICK a \in Actors : /\ Following(a) /\ job[a].head = h
                          /\ s \in job[a].stack \cup job[a].heir
  BY DEF ToFollow
<1>2. CASE UNCHANGED job[a]
  BY <1>1, <1>2 DEF ToFollow, Following
<1>3. CASE \E b \in Actors : b # a /\ (Continue(b) \/ \E p \in Ids : StartSomething(b, p))
  BY <1>2, <1>3, OthersKeepTheirJob, StartsUnlooked
<1>4. job[a] # AtRest
  BY <1>1 DEF Following, AtRest
<1>5. ~WriteRef(a) /\ ~WriteEvent(a) /\ ~WriteNote(a) /\ ~RunCheck(a) /\ ~KillCheck(a)
  BY <1>1 DEF WriteRef, WriteEvent, WriteNote, RunCheck, KillCheck, At, Following
<1>6. ASSUME LandSteps(a)  PROVE ToFollow(h, s)' \/ HasMoved(s.first)'
  <2>1. Follow(a) \/ WriteRetarget(a)
    BY <1>1, <1>6 DEF LandSteps, ReadTip, ReadCheckout, FastForward, CompareAndSwap,
       WriteLanded, At, Following
  <2>2. job[a] \in LandJob /\ \A k : Goes(a, k) => job'[a] = k
    BY <1>1, JobFields DEF Following, LandStep, Goes, TypeOK
  <2>3. job'[a] # AtRest
    <3>1. CASE WriteRetarget(a)
      <4>1. job'[a] = [job[a] EXCEPT !.step = "follow", !.heir = {}]
        BY <2>2, <3>1 DEF WriteRetarget
      <4>2. job'[a].step = "follow"
        BY <2>2, <4>1 DEF LandJob
      <4>. QED  BY <4>2 DEF AtRest
    <3>2. CASE Follow(a)
      <4>1. job[a].stack # {}
        BY <1>1, <3>2 DEF Follow, OneHeir
      <4>2. PICK q \in job[a].stack :
               Goes(a, [job[a] EXCEPT !.stack = @ \ {q},
                                      !.heir = IF branch[q.target] = job[a].head THEN {q} ELSE {},
                                      !.step = IF branch[q.target] = job[a].head
                                               THEN "retarget" ELSE "follow"])
        BY <3>2, <4>1 DEF Follow
      <4>. DEFINE heir == IF branch[q.target] = job[a].head THEN {q} ELSE {}
                  step == IF branch[q.target] = job[a].head THEN "retarget" ELSE "follow"
      <4>3. job'[a] = [job[a] EXCEPT !.stack = job[a].stack \ {q}, !.heir = heir, !.step = step]
        BY <2>2, <4>2
      <4>4. job'[a].step = step /\ step # "rest"
        BY <2>2, <4>3 DEF LandJob
      <4>. QED  BY <4>4 DEF AtRest
    <3>. QED  BY <2>1, <3>1, <3>2
  <2>4. job'[a].head = h
    BY <1>1, <1>6, <2>3, LandTurns
  <2>5. CASE WriteRetarget(a)
    <3>1. At(a, "follow")' /\ job'[a].stack = job[a].stack /\ At(a, "retarget")
      BY <1>6, <2>3, <2>5, LandTurns DEF WriteRetarget, At, ReadTip, ReadCheckout, FastForward,
         CompareAndSwap, WriteLanded
    <3>2. CASE s \in job[a].stack
      BY <2>4, <3>1, <3>2 DEF ToFollow, Following, At
    <3>3. CASE s \in job[a].heir
      <4>1. job[a].heir = {s}
        BY <3>1, <3>3 DEF OneHeir
      <4>2. /\ events' = [events EXCEPT ![s.first] =
                             Append(@, Retargeted(job[a].target, job[a].at))]
            /\ s.first \in Commits
        BY <2>5, <4>1 DEF WriteRetarget, Stacked
      <4>3. /\ events[s.first] \in Seq(Event)
            /\ Retargeted(job[a].target, job[a].at) \in Event
        BY <2>2, <4>2 DEF TypeOK, LandJob, Retargeted, Event
      <4>4. events'[s.first] = Append(events[s.first], Retargeted(job[a].target, job[a].at))
        BY <4>2 DEF TypeOK
      <4>5. /\ Len(events[s.first]) + 1 \in DOMAIN events'[s.first]
            /\ events'[s.first][Len(events[s.first]) + 1] = Retargeted(job[a].target, job[a].at)
        BY <4>3, <4>4
      <4>. QED  BY <4>5 DEF HasMoved, IsMove, Retargeted
    <3>. QED  BY <1>1, <3>2, <3>3
  <2>6. CASE Follow(a)
    <3>1. At(a, "follow") /\ job[a].heir = {}
      BY <2>6 DEF Follow, OneHeir
    <3>2. PICK q \in job[a].stack :
             /\ job'[a].stack = job[a].stack \ {q}
             /\ \/ /\ branch[q.target] = job[a].head
                   /\ job'[a].heir = {q} /\ At(a, "retarget")'
                \/ /\ branch[q.target] # job[a].head
                   /\ job'[a].heir = {} /\ At(a, "follow")'
      BY <1>6, <2>3, <3>1, LandTurns DEF At, Under, WriteLanded, WriteRetarget
    <3>3. Following(a)'
      BY <3>2 DEF At, Following
    <3>4. s \in job'[a].stack \cup job'[a].heir
      BY <1>1, <3>1, <3>2
    <3>. QED  BY <2>4, <3>3, <3>4 DEF ToFollow, Following
  <2>. QED  BY <2>1, <2>5, <2>6
<1>. QED  BY <1>2, <1>3, <1>4, <1>5, <1>6, StepKinds DEF Continue

LEMMA AllAreFollowedNext ==
    ASSUME "crash" \notin Ops, "checkout" \notin Ops, NoCycles,
           TypeOK, TipUnderHead, OneHeir, BranchesStart, AllAreFollowed, [Next]_vars
    PROVE  AllAreFollowed'
<1>. SUFFICES ASSUME NEW l \in landings', NEW s \in l.stack,
                     branch'[s.target] = Start[s.target], Start[s.target] = l.head
              PROVE  ToFollow(l.head, s)' \/ HasMoved(s.first)'
  BY DEF AllAreFollowed, ToFollow, Following, HasMoved
<1>1. TypeOK' /\ \A b \in Branches : InHistory(branch[b], branch'[b])
  BY NextType, StepAdvances
<1>2. s \in Stacked /\ s.target \in Branches /\ s.first \in Commits
  BY <1>1 DEF TypeOK, Landing, Stacked
<1>3. branch[s.target] = Start[s.target]
  <2>1. branch[s.target] \in Commits /\ Start[s.target] \in Commits
    BY <1>2, ProposalsAssumption DEF TypeOK
  <2>2. InHistory(Start[s.target], branch[s.target]) /\ InHistory(branch[s.target], Start[s.target])
    BY <1>1, <1>2 DEF BranchesStart
  <2>. QED  BY <2>1, <2>2 DEF NoCycles
<1>4. CASE l \in landings
  <2>1. ToFollow(l.head, s) \/ HasMoved(s.first)
    BY <1>3, <1>4 DEF AllAreFollowed
  <2>. QED  BY <1>2, <1>3, <2>1, FollowGoesOn, EventsStay
<1>5. CASE l \notin landings
  <2>1. PICK a \in Actors : /\ WriteLanded(a) /\ At(a, "landed") /\ l = LandedBy(a)
                            /\ l.head = job[a].head /\ l.stack = job[a].stack
    BY <1>5, LandingsGrow
  <2>2. job[a] \in LandJob /\ job'[a] = [job[a] EXCEPT !.step = "follow"]
    BY <2>1, JobFields DEF WriteLanded, Goes, TypeOK, At, LandStep
  <2>3. job'[a].step = "follow" /\ job'[a].head = l.head /\ job'[a].stack = l.stack
    BY <2>1, <2>2 DEF LandJob
  <2>. QED  BY <2>3 DEF ToFollow, Following
<1>. QED  BY <1>4, <1>5

(* What sits on a landed head was moved there by a landing of the same     *)
(* proposal, which kept apart, or was there all the time and was told.     *)
LEMMA NobodyIsLeft ==
    ASSUME NoSharedCommits, NoCycles, TypeOK, LandedIsOnTarget, OwnHeads, LandingsApart,
           MovesAreLandings, BranchesStart, MovedByLandings, AllAreFollowed
    PROVE  StackFollows
<1>. SUFFICES ASSUME NEW l \in landings, NEW s \in l.stack, NEW q \in Ids,
                     Known(q), IsOpen(q), FirstOf(q) = s.first, s.target \notin Pushed,
                     branch[s.target] = l.head,
                     \A a \in Actors : job[a].step \notin LandStep,
                     AimsAt(q, s.target)
              PROVE  FALSE
  BY DEF StackFollows
<1>1. /\ s.target \in Branches /\ s.first \in Commits /\ l.id \in Ids
      /\ \A m \in landings : m.id \in Ids /\ m.head \in Commits
  BY DEF TypeOK, Landing, Stacked
<1>2. NotEnded(s.first)
  BY DEF NotEnded, IsOpen
<1>3. \A m \in landings : ~(m.target = s.target /\ m.head = l.head)
  <2>1. ASSUME NEW m \in landings, m.target = s.target, m.head = l.head  PROVE FALSE
    <3>1. m.id = l.id
      BY <1>1, <2>1 DEF OwnHeads, NoSharedCommits
    <3>. QED  BY <1>2, <2>1, <3>1 DEF LandingsApart, Apart
  <2>. QED  BY <2>1
<1>4. branch[s.target] = Start[s.target]
  BY <1>1, <1>3 DEF MovedByLandings, LandStep
<1>5. HasMoved(s.first)
  BY <1>4 DEF AllAreFollowed, ToFollow, Following, LandStep
<1>6. PICK i \in DOMAIN events[s.first] :
         IsMove(events[s.first][i]) /\ events[s.first][i].target = s.target
  BY <1>5 DEF AimsAt, HasMoved
<1>7. PICK m \in landings : m.target = s.target
  BY <1>1, <1>6 DEF MovesAreLandings, Visited
<1>8. m.head = l.head
  <2>1. InHistory(Start[s.target], m.head) /\ InHistory(m.head, Start[s.target])
    BY <1>4, <1>7 DEF BranchesStart, LandedIsOnTarget
  <2>2. Start[s.target] \in Commits
    BY <1>1, ProposalsAssumption
  <2>. QED  BY <1>1, <1>4, <2>1, <2>2 DEF NoCycles
<1>. QED  BY <1>3, <1>7, <1>8

(* What was stacked on a proposal that landed is told where it lands now,  *)
(* however many landings race with each other, with new revisions and with *)
(* pushes to other branches: as long as no landing dies halfway and nobody *)
(* switches branches under one, no proposal is left aimed at a branch that *)
(* sits on a landed head.  The one thing to keep from happening is that a  *)
(* proposal is landed by two processes at once, one of which read the log  *)
(* before it was retargeted and lands it where the other found something   *)
(* stacked.                                                                *)
THEOREM StackedProposalsFollow ==
    ASSUME "crash" \notin Ops, "checkout" \notin Ops, NoSharedCommits, NoCycles
    PROVE  Spec /\ []RivalsApart => []StackFollows
<1>. DEFINE Inv == /\ TypeOK /\ TipUnderHead /\ OnItsWay /\ LandedIsOnTarget
                   /\ OwnRefs /\ OwnHeads /\ LandingsEnd /\ LandingsApart /\ OneHeir
                   /\ MovesAreLandings /\ BranchesStart /\ MovedByLandings /\ AllAreFollowed
<1>1. Init => Inv
  BY InitType, TipUnderHeadInit, OnItsWayInit, OwnRefsInit, OwnHeadsInit,
     MovesAreLandingsInit, BranchesStartInit
<1>2. Inv /\ RivalsApart /\ [Next]_vars => Inv'
  BY NextType, TipUnderHeadNext, OnItsWayNext, OwnRefsNext, OwnHeadsNext, LandingsEndNext,
     LandingsApartNext, OneHeirNext, MovesAreLandingsNext, BranchesStartNext,
     MovedByLandingsNext, AllAreFollowedNext
<1>3. Inv => StackFollows
  BY NobodyIsLeft
<1>. QED  BY <1>1, <1>2, <1>3, PTL DEF Spec
=============================================================================
