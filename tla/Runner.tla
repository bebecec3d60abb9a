-------------------------------- MODULE Runner --------------------------------
(***************************************************************************)
(* The runner of crates/runner: who may answer the log (lock.rs), what it  *)
(* asks for (jobs.rs), and the passes that claim, do and report one job    *)
(* after another (runner.rs, tasks.rs), while people and their own agents  *)
(* write to the same log.                                                  *)
(*                                                                         *)
(* A proposal is what a runner reads of it: its head, the latest work line *)
(* and the latest ask on that head, whether notes are open, the verdict of *)
(* the one declared check, and the tip it was cut from.  A new revision    *)
(* has no lines yet.  Writing a line is one step here: reading the head    *)
(* and appending to its note are two processes, but a line appended to a   *)
(* head that was replaced meanwhile is one written before it was replaced. *)
(* The moment of a line is the second of one clock that never steps back.  *)
(***************************************************************************)
EXTENDS Integers, FiniteSets

CONSTANTS
    Runners,    \* processes started as runners
    Ids,        \* the proposals, a newer one greater
    Ops,        \* what people do in the story
    MaxEvents,  \* bound on what people do, proposals they opened included
    MaxEnds,    \* bound on crashes and shutdowns
    MaxClock    \* bound on the clock

ASSUME RunnerAssumption ==
    /\ Ids \subseteq Nat /\ IsFiniteSet(Ids)
    /\ MaxEvents \in Nat
    /\ MaxEnds \in Nat
    /\ MaxClock \in Nat \ {0}

VARIABLES
    open,      \* open[p] : neither landed nor abandoned
    rev,       \* rev[p] : the number of the head revision
    line,      \* line[p] : the latest work line on the head
    ask,       \* ask[p] : the moment of the latest ask on the head, or 0
    notes,     \* notes[p] : where notes are open: on the head, on older revisions
    verdict,   \* verdict[p] : what the check said of the head
    base,      \* base[p] : the tip of the target the head contains
    atIt,      \* what a person's own agent took in hand while nobody was on it
    tip,       \* the tip of the target
    clock,     \* the second it is
    lock,      \* who holds the lock file
    pc,        \* pc[r] : where runner r is
    claimed,   \* claimed[r] : the claims it has read and is handing back
    queue,     \* queue[r] : the jobs of its pass not yet begun
    mine,      \* mine[r] : the job it is on, and the proposal as it loaded it
    stopping,  \* stopping[r] : its shutdown flag
    events,    \* how much people did: proposals opened, and what they do here
    ends       \* how many runners crashed or were stopped

proposals == <<open, rev, line, ask, notes, verdict, base, atIt>>
local     == <<pc, claimed, queue, mine, stopping>>
story     == <<events, ends>>
vars      == <<proposals, tip, clock, lock, local, story>>

Tasks   == {"apply", "rebase", "check"}
NoLine  == [phase |-> "none", at |-> 0, by |-> "nobody"]
NoJob   == [phase |-> "none"]
Places  == {"head", "older"}

Line == {NoLine} \cup
        [phase : {"started", "finished", "failed", "cleared"}, at : Nat \ {0},
         by : {"runner", "person"}]
Job  == [id : Ids, task : Tasks]
Mine == {NoJob} \cup
        [phase : {"started", "finished", "failed"}, id : Ids, task : Tasks, rev : Nat,
         base : Nat, asked : BOOLEAN, brief : BOOLEAN]

Performing == {"check", "checking", "apply", "rebase", "agent", "record", "report"}

TypeOK ==
    /\ open \in [Ids -> BOOLEAN]
    /\ rev \in [Ids -> Nat \ {0}]
    /\ line \in [Ids -> Line]
    /\ ask \in [Ids -> Nat]
    /\ notes \in [Ids -> SUBSET Places]
    /\ verdict \in [Ids -> {"none", "passed", "failed"}]
    /\ base \in [Ids -> Nat]
    /\ atIt \in SUBSET Ids
    /\ tip \in Nat
    /\ clock \in Nat \ {0}
    /\ lock \in SUBSET Runners
    /\ pc \in [Runners -> {"off", "recover", "clear", "jobs", "claim", "wait"}
                          \cup Performing]
    /\ claimed \in [Runners -> SUBSET Ids]
    /\ queue \in [Runners -> SUBSET Job]
    /\ mine \in [Runners -> Mine]
    /\ stopping \in [Runners -> BOOLEAN]
    /\ events \in Nat
    /\ ends \in Nat

Init ==
    /\ \E newest \in Ids : open = [p \in Ids |-> p <= newest]
    /\ events = Cardinality({p \in Ids : open[p]})
    /\ rev = [p \in Ids |-> 1]
    /\ line = [p \in Ids |-> NoLine]
    /\ ask = [p \in Ids |-> 0]
    /\ notes \in [Ids -> {{}, {"head"}}]
    /\ \A p \in Ids : ~open[p] => notes[p] = {}
    /\ verdict = [p \in Ids |-> "none"]
    /\ base = [p \in Ids |-> 0]
    /\ atIt = {}
    /\ tip = 0
    /\ clock = 1
    /\ lock = {}
    /\ pc = [r \in Runners |-> "off"]
    /\ claimed = [r \in Runners |-> {}]
    /\ queue = [r \in Runners |-> {}]
    /\ mine = [r \in Runners |-> NoJob]
    /\ stopping = [r \in Runners |-> FALSE]
    /\ ends = 0

-----------------------------------------------------------------------------
(* What the log says of a proposal.                                        *)

Working(p) == line[p].phase = "started"

(* Asked for, and nothing since but a claim handed back.                   *)
Dispatched(p) ==
    /\ ask[p] # 0
    /\ line[p].at < ask[p] \/ line[p].phase \in {"none", "cleared"}

Stale(p) == base[p] # tip

(* Taking a failure for an answer to a handover given after it.            *)
AsksForUnlessFailed(p, task) ==
    /\ open[p] /\ ~Working(p) /\ line[p].phase # "failed"
    /\ IF Dispatched(p)
       THEN task = IF Stale(p) /\ "head" \notin notes[p] THEN "rebase" ELSE "apply"
       ELSE IF Stale(p) THEN task = "rebase"
       ELSE verdict[p] = "none" /\ task = "check"

(* Asking again for what failed.                                           *)
AsksForRetrying(p, task) ==
    /\ open[p] /\ ~Working(p)
    /\ IF Dispatched(p)
       THEN task = IF Stale(p) /\ "head" \notin notes[p] THEN "rebase" ELSE "apply"
       ELSE IF Stale(p) THEN task = "rebase"
       ELSE verdict[p] = "none" /\ task = "check"

(* The job p asks for: none, or one.                                       *)
AsksFor(p, task) ==
    /\ open[p] /\ ~Working(p)
    /\ IF Dispatched(p)
       THEN task = IF Stale(p) /\ "head" \notin notes[p] THEN "rebase" ELSE "apply"
       ELSE /\ line[p].phase # "failed"
            /\ IF Stale(p) THEN task = "rebase"
               ELSE verdict[p] = "none" /\ task = "check"

Pending == {job \in Job : AsksFor(job.id, job.task)}

Newest(ps) == CHOOSE p \in ps : \A q \in ps : q <= p

-----------------------------------------------------------------------------
(* Writing to the log.                                                     *)

Report(p, phase, by) ==
    line' = [line EXCEPT ![p] = [phase |-> phase, at |-> clock, by |-> by]]

(* A new head, cut from tip b: what was said of the old one stays with it. *)
Revise(p, b) ==
    /\ rev' = [rev EXCEPT ![p] = @ + 1]
    /\ line' = [line EXCEPT ![p] = NoLine]
    /\ ask' = [ask EXCEPT ![p] = 0]
    /\ notes' = [notes EXCEPT ![p] = IF @ = {} THEN {} ELSE {"older"}]
    /\ verdict' = [verdict EXCEPT ![p] = "none"]
    /\ base' = [base EXCEPT ![p] = b]
    /\ atIt' = atIt \ {p}
    /\ UNCHANGED open

Goes(r, where) == pc' = [pc EXCEPT ![r] = where]

(* A refused read or record ends the pass, and the loop goes on.           *)
Abandons(r) ==
    /\ Goes(r, "wait")
    /\ claimed' = [claimed EXCEPT ![r] = {}]
    /\ queue' = [queue EXCEPT ![r] = {}]
    /\ mine' = [mine EXCEPT ![r] = NoJob]
    /\ UNCHANGED stopping

-----------------------------------------------------------------------------
(* A pass.                                                                 *)

(* Reading the lock file for a pid instead of locking it.                  *)
StartRegardless(r) ==
    /\ pc[r] = "off"
    /\ lock' = {r}
    /\ Goes(r, "recover")
    /\ UNCHANGED <<proposals, tip, clock, claimed, queue, mine, stopping, story>>

(* `Lock::acquire`; whoever does not get it leaves.                        *)
Start(r) ==
    /\ pc[r] = "off"
    /\ lock = {}
    /\ lock' = {r}
    /\ Goes(r, "recover")
    /\ UNCHANGED <<proposals, tip, clock, claimed, queue, mine, stopping, story>>

Recover(r) ==
    /\ pc[r] = "recover"
    /\ claimed' = [claimed EXCEPT ![r] = {p \in Ids : open[p] /\ Working(p)}]
    /\ Goes(r, "clear")
    /\ UNCHANGED <<proposals, tip, clock, lock, queue, mine, stopping, story>>

(* Handing back one claim, unless the proposal ended meanwhile.            *)
Clear(r) ==
    LET p == Newest(claimed[r])
    IN  /\ pc[r] = "clear"
        /\ claimed[r] # {}
        /\ \/ /\ open[p]
              /\ Report(p, "cleared", "runner")
              /\ claimed' = [claimed EXCEPT ![r] = @ \ {p}]
              /\ UNCHANGED <<pc, queue, mine, stopping>>
           \/ ~open[p] /\ Abandons(r) /\ UNCHANGED line
        /\ UNCHANGED <<open, rev, ask, notes, verdict, base, atIt, tip, clock, lock, story>>

(* Leaving what the last runner claimed.                                   *)
PlanOnly(r) ==
    /\ pc[r] = "clear"
    /\ claimed' = [claimed EXCEPT ![r] = {}]
    /\ queue' = [queue EXCEPT ![r] = Pending]
    /\ Goes(r, "jobs")
    /\ UNCHANGED <<proposals, tip, clock, lock, mine, stopping, story>>

(* One reading decides the whole pass.                                     *)
Plan(r) ==
    /\ pc[r] = "clear"
    /\ claimed[r] = {}
    /\ queue' = [queue EXCEPT ![r] = Pending]
    /\ Goes(r, "jobs")
    /\ UNCHANGED <<proposals, tip, clock, lock, claimed, mine, stopping, story>>

Load(r) ==
    LET p == Newest({job.id : job \in queue[r]})
    IN  /\ pc[r] = "jobs"
        /\ ~stopping[r]
        /\ \E job \in queue[r] :
              /\ job.id = p
              /\ queue' = [queue EXCEPT ![r] = @ \ {job}]
              /\ mine' = [mine EXCEPT ![r] =
                            [phase |-> "started", id |-> p, task |-> job.task,
                             rev |-> rev[p], base |-> base[p],
                             asked |-> Dispatched(p), brief |-> notes[p] # {}]]
        /\ Goes(r, "claim")
        /\ UNCHANGED <<proposals, tip, clock, lock, claimed, stopping, story>>

(* The line before and the line after a job.                               *)
Writes(r, next) ==
    /\ \/ /\ open[mine[r].id]
          /\ Report(mine[r].id, mine[r].phase, "runner")
          /\ Goes(r, next)
          /\ UNCHANGED <<claimed, queue, mine, stopping>>
       \/ ~open[mine[r].id] /\ Abandons(r) /\ UNCHANGED line
    /\ UNCHANGED <<open, rev, ask, notes, verdict, base, atIt, tip, clock, lock, story>>

Claim(r)  == pc[r] = "claim" /\ Writes(r, mine[r].task)
Answer(r) == pc[r] = "report" /\ Writes(r, "jobs")

(* The loop's floor of time, which a wakeup does not shorten.              *)
EndPass(r) ==
    /\ pc[r] = "jobs"
    /\ queue[r] = {} \/ stopping[r]
    /\ Abandons(r)
    /\ UNCHANGED <<proposals, tip, clock, lock, story>>

Again(r) ==
    /\ pc[r] = "wait"
    /\ IF stopping[r] THEN Goes(r, "off") /\ lock' = {} ELSE Goes(r, "recover") /\ UNCHANGED lock
    /\ stopping' = [stopping EXCEPT ![r] = FALSE]
    /\ UNCHANGED <<proposals, tip, clock, claimed, queue, mine, story>>

-----------------------------------------------------------------------------
(* The jobs.                                                               *)

Ends(r, phase) ==
    /\ mine' = [mine EXCEPT ![r].phase = phase]
    /\ Goes(r, "report")
    /\ UNCHANGED <<claimed, queue, stopping>>

(* A commit came out of it, cut from tip b, to be recorded.                *)
Leaves(r, b) ==
    /\ mine' = [mine EXCEPT ![r].base = b]
    /\ Goes(r, "record")
    /\ UNCHANGED <<claimed, queue, stopping>>

CallsAgent(r, b) ==
    /\ mine' = [mine EXCEPT ![r].base = b]
    /\ Goes(r, "agent")
    /\ UNCHANGED <<claimed, queue, stopping>>

(* `app::check` loads for itself, and asks no check twice.                 *)
BeginCheck(r) ==
    LET p == mine[r].id
    IN  /\ pc[r] = "check"
        /\ CASE verdict[p] = "passed" -> Ends(r, "finished")
             [] verdict[p] = "failed" -> Ends(r, "failed")
             [] verdict[p] = "none" ->
                   /\ mine' = [mine EXCEPT ![r].rev = rev[p]]
                   /\ Goes(r, "checking")
                   /\ UNCHANGED <<claimed, queue, stopping>>
        /\ UNCHANGED <<proposals, tip, clock, lock, story>>

(* A verdict goes to the note of the commit it is about; a check that was  *)
(* killed gives none.                                                      *)
EndCheck(r) ==
    LET p == mine[r].id
    IN  /\ pc[r] = "checking"
        /\ \/ \E said \in {"passed", "failed"} :
                 /\ verdict' = [verdict EXCEPT ![p] = IF mine[r].rev = rev[p] THEN said ELSE @]
                 /\ Ends(r, IF said = "passed" THEN "finished" ELSE "failed")
           \/ UNCHANGED verdict /\ Ends(r, "failed")
        /\ UNCHANGED <<open, rev, line, ask, notes, base, atIt, tip, clock, lock, story>>

Apply(r) ==
    /\ pc[r] = "apply"
    /\ IF mine[r].brief THEN CallsAgent(r, mine[r].base) ELSE Ends(r, "failed")
    /\ UNCHANGED <<proposals, tip, clock, lock, story>>

(* Onto the tip as it is now: there may be nothing to move, git may do it, *)
(* and a conflict is for an agent, if one was asked for.                   *)
Rebase(r) ==
    /\ pc[r] = "rebase"
    /\ \/ mine[r].base = tip /\ Ends(r, "failed")
       \/ mine[r].base # tip /\ (Leaves(r, tip) \/ Ends(r, "failed"))
       \/ mine[r].base # tip /\ mine[r].asked /\ CallsAgent(r, tip)
    /\ UNCHANGED <<proposals, tip, clock, lock, story>>

(* The agent is done: with a commit, with words alone, or with nothing, an *)
(* error, a conflict left, or killed by a shutdown.                        *)
AgentEnds(r) ==
    /\ pc[r] = "agent"
    /\ \/ ~stopping[r] /\ Leaves(r, mine[r].base)
       \/ ~stopping[r] /\ mine[r].task = "apply" /\ Ends(r, "finished")
       \/ Ends(r, "failed")
    /\ UNCHANGED <<proposals, tip, clock, lock, story>>

Record(r) ==
    LET p == mine[r].id
    IN  /\ pc[r] = "record"
        /\ \/ open[p] /\ Revise(p, mine[r].base) /\ Ends(r, "finished")
           \/ ~open[p] /\ Ends(r, "failed") /\ UNCHANGED proposals
        /\ UNCHANGED <<tip, clock, lock, story>>

Step(r) ==
    \/ Recover(r) \/ Clear(r) \/ Plan(r) \/ Load(r) \/ Claim(r) \/ EndPass(r)
    \/ Again(r) \/ BeginCheck(r) \/ EndCheck(r) \/ Apply(r) \/ Rebase(r)
    \/ AgentEnds(r) \/ Record(r) \/ Answer(r)

-----------------------------------------------------------------------------
(* The ends of a runner.                                                   *)

MayEnd(r) == pc[r] # "off" /\ ends < MaxEnds /\ ends' = ends + 1

(* The kernel drops the lock with the process.                             *)
Crash(r) ==
    /\ MayEnd(r)
    /\ Goes(r, "off")
    /\ lock' = {}
    /\ claimed' = [claimed EXCEPT ![r] = {}]
    /\ queue' = [queue EXCEPT ![r] = {}]
    /\ mine' = [mine EXCEPT ![r] = NoJob]
    /\ stopping' = [stopping EXCEPT ![r] = FALSE]
    /\ UNCHANGED <<proposals, tip, clock, events>>

ShutDown(r) ==
    /\ MayEnd(r)
    /\ ~stopping[r]
    /\ stopping' = [stopping EXCEPT ![r] = TRUE]
    /\ UNCHANGED <<proposals, tip, clock, lock, pc, claimed, queue, mine, events>>

-----------------------------------------------------------------------------
(* Everybody else.                                                         *)

Does(op) ==
    /\ op \in Ops
    /\ events < MaxEvents
    /\ events' = events + 1
    /\ UNCHANGED <<clock, lock, local, ends>>

Handover(p) ==
    /\ Does("handover")
    /\ open[p]
    /\ ask' = [ask EXCEPT ![p] = clock]
    /\ UNCHANGED <<open, rev, line, notes, verdict, base, atIt, tip>>

Annotate(p) ==
    /\ Does("annotate")
    /\ open[p]
    /\ notes' = [notes EXCEPT ![p] = @ \cup {"head"}]
    /\ UNCHANGED <<open, rev, line, ask, verdict, base, atIt, tip>>

(* The last open note of the head, or of the revisions before it.          *)
Resolve(p, place) ==
    /\ Does("resolve")
    /\ open[p]
    /\ place \in notes[p]
    /\ notes' = [notes EXCEPT ![p] = @ \ {place}]
    /\ UNCHANGED <<open, rev, line, ask, verdict, base, atIt, tip>>

(* A person's own revision, cut from the old tip or from the new one.      *)
ReviseByHand(p) ==
    /\ Does("revise")
    /\ open[p]
    /\ \E b \in {base[p], tip} : Revise(p, b)
    /\ UNCHANGED tip

(* `githerb work`, by which a person's own agent says what it is doing.    *)
Work(p, phase) ==
    /\ Does("work")
    /\ open[p]
    /\ Report(p, phase, "person")
    /\ atIt' = IF phase = "started" /\ ~Working(p) THEN atIt \cup {p}
               ELSE IF phase = "started" THEN atIt ELSE atIt \ {p}
    /\ UNCHANGED <<open, rev, ask, notes, verdict, base, tip>>

(* Landed or abandoned.                                                    *)
End(p) ==
    /\ Does("end")
    /\ open[p]
    /\ open' = [open EXCEPT ![p] = FALSE]
    /\ UNCHANGED <<rev, line, ask, notes, verdict, base, atIt, tip>>

Advance ==
    /\ Does("advance")
    /\ tip' = tip + 1
    /\ UNCHANGED proposals

Tick ==
    /\ clock < MaxClock
    /\ clock' = clock + 1
    /\ UNCHANGED <<proposals, tip, lock, local, story>>

People ==
    \/ Advance
    \/ \E p \in Ids :
          \/ Handover(p) \/ Annotate(p) \/ ReviseByHand(p) \/ End(p)
          \/ \E place \in Places : Resolve(p, place)
          \/ \E phase \in {"started", "finished", "failed"} : Work(p, phase)

Next ==
    \/ \E r \in Runners : Start(r) \/ Step(r) \/ Crash(r) \/ ShutDown(r)
    \/ People
    \/ Tick

(* A runner is a thread, and its passes never end; agents, checks and git  *)
(* end; and whenever no runner is left somebody starts one.  Nobody has to *)
(* write to the log, and no runner has to end.                             *)
Fairness ==
    /\ \A r \in Runners : WF_vars(Step(r))
    /\ WF_vars(\E r \in Runners : Start(r))

Safety == Init /\ [][Next]_vars
Spec   == Safety /\ Fairness

-----------------------------------------------------------------------------
(* Properties.                                                             *)

(* The claim of a job being done stands, however often the head moves: no  *)
(* other runner hands it back or answers it.  A job is bracketed by its    *)
(* two lines (runner.rs), and the lock is what makes any other claim that  *)
(* of a process that is gone.                                              *)
ClaimsStand ==
    \A r \in Runners :
        LET p == mine[r].id
        IN  (pc[r] \in Performing /\ open[p] /\ line[p].by = "runner")
            => line[p].phase = "started"

(* A failure on a revision is never retried by a runner but for a later    *)
(* handover (jobs.rs).                                                     *)
FailuresStand ==
    [][\A p \in Ids :
          (/\ line[p].phase = "failed" /\ line[p].by = "runner"
           /\ line'[p].phase = "started" /\ line'[p].by = "runner"
           /\ rev'[p] = rev[p])
          => ask[p] > line[p].at]_vars

(* Nobody stays at work for ever: a claim whose process is gone is handed  *)
(* back, and every other one is answered.                                  *)
ClaimsEnd == \A p \in Ids : Working(p) ~> (~Working(p) \/ ~open[p])

(* A handover is taken up.                                                 *)
HandoversAreTakenUp == \A p \in Ids : Dispatched(p) ~> (~Dispatched(p) \/ ~open[p])

(* The loop comes to rest: once nobody writes any more, a runner stops     *)
(* finding jobs, so no agent is called all night.                          *)
TheLoopRests == <>[](\A r \in Runners : pc[r] \notin Performing)

(* At most one agent on a proposal, "because two agents on one branch is   *)
(* how work gets lost" (jobs.rs): none is called on a head that a person's *)
(* own agent said it took in hand while nobody else was on it, and has     *)
(* said nothing of since.                                                  *)
OneAgentPerProposal ==
    [][\A r \in Runners :
          (pc[r] # "agent" /\ pc'[r] = "agent") => mine[r].id \notin atIt]_vars
=============================================================================
