----------------------------- MODULE RunnerProofs -----------------------------
(***************************************************************************)
(* The claim of a job being done stands, and a failure is not retried, for *)
(* any number of runners and proposals and whatever people do meanwhile.   *)
(*                                                                         *)
(* Neither property is inductive.  The first needs that a runner which is  *)
(* not gone holds the lock; the second, that the jobs a runner has read    *)
(* but not begun are about proposals it is not working on, so that its own *)
(* failures never meet a job it still means to do.                         *)
(***************************************************************************)
EXTENDS Runner, FiniteSetTheorems, TLAPS

OnAJob == Performing \cup {"claim"}

(* Whoever is not gone holds the lock.                                     *)
Held == \A r \in Runners : pc[r] # "off" => lock = {r}

AsksArePast == \A p \in Ids : ask[p] <= clock

(* A job in hand was loaded, and is no longer among those to be begun.     *)
InHand(r) ==
    /\ pc[r] \in OnAJob => /\ mine[r] # NoJob
                          /\ \A job \in queue[r] : job.id # mine[r].id
    /\ pc[r] = "claim" => mine[r].phase = "started"
    /\ pc[r] = "report" => mine[r].phase # "started"

(* At most one job each, and none between two passes.                      *)
OneEach(r) ==
    /\ \A job, other \in queue[r] : job.id = other.id => job = other
    /\ pc[r] \in {"off", "recover", "clear", "wait"} => queue[r] = {}

(* A failure of p was followed by a handover.                              *)
Retriable(p) ==
    (line[p].phase = "failed" /\ line[p].by = "runner") => line[p].at < ask[p]

AskedAgain(r) ==
    /\ \A job \in queue[r] : Retriable(job.id)
    /\ pc[r] = "claim" => Retriable(mine[r].id)

(* The part of ClaimsStand that is about r.                                *)
Stands(r) ==
    (pc[r] \in Performing /\ open[mine[r].id] /\ line[mine[r].id].by = "runner")
    => line[mine[r].id].phase = "started"

Own(r) == InHand(r) /\ OneEach(r) /\ AskedAgain(r) /\ Stands(r)

RunnerInv == TypeOK /\ Held /\ AsksArePast /\ \A r \in Runners : Own(r)

LEMMA RunnerStarts ==
    ASSUME Init
    PROVE  RunnerInv
<1> USE RunnerAssumption
<1>1. PICK newest \in Ids : open = [p \in Ids |-> p <= newest]
  BY DEF Init
<1>2. open \in [Ids -> BOOLEAN]
  BY <1>1
<1>3. notes \in [Ids -> SUBSET Places]
  BY DEF Init, Places
<1>4. events \in Nat
  <2>1. IsFiniteSet({p \in Ids : open[p]})
    BY FS_Subset
  <2> QED
    BY <2>1, FS_CardinalityType DEF Init
<1>5. TypeOK
  BY <1>2, <1>3, <1>4 DEF Init, TypeOK, Line, Mine
<1>6. Held /\ AsksArePast
  BY DEF Init, Held, AsksArePast
<1>7. ASSUME NEW r \in Runners PROVE Own(r)
  BY DEF Init, Own, InHand, OneEach, AskedAgain, Stands, OnAJob, Performing
<1> QED
  BY <1>5, <1>6, <1>7 DEF RunnerInv

(* A line of the work log is well formed, and so is a log with it.         *)
LEMMA ReportType ==
    ASSUME TypeOK, NEW p, NEW by \in {"runner", "person"},
           NEW phase \in {"started", "finished", "failed", "cleared"},
           Report(p, phase, by)
    PROVE  line' \in [Ids -> Line]
BY DEF TypeOK, Report, Line

LEMMA ReviseType ==
    ASSUME TypeOK, NEW p \in Ids, NEW b \in Nat, Revise(p, b)
    PROVE  /\ rev' \in [Ids -> Nat \ {0}]
           /\ line' \in [Ids -> Line]
           /\ ask' \in [Ids -> Nat]
           /\ notes' \in [Ids -> SUBSET Places]
           /\ verdict' \in [Ids -> {"none", "passed", "failed"}]
           /\ base' \in [Ids -> Nat]
           /\ atIt' \in SUBSET Ids
BY DEF TypeOK, Revise, Line, Places

(* Giving up a pass leaves a runner with nothing in hand.                  *)
LEMMA AbandonsType ==
    ASSUME TypeOK, NEW r \in Runners, Abandons(r)
    PROVE  /\ pc' \in [Runners -> {"off", "recover", "clear", "jobs", "claim", "wait"}
                                  \cup Performing]
           /\ claimed' \in [Runners -> SUBSET Ids]
           /\ queue' \in [Runners -> SUBSET Job]
           /\ mine' \in [Runners -> Mine]
           /\ stopping' \in [Runners -> BOOLEAN]
BY DEF TypeOK, Abandons, Goes, Mine

(* A job in hand, and what a step of it may change.                        *)
InWork ==
    [phase : {"started", "finished", "failed"}, id : Ids, task : Tasks, rev : Nat,
     base : Nat, asked : BOOLEAN, brief : BOOLEAN]

LEMMA WorkedOn ==
    ASSUME NEW m \in InWork, NEW phase \in {"finished", "failed"}, NEW b \in Nat
    PROVE  /\ [m EXCEPT !.phase = phase] \in InWork
           /\ [m EXCEPT !.phase = phase].phase = phase
           /\ [m EXCEPT !.phase = phase].id = m.id
           /\ [m EXCEPT !.base = b] \in InWork
           /\ [m EXCEPT !.base = b].id = m.id
           /\ [m EXCEPT !.rev = b] \in InWork
           /\ [m EXCEPT !.rev = b].id = m.id
BY DEF InWork

(* Going on within a job: the runner keeps the job, and its types.         *)
LEMMA GoingOn ==
    ASSUME TypeOK, NEW r \in Runners, pc[r] \in OnAJob, InHand(r),
           NEW b \in Nat, NEW phase \in {"finished", "failed"},
           \/ Ends(r, phase)
           \/ Leaves(r, b)
           \/ CallsAgent(r, b)
           \/ mine' = [mine EXCEPT ![r].rev = b] /\ Goes(r, "checking")
              /\ UNCHANGED <<claimed, queue, stopping>>
    PROVE  /\ pc' \in [Runners -> {"off", "recover", "clear", "jobs", "claim", "wait"}
                                  \cup Performing]
           /\ mine' \in [Runners -> Mine]
           /\ UNCHANGED <<claimed, queue, stopping>>
           /\ \A s \in Runners \ {r} : pc'[s] = pc[s]
           /\ pc'[r] \in {"report", "record", "agent", "checking"}
           /\ pc'[r] = "report" => mine'[r].phase # "started"
           /\ mine'[r] # NoJob
           /\ mine'[r].id = mine[r].id
<1>1. mine[r] \in InWork
  BY DEF TypeOK, InHand, Mine, InWork
<1>2. \A m \in InWork : m \in Mine /\ m # NoJob
  BY DEF InWork, Mine, NoJob
<1>3. PICK m \in InWork : /\ mine' = [mine EXCEPT ![r] = m]
                          /\ m.id = mine[r].id
                          /\ Ends(r, phase) => m.phase = phase
  <2>1. CASE Ends(r, phase)
    <3> DEFINE m == [mine[r] EXCEPT !.phase = phase]
    <3>1. mine' = [mine EXCEPT ![r] = m]
      BY <2>1 DEF Ends
    <3>2. m \in InWork /\ m.id = mine[r].id /\ m.phase = phase
      BY <1>1, WorkedOn
    <3> HIDE DEF m
    <3> QED
      BY <2>1, <3>1, <3>2
  <2>2. CASE ~Ends(r, phase) /\ (Leaves(r, b) \/ CallsAgent(r, b))
    <3> DEFINE m == [mine[r] EXCEPT !.base = b]
    <3>1. mine' = [mine EXCEPT ![r] = m]
      BY <2>2 DEF Leaves, CallsAgent
    <3>2. m \in InWork /\ m.id = mine[r].id
      BY <1>1, WorkedOn
    <3> HIDE DEF m
    <3> QED
      BY <2>2, <3>1, <3>2
  <2>3. CASE ~Ends(r, phase) /\ mine' = [mine EXCEPT ![r].rev = b]
    <3> DEFINE m == [mine[r] EXCEPT !.rev = b]
    <3>1. mine' = [mine EXCEPT ![r] = m]
      BY <2>3
    <3>2. m \in InWork /\ m.id = mine[r].id
      BY <1>1, WorkedOn
    <3> HIDE DEF m
    <3> QED
      BY <2>3, <3>1, <3>2
  <2> QED
    BY <2>1, <2>2, <2>3
<1>4. mine' \in [Runners -> Mine] /\ mine'[r] = m
  BY <1>2, <1>3 DEF TypeOK
<1>5. UNCHANGED <<claimed, queue, stopping>>
  BY DEF Ends, Leaves, CallsAgent
<1>6. \/ Ends(r, phase) /\ Goes(r, "report")
      \/ Goes(r, "record") \/ Goes(r, "agent") \/ Goes(r, "checking")
  BY DEF Ends, Leaves, CallsAgent
<1>7. /\ pc' \in [Runners -> {"off", "recover", "clear", "jobs", "claim", "wait"}
                             \cup Performing]
      /\ \A s \in Runners \ {r} : pc'[s] = pc[s]
      /\ pc'[r] \in {"report", "record", "agent", "checking"}
      /\ pc'[r] = "report" => Ends(r, phase)
  BY <1>6 DEF Goes, TypeOK, Performing
<1> QED
  BY <1>2, <1>3, <1>4, <1>5, <1>7

-----------------------------------------------------------------------------
(* Only one runner at a time has anything to keep.                         *)

LEMMA Alone ==
    ASSUME RunnerInv, NEW r \in Runners, pc[r] # "off", NEW s \in Runners \ {r}
    PROVE  pc[s] = "off" /\ queue[s] = {}
BY DEF RunnerInv, Held, Own, OneEach

(* A runner that holds the lock answers for its own job only.              *)
LEMMA RunnersTurn ==
    ASSUME RunnerInv, TypeOK', NEW r \in Runners, pc[r] # "off",
           lock' = lock \/ pc'[r] = "off",
           UNCHANGED clock, \A p \in Ids : ask'[p] = ask[p] \/ ask'[p] = 0,
           \A s \in Runners \ {r} : pc'[s] = pc[s] /\ queue'[s] = queue[s],
           Own(r)'
    PROVE  RunnerInv'
<1>1. \A s \in Runners \ {r} : pc'[s] = "off" /\ queue'[s] = {}
  BY Alone
<1>2. Held'
  BY <1>1 DEF Held, RunnerInv
<1>3. AsksArePast'
  <2>1. \A p \in Ids : ask[p] <= clock /\ 0 <= clock
    BY DEF RunnerInv, AsksArePast, TypeOK
  <2> QED
    BY <2>1 DEF AsksArePast
<1>4. ASSUME NEW s \in Runners \ {r} PROVE Own(s)'
  <2>1. pc'[s] = "off" /\ queue'[s] = {}
    BY <1>1
  <2>2. InHand(s)' /\ Stands(s)'
    BY <2>1 DEF InHand, Stands, OnAJob, Performing
  <2>3. OneEach(s)' /\ AskedAgain(s)'
    BY <2>1 DEF OneEach, AskedAgain
  <2> QED
    BY <2>2, <2>3 DEF Own
<1> QED
  BY <1>2, <1>3, <1>4 DEF RunnerInv

(* What people write takes no job from a runner and fails none for it.     *)
LEMMA PeoplesTurn ==
    ASSUME RunnerInv, TypeOK', UNCHANGED <<lock, local>>, AsksArePast',
           \A p \in Ids : Retriable(p) => Retriable(p)',
           \A p \in Ids : open'[p] => open[p],
           \A p \in Ids : line'[p] = line[p] \/ line'[p].by # "runner"
    PROVE  RunnerInv'
<1>1. Held'
  BY DEF RunnerInv, Held, local
<1>2. ASSUME NEW r \in Runners PROVE Own(r)'
  <2>1. Own(r)
    BY DEF RunnerInv
  <2>2. pc[r] \in OnAJob => mine[r].id \in Ids
    BY <2>1 DEF RunnerInv, TypeOK, Own, InHand, Mine
  <2>3. \A job \in queue[r] : job.id \in Ids
    BY DEF RunnerInv, TypeOK, Job
  <2>4. InHand(r)' /\ OneEach(r)'
    BY <2>1 DEF Own, InHand, OneEach, local
  <2>5. AskedAgain(r)'
    BY <2>1, <2>2, <2>3 DEF Own, AskedAgain, local, OnAJob
  <2>6. Stands(r)'
    BY <2>1, <2>2 DEF Own, Stands, local, OnAJob
  <2> QED
    BY <2>4, <2>5, <2>6 DEF Own
<1> QED
  BY <1>1, <1>2 DEF RunnerInv

-----------------------------------------------------------------------------
(* A runner's steps.                                                       *)

LEMMA StartKeeps ==
    ASSUME RunnerInv, NEW r \in Runners, Start(r)
    PROVE  RunnerInv'
<1>1. TypeOK'
  BY DEF RunnerInv, TypeOK, Start, Goes, proposals, story
<1>2. \A s \in Runners : pc[s] = "off"
  BY DEF RunnerInv, Held, Start
<1>3. \A s \in Runners \ {r} : pc'[s] = "off"
  BY <1>2 DEF RunnerInv, TypeOK, Start, Goes
<1>4. pc'[r] = "recover" /\ lock' = {r}
  BY DEF RunnerInv, TypeOK, Start, Goes
<1>5. Held' /\ AsksArePast'
  BY <1>3, <1>4 DEF Held, AsksArePast, RunnerInv, Start, proposals
<1>6. ASSUME NEW s \in Runners PROVE Own(s)'
  <2>1. pc'[s] \in {"off", "recover"} /\ queue'[s] = {}
    BY <1>2, <1>3, <1>4 DEF RunnerInv, Own, OneEach, Start
  <2>2. InHand(s)' /\ Stands(s)'
    BY <2>1 DEF InHand, Stands, OnAJob, Performing
  <2>3. OneEach(s)' /\ AskedAgain(s)'
    BY <2>1 DEF OneEach, AskedAgain
  <2> QED
    BY <2>2, <2>3 DEF Own
<1> QED
  BY <1>1, <1>5, <1>6 DEF RunnerInv

(* A runner with nothing in hand and nothing to begin has nothing to keep. *)
LEMMA NothingToKeep ==
    ASSUME NEW r \in Runners, pc'[r] \in {"off", "recover", "clear", "wait"}, queue'[r] = {}
    PROVE  Own(r)'
<1>1. InHand(r)' /\ Stands(r)'
  BY DEF InHand, Stands, OnAJob, Performing
<1>2. OneEach(r)' /\ AskedAgain(r)'
  BY DEF OneEach, AskedAgain
<1> QED
  BY <1>1, <1>2 DEF Own

LEMMA BetweenPasses ==
    ASSUME RunnerInv, NEW r \in Runners,
           Recover(r) \/ Clear(r) \/ EndPass(r) \/ Again(r) \/ Crash(r)
    PROVE  RunnerInv'
<1>1. pc[r] # "off" /\ UNCHANGED <<ask, clock>>
  BY DEF Recover, Clear, EndPass, Again, Crash, MayEnd, proposals
<1>2. TypeOK'
  <2>1. CASE Recover(r)
    BY <2>1 DEF RunnerInv, TypeOK, Recover, Goes, proposals, story
  <2>2. CASE Clear(r) /\ Abandons(r) /\ UNCHANGED line
    BY <2>2, AbandonsType DEF RunnerInv, TypeOK, Clear, story
  <2>3. CASE /\ Clear(r)
             /\ Report(Newest(claimed[r]), "cleared", "runner")
             /\ claimed' = [claimed EXCEPT ![r] = @ \ {Newest(claimed[r])}]
             /\ UNCHANGED <<pc, queue, mine, stopping>>
    <3>1. line' \in [Ids -> Line]
      BY <2>3, ReportType DEF RunnerInv
    <3> QED
      BY <2>3, <3>1 DEF RunnerInv, TypeOK, Clear, story
  <2>4. CASE EndPass(r)
    BY <2>4, AbandonsType DEF RunnerInv, TypeOK, EndPass, proposals, story
  <2>5. CASE Again(r)
    BY <2>5 DEF RunnerInv, TypeOK, Again, Goes, proposals, story
  <2>6. CASE Crash(r)
    BY <2>6 DEF RunnerInv, TypeOK, Crash, MayEnd, Goes, Mine, proposals
  <2> QED
    BY <2>1, <2>2, <2>3, <2>4, <2>5, <2>6 DEF Clear
<1>3. pc[r] \in {"recover", "clear", "wait"} => queue[r] = {}
  BY DEF RunnerInv, Own, OneEach
<1>4. pc'[r] \in {"off", "recover", "clear", "wait"} /\ queue'[r] = {}
  BY <1>3 DEF RunnerInv, TypeOK, Recover, Clear, EndPass, Again, Crash, Abandons, Goes
<1>5. \A s \in Runners \ {r} : pc'[s] = pc[s] /\ queue'[s] = queue[s]
  BY DEF RunnerInv, TypeOK, Recover, Clear, EndPass, Again, Crash, Abandons, Goes
<1>6. lock' = lock \/ pc'[r] = "off"
  BY <1>1 DEF RunnerInv, TypeOK, Recover, Clear, EndPass, Again, Crash, Goes
<1> QED
  BY <1>1, <1>2, <1>4, <1>5, <1>6, NothingToKeep, RunnersTurn

(* The jobs of a pass: at most one of a proposal, and none that failed     *)
(* and was not handed over since.                                          *)
LEMMA PlanKeeps ==
    ASSUME RunnerInv, NEW r \in Runners, Plan(r)
    PROVE  RunnerInv'
<1>1. pc'[r] = "jobs" /\ queue'[r] = Pending
  BY DEF RunnerInv, TypeOK, Plan, Goes
<1>2. TypeOK'
  <2>1. Pending \in SUBSET Job
    BY DEF Pending
  <2> QED
    BY <2>1 DEF RunnerInv, TypeOK, Plan, Goes, proposals, story
<1>3. Own(r)'
  <2>1. \A job, other \in Pending : job.id = other.id => job = other
    BY DEF Pending, Job, AsksFor
  <2>2. \A job \in Pending : Retriable(job.id)
    BY DEF Pending, AsksFor, Retriable, Dispatched
  <2>3. UNCHANGED <<line, ask>>
    BY DEF Plan, proposals
  <2>4. InHand(r)' /\ Stands(r)'
    BY <1>1 DEF InHand, Stands, OnAJob, Performing
  <2>5. OneEach(r)' /\ AskedAgain(r)'
    BY <1>1, <2>1, <2>2, <2>3 DEF OneEach, AskedAgain, Retriable
  <2> QED
    BY <2>4, <2>5 DEF Own
<1> QED
  BY <1>2, <1>3, RunnersTurn DEF RunnerInv, TypeOK, Plan, Goes, proposals

LEMMA LoadKeeps ==
    ASSUME RunnerInv, NEW r \in Runners, Load(r)
    PROVE  RunnerInv'
<1>1. PICK job \in queue[r] :
        /\ queue' = [queue EXCEPT ![r] = @ \ {job}]
        /\ mine' = [mine EXCEPT ![r] =
                      [phase |-> "started", id |-> job.id, task |-> job.task,
                       rev |-> rev[job.id], base |-> base[job.id],
                       asked |-> Dispatched(job.id), brief |-> notes[job.id] # {}]]
  BY DEF Load
<1>2. job \in Job
  BY DEF RunnerInv, TypeOK
<1>3. PICK m \in InWork : /\ mine' = [mine EXCEPT ![r] = m]
                          /\ m.phase = "started" /\ m.id = job.id
  <2> DEFINE m == [phase |-> "started", id |-> job.id, task |-> job.task,
                   rev |-> rev[job.id], base |-> base[job.id],
                   asked |-> Dispatched(job.id), brief |-> notes[job.id] # {}]
  <2>1. Dispatched(job.id) \in BOOLEAN
    BY <1>2 DEF Dispatched, RunnerInv, TypeOK, Job
  <2>2. job.id \in Ids /\ job.task \in Tasks /\ rev[job.id] \in Nat /\ base[job.id] \in Nat
    BY <1>2 DEF RunnerInv, TypeOK, Job
  <2>3. m \in InWork /\ m.phase = "started" /\ m.id = job.id
    BY <2>1, <2>2 DEF InWork
  <2>4. mine' = [mine EXCEPT ![r] = m]
    BY <1>1
  <2> HIDE DEF m
  <2> QED
    BY <2>3, <2>4
<1>4. m \in Mine /\ m # NoJob
  BY DEF InWork, Mine, NoJob
<1>5. mine'[r] = m /\ pc'[r] = "claim" /\ queue'[r] = queue[r] \ {job}
  BY <1>1, <1>3 DEF RunnerInv, TypeOK, Load, Goes
<1>6. TypeOK'
  <2>1. queue' \in [Runners -> SUBSET Job]
    BY <1>1 DEF RunnerInv, TypeOK
  <2>2. mine' \in [Runners -> Mine]
    BY <1>3, <1>4 DEF RunnerInv, TypeOK
  <2>3. pc' = [pc EXCEPT ![r] = "claim"]
           /\ UNCHANGED <<proposals, tip, clock, lock, claimed, stopping, story>>
    BY DEF Load, Goes
  <2> QED
    BY <2>1, <2>2, <2>3 DEF RunnerInv, TypeOK, proposals, story
<1>7. Own(r)'
  <2>1. OneEach(r) /\ AskedAgain(r)
    BY DEF RunnerInv, Own
  <2>2. UNCHANGED <<line, ask>>
    BY DEF Load, proposals
  <2>3. InHand(r)' /\ Stands(r)'
    BY <1>3, <1>4, <1>5, <2>1 DEF InHand, Stands, OneEach, Performing
  <2>4. OneEach(r)' /\ AskedAgain(r)'
    BY <1>3, <1>5, <2>1, <2>2 DEF OneEach, AskedAgain, Retriable
  <2> QED
    BY <2>3, <2>4 DEF Own
<1> QED
  BY <1>1, <1>6, <1>7, RunnersTurn DEF RunnerInv, TypeOK, Load, Goes, proposals

(* The two lines around a job.                                             *)
LEMMA LinesKeep ==
    ASSUME RunnerInv, NEW r \in Runners, Claim(r) \/ Answer(r)
    PROVE  RunnerInv'
<1> DEFINE p == mine[r].id
<1>1. pc[r] \in {"claim", "report"} /\ UNCHANGED <<ask, clock, lock>>
  BY DEF Claim, Answer, Writes
<1>2. Own(r)
  BY DEF RunnerInv
<1>3. mine[r] \in InWork
  BY <1>1, <1>2 DEF Own, InHand, OnAJob, Performing, RunnerInv, TypeOK, Mine, InWork
<1>4. CASE Abandons(r) /\ UNCHANGED line
  <2>1. TypeOK'
    BY <1>4, AbandonsType DEF RunnerInv, TypeOK, Claim, Answer, Writes, story
  <2>2. pc'[r] = "wait" /\ queue'[r] = {}
    BY <1>4 DEF Abandons, Goes, RunnerInv, TypeOK
  <2>3. \A s \in Runners \ {r} : pc'[s] = pc[s] /\ queue'[s] = queue[s]
    BY <1>4 DEF Abandons, Goes, RunnerInv, TypeOK
  <2> QED
    BY <1>1, <2>1, <2>2, <2>3, NothingToKeep, RunnersTurn
<1>5. CASE /\ Report(p, mine[r].phase, "runner")
           /\ Goes(r, IF pc[r] = "claim" THEN mine[r].task ELSE "jobs")
           /\ UNCHANGED <<claimed, queue, mine, stopping>>
  <2>1. line' \in [Ids -> Line]
    BY <1>3, <1>5, ReportType DEF RunnerInv, InWork
  <2>2. /\ line'[p] = [phase |-> mine[r].phase, at |-> clock, by |-> "runner"]
        /\ \A q \in Ids \ {p} : line'[q] = line[q]
    BY <1>3, <1>5 DEF Report, RunnerInv, TypeOK, InWork
  <2>3. pc'[r] = IF pc[r] = "claim" THEN mine[r].task ELSE "jobs"
    BY <1>5 DEF Goes, RunnerInv, TypeOK
  <2>4. pc'[r] \in {"jobs", "apply", "rebase", "check"}
    BY <1>3, <2>3 DEF InWork, Tasks
  <2>5. TypeOK'
    BY <1>1, <1>3, <1>5, <2>1, <2>4 DEF RunnerInv, TypeOK, Claim, Answer, Writes, Goes,
       Performing, story, InWork, Tasks
  <2>6. InHand(r)' /\ OneEach(r)'
    BY <1>1, <1>2, <1>5, <2>4 DEF Own, InHand, OneEach, OnAJob, Performing
  <2>7. AskedAgain(r)'
    <3>1. \A job \in queue[r] : job.id \in Ids \ {p}
      BY <1>1, <1>2 DEF Own, InHand, OnAJob, Performing, RunnerInv, TypeOK, Job
    <3> QED
      BY <1>1, <1>2, <1>5, <2>2, <2>4, <3>1 DEF Own, AskedAgain, Retriable
  <2>8. Stands(r)'
    <3>1. CASE pc[r] = "claim"
      BY <1>2, <1>5, <2>2, <3>1 DEF Own, InHand, Stands
    <3>2. CASE pc[r] = "report"
      BY <2>3, <3>2 DEF Stands, Performing
    <3> QED
      BY <1>1, <3>1, <3>2
  <2>9. \A s \in Runners \ {r} : pc'[s] = pc[s] /\ queue'[s] = queue[s]
    BY <1>5 DEF Goes, RunnerInv, TypeOK
  <2> QED
    BY <1>1, <2>5, <2>6, <2>7, <2>8, <2>9, RunnersTurn DEF Own
<1> QED
  BY <1>1, <1>4, <1>5 DEF Claim, Answer, Writes

(* Whatever happens in the course of a job, with the log as it was or with *)
(* a new head.                                                             *)
LEMMA InTheCourse ==
    ASSUME RunnerInv, NEW r \in Runners, pc[r] \in Performing,
           NEW b \in Nat, NEW phase \in {"finished", "failed"},
           \/ Ends(r, phase)
           \/ Leaves(r, b)
           \/ CallsAgent(r, b)
           \/ mine' = [mine EXCEPT ![r].rev = b] /\ Goes(r, "checking")
              /\ UNCHANGED <<claimed, queue, stopping>>,
           UNCHANGED <<open, tip, clock, lock, story>>,
           \/ UNCHANGED <<rev, line, ask, notes, base, atIt>>
              /\ verdict' \in [Ids -> {"none", "passed", "failed"}]
           \/ \E p \in Ids, c \in Nat : Revise(p, c)
    PROVE  RunnerInv'
<1>1. pc[r] \in OnAJob /\ pc[r] \notin {"off", "claim"}
  BY DEF OnAJob, Performing
<1>2. TypeOK /\ InHand(r)
  BY DEF RunnerInv, Own
<1>3. /\ pc' \in [Runners -> {"off", "recover", "clear", "jobs", "claim", "wait"}
                             \cup Performing]
      /\ mine' \in [Runners -> Mine]
      /\ UNCHANGED <<claimed, queue, stopping>>
      /\ \A s \in Runners \ {r} : pc'[s] = pc[s]
      /\ pc'[r] \in {"report", "record", "agent", "checking"}
      /\ pc'[r] = "report" => mine'[r].phase # "started"
      /\ mine'[r] # NoJob
      /\ mine'[r].id = mine[r].id
  BY <1>1, <1>2, GoingOn
<1>4. mine[r].id \in Ids
  BY <1>1, <1>2 DEF TypeOK, InHand, Mine
<1>5. TypeOK'
  <2>1. /\ rev' \in [Ids -> Nat \ {0}]
        /\ line' \in [Ids -> Line]
        /\ ask' \in [Ids -> Nat]
        /\ notes' \in [Ids -> SUBSET Places]
        /\ verdict' \in [Ids -> {"none", "passed", "failed"}]
        /\ base' \in [Ids -> Nat]
        /\ atIt' \in SUBSET Ids
    BY <1>2, ReviseType DEF TypeOK
  <2> QED
    BY <1>2, <1>3, <2>1 DEF TypeOK, story
<1>6. \A p \in Ids : \/ line'[p] = line[p] /\ ask'[p] = ask[p]
                     \/ line'[p] = NoLine /\ ask'[p] = 0
  BY <1>2 DEF TypeOK, Revise
<1>7. \A p \in Ids : Retriable(p) => Retriable(p)'
  BY <1>6 DEF Retriable, NoLine
<1>8. \A job \in queue[r] : job.id \in Ids
  BY <1>2 DEF TypeOK, Job
<1>9. Own(r)'
  <2>1. Own(r)
    BY DEF RunnerInv
  <2>2. InHand(r)' /\ OneEach(r)'
    BY <1>1, <1>3, <2>1 DEF Own, InHand, OneEach
  <2>3. AskedAgain(r)'
    BY <1>3, <1>7, <1>8, <2>1 DEF Own, AskedAgain
  <2>4. Stands(r)'
    BY <1>3, <1>4, <1>6, <2>1 DEF Own, Stands, NoLine
  <2> QED
    BY <2>2, <2>3, <2>4 DEF Own
<1> QED
  BY <1>1, <1>3, <1>5, <1>6, <1>9, RunnersTurn

LEMMA JobsKeep ==
    ASSUME RunnerInv, NEW r \in Runners,
           BeginCheck(r) \/ EndCheck(r) \/ Apply(r) \/ Rebase(r) \/ AgentEnds(r) \/ Record(r)
    PROVE  RunnerInv'
<1>1. pc[r] \in Performing
  BY DEF BeginCheck, EndCheck, Apply, Rebase, AgentEnds, Record, Performing
<1>2. mine[r] \in InWork
  BY <1>1 DEF RunnerInv, TypeOK, Own, InHand, OnAJob, Mine, InWork
<1>3. mine[r].id \in Ids /\ mine[r].base \in Nat /\ tip \in Nat /\ rev[mine[r].id] \in Nat
  BY <1>2 DEF InWork, RunnerInv, TypeOK
<1>4. verdict \in [Ids -> {"none", "passed", "failed"}]
  BY DEF RunnerInv, TypeOK
<1>5. UNCHANGED <<open, tip, clock, lock, story>>
  BY DEF BeginCheck, EndCheck, Apply, Rebase, AgentEnds, Record, Revise, proposals
<1>6. CASE BeginCheck(r)
  <2>1. \/ \E phase \in {"finished", "failed"} : Ends(r, phase)
        \/ /\ mine' = [mine EXCEPT ![r].rev = rev[mine[r].id]]
           /\ Goes(r, "checking")
           /\ UNCHANGED <<claimed, queue, stopping>>
    BY <1>3, <1>4, <1>6 DEF BeginCheck
  <2>2. UNCHANGED <<rev, line, ask, notes, base, atIt, verdict>>
    BY <1>6 DEF BeginCheck, proposals
  <2> QED
    BY <1>1, <1>3, <1>4, <1>5, <2>1, <2>2, InTheCourse
<1>7. CASE EndCheck(r)
  <2>1. \E phase \in {"finished", "failed"} : Ends(r, phase)
    BY <1>7 DEF EndCheck
  <2>2. verdict' \in [Ids -> {"none", "passed", "failed"}]
    BY <1>4, <1>7 DEF EndCheck
  <2>3. UNCHANGED <<rev, line, ask, notes, base, atIt>>
    BY <1>7 DEF EndCheck
  <2> QED
    BY <1>1, <1>3, <1>5, <2>1, <2>2, <2>3, InTheCourse
<1>8. CASE Apply(r) \/ Rebase(r) \/ AgentEnds(r)
  <2>1. \/ \E phase \in {"finished", "failed"} : Ends(r, phase)
        \/ \E b \in Nat : Leaves(r, b) \/ CallsAgent(r, b)
    BY <1>3, <1>8 DEF Apply, Rebase, AgentEnds
  <2>2. UNCHANGED <<rev, line, ask, notes, base, atIt, verdict>>
    BY <1>8 DEF Apply, Rebase, AgentEnds, proposals
  <2> QED
    BY <1>1, <1>3, <1>4, <1>5, <2>1, <2>2, InTheCourse
<1>9. CASE Record(r)
  <2>1. \E phase \in {"finished", "failed"} : Ends(r, phase)
    BY <1>9 DEF Record
  <2>2. \/ Revise(mine[r].id, mine[r].base)
        \/ UNCHANGED <<rev, line, ask, notes, base, atIt, verdict>>
    BY <1>9 DEF Record, proposals
  <2> QED
    BY <1>1, <1>3, <1>4, <1>5, <2>1, <2>2, InTheCourse
<1> QED
  BY <1>6, <1>7, <1>8, <1>9

LEMMA StepKeeps ==
    ASSUME RunnerInv, NEW r \in Runners, Step(r) \/ Crash(r)
    PROVE  RunnerInv'
BY BetweenPasses, PlanKeeps, LoadKeeps, LinesKeep, JobsKeep DEF Step

-----------------------------------------------------------------------------
(* Everybody else's steps.                                                 *)

LEMMA ShutDownKeeps ==
    ASSUME RunnerInv, NEW r \in Runners, ShutDown(r)
    PROVE  RunnerInv'
<1>1. TypeOK'
  BY DEF RunnerInv, TypeOK, ShutDown, MayEnd, proposals
<1>2. UNCHANGED <<proposals, clock, lock, pc, queue, mine>>
  BY DEF ShutDown
<1>3. Held' /\ AsksArePast'
  BY <1>2 DEF RunnerInv, Held, AsksArePast, proposals
<1>4. ASSUME NEW s \in Runners PROVE Own(s)'
  BY <1>2 DEF RunnerInv, Own, InHand, OneEach, AskedAgain, Retriable, Stands, proposals
<1> QED
  BY <1>1, <1>3, <1>4 DEF RunnerInv

LEMMA TickKeeps ==
    ASSUME RunnerInv, Tick
    PROVE  RunnerInv'
<1>1. TypeOK'
  BY DEF RunnerInv, TypeOK, Tick, proposals, local, story
<1>2. AsksArePast'
  BY DEF RunnerInv, TypeOK, AsksArePast, Tick, proposals
<1>3. Held'
  BY DEF RunnerInv, Held, Tick, local
<1>4. ASSUME NEW s \in Runners PROVE Own(s)'
  BY DEF RunnerInv, Own, InHand, OneEach, AskedAgain, Retriable, Stands, Tick, proposals, local
<1> QED
  BY <1>1, <1>2, <1>3, <1>4 DEF RunnerInv

(* A handover comes after whatever it answers, a person's lines are nobody *)
(* else's, and a new head has none.                                        *)
LEMMA PeopleKeep ==
    ASSUME RunnerInv, People
    PROVE  RunnerInv'
<1> USE DEF Does
<1>1. TypeOK /\ AsksArePast
  BY DEF RunnerInv
<1>2. UNCHANGED <<clock, lock, local>> /\ events' \in Nat /\ ends' \in Nat
  BY <1>1 DEF People, Advance, Handover, Annotate, Resolve, ReviseByHand, Work, End, TypeOK
<1>3. /\ lock' \in SUBSET Runners
      /\ pc' \in [Runners -> {"off", "recover", "clear", "jobs", "claim", "wait"}
                             \cup Performing]
      /\ claimed' \in [Runners -> SUBSET Ids]
      /\ queue' \in [Runners -> SUBSET Job]
      /\ mine' \in [Runners -> Mine]
      /\ stopping' \in [Runners -> BOOLEAN]
      /\ clock' \in Nat \ {0}
  BY <1>1, <1>2 DEF TypeOK, local
<1>4. CASE Advance
  <2>1. TypeOK'
    BY <1>1, <1>2, <1>3, <1>4 DEF TypeOK, Advance, proposals
  <2>2. UNCHANGED <<open, line, ask>>
    BY <1>4 DEF Advance, proposals
  <2> QED
    BY <1>1, <1>2, <2>1, <2>2, PeoplesTurn DEF AsksArePast, Retriable
<1>5. ASSUME NEW p \in Ids, Handover(p) PROVE RunnerInv'
  <2>1. TypeOK'
    BY <1>1, <1>2, <1>3, <1>5 DEF TypeOK, Handover
  <2>2. UNCHANGED <<open, line>> /\ \A q \in Ids : ask'[q] = IF q = p THEN clock ELSE ask[q]
    BY <1>1, <1>5 DEF Handover, TypeOK
  <2>3. AsksArePast'
    BY <1>1, <1>2, <2>2 DEF AsksArePast, TypeOK
  <2>4. \A q \in Ids : Retriable(q) => Retriable(q)'
    <3>1. ASSUME NEW q \in Ids, line[q] # NoLine PROVE line[q].at \in Nat
      BY <1>1, <3>1 DEF TypeOK, Line
    <3>2. ASSUME NEW q \in Ids PROVE ask[q] <= clock /\ ask[q] \in Nat /\ clock \in Nat
      BY <1>1 DEF AsksArePast, TypeOK
    <3> QED
      BY <2>2, <3>1, <3>2 DEF Retriable, NoLine
  <2> QED
    BY <1>2, <2>1, <2>2, <2>3, <2>4, PeoplesTurn
<1>6. ASSUME NEW p \in Ids, NEW place \in Places, Annotate(p) \/ Resolve(p, place)
      PROVE  RunnerInv'
  <2>1. TypeOK'
    BY <1>1, <1>2, <1>3, <1>6 DEF TypeOK, Annotate, Resolve, Places
  <2>2. UNCHANGED <<open, line, ask>>
    BY <1>6 DEF Annotate, Resolve
  <2> QED
    BY <1>1, <1>2, <2>1, <2>2, PeoplesTurn DEF AsksArePast, Retriable
<1>7. ASSUME NEW p \in Ids, ReviseByHand(p) PROVE RunnerInv'
  <2>1. PICK b \in Nat : Revise(p, b)
    BY <1>1, <1>7 DEF ReviseByHand, TypeOK
  <2>2. UNCHANGED <<open, tip>>
    BY <2>1, <1>7 DEF Revise, ReviseByHand
  <2>3. TypeOK'
    BY <1>1, <1>2, <1>3, <2>1, <2>2, ReviseType DEF TypeOK
  <2>4. \A q \in Ids : \/ line'[q] = line[q] /\ ask'[q] = ask[q]
                       \/ line'[q] = NoLine /\ ask'[q] = 0
    BY <1>1, <2>1 DEF TypeOK, Revise
  <2>5. AsksArePast'
    BY <1>1, <1>2, <2>4 DEF AsksArePast, TypeOK
  <2> QED
    BY <1>2, <2>2, <2>3, <2>4, <2>5, PeoplesTurn DEF Retriable, NoLine
<1>8. ASSUME NEW p \in Ids, NEW phase \in {"started", "finished", "failed"}, Work(p, phase)
      PROVE  RunnerInv'
  <2>1. line' \in [Ids -> Line]
    BY <1>1, <1>8, ReportType DEF Work
  <2>2. TypeOK'
    BY <1>1, <1>2, <1>3, <1>8, <2>1 DEF TypeOK, Work
  <2>3. UNCHANGED <<open, ask>>
           /\ \A q \in Ids : line'[q] = line[q] \/ line'[q].by = "person"
    BY <1>1, <1>8 DEF Work, Report, TypeOK
  <2>4. AsksArePast'
    BY <1>1, <1>2, <2>3 DEF AsksArePast
  <2> QED
    BY <1>2, <2>2, <2>3, <2>4, PeoplesTurn DEF Retriable
<1>9. ASSUME NEW p \in Ids, End(p) PROVE RunnerInv'
  <2>1. TypeOK'
    BY <1>1, <1>2, <1>3, <1>9 DEF TypeOK, End
  <2>2. UNCHANGED <<line, ask>> /\ \A q \in Ids : open'[q] => open[q]
    BY <1>1, <1>9 DEF End, TypeOK
  <2> QED
    BY <1>1, <1>2, <2>1, <2>2, PeoplesTurn DEF AsksArePast, Retriable
<1> QED
  BY <1>4, <1>5, <1>6, <1>7, <1>8, <1>9 DEF People, Places

LEMMA StutterKeeps ==
    ASSUME RunnerInv, UNCHANGED vars
    PROVE  RunnerInv'
<1>1. TypeOK'
  BY DEF RunnerInv, TypeOK, vars, proposals, local, story
<1>2. Held' /\ AsksArePast'
  BY DEF RunnerInv, Held, AsksArePast, vars, proposals, local
<1>3. ASSUME NEW r \in Runners PROVE Own(r)'
  BY DEF RunnerInv, Own, InHand, OneEach, AskedAgain, Retriable, Stands, vars, proposals, local
<1> QED
  BY <1>1, <1>2, <1>3 DEF RunnerInv

LEMMA RunnerKeeps ==
    ASSUME RunnerInv, [Next]_vars
    PROVE  RunnerInv'
BY StartKeeps, StepKeeps, ShutDownKeeps, PeopleKeep, TickKeeps, StutterKeeps DEF Next

(* Of all there is to do, only a runner's claim starts a job in its name,  *)
(* and what it claims did not fail, or was handed over since.              *)
LEMMA OnlyRetriableIsClaimed ==
    ASSUME RunnerInv, [Next]_vars, NEW p \in Ids,
           line'[p].phase = "started", line'[p].by = "runner",
           line[p].phase = "failed", line[p].by = "runner"
    PROVE  ask[p] > line[p].at
<1>1. line \in [Ids -> Line] /\ ask \in [Ids -> Nat]
  BY DEF RunnerInv, TypeOK
<1>2. PICK r \in Runners : Claim(r) \/ Answer(r)
  <2>1. ASSUME UNCHANGED line PROVE FALSE
    BY <2>1
  <2>2. ASSUME NEW q, NEW b, Revise(q, b) PROVE FALSE
    BY <1>1, <2>2 DEF Revise, NoLine
  <2>3. ASSUME NEW q, NEW phase, Report(q, phase, "person") PROVE FALSE
    BY <1>1, <2>3 DEF Report
  <2>4. ASSUME NEW q, Report(q, "cleared", "runner") PROVE FALSE
    BY <1>1, <2>4 DEF Report
  <2>5. ASSUME NEW r \in Runners, Step(r), ~Claim(r), ~Answer(r) PROVE FALSE
    BY <2>1, <2>2, <2>4, <2>5 DEF Step, Recover, Clear, Plan, Load, EndPass, Again,
       BeginCheck, EndCheck, Apply, Rebase, AgentEnds, Record, proposals
  <2>6. ASSUME NEW r \in Runners, Start(r) \/ Crash(r) \/ ShutDown(r) PROVE FALSE
    BY <2>1, <2>6 DEF Start, Crash, ShutDown, proposals
  <2>7. ASSUME People PROVE FALSE
    BY <2>1, <2>2, <2>3, <2>7 DEF People, Advance, Handover, Annotate, Resolve,
       ReviseByHand, Work, End, proposals
  <2>8. ASSUME Tick \/ UNCHANGED vars PROVE FALSE
    BY <2>1, <2>8 DEF Tick, vars, proposals
  <2> QED
    BY <2>5, <2>6, <2>7, <2>8 DEF Next
<1>3. /\ pc[r] \in {"claim", "report"}
      /\ UNCHANGED line \/ Report(mine[r].id, mine[r].phase, "runner")
  BY <1>2 DEF Claim, Answer, Writes
<1>4. p = mine[r].id /\ mine[r].phase = "started"
  BY <1>1, <1>3 DEF Report
<1>5. pc[r] = "claim"
  BY <1>3, <1>4 DEF RunnerInv, Own, InHand
<1> QED
  BY <1>1, <1>4, <1>5 DEF RunnerInv, Own, AskedAgain, Retriable

-----------------------------------------------------------------------------

LEMMA InvHolds == Safety => []RunnerInv
<1>1. Init => RunnerInv
  BY RunnerStarts
<1>2. RunnerInv /\ [Next]_vars => RunnerInv'
  BY RunnerKeeps
<1> QED
  BY <1>1, <1>2, PTL DEF Safety

(* Every variable keeps its type.                                          *)
THEOREM RunnerTypes == Safety => []TypeOK
<1>1. RunnerInv => TypeOK
  BY DEF RunnerInv
<1> QED
  BY <1>1, InvHolds, PTL

(* However many runners are started, crash or are stopped, and whatever    *)
(* people write, the claim of a job being done is not handed back and not  *)
(* answered by anybody else's runner (Runner::work, Lock::acquire).        *)
THEOREM ClaimsAlwaysStand == Safety => []ClaimsStand
<1>1. RunnerInv => ClaimsStand
  BY DEF RunnerInv, Own, Stands, ClaimsStand
<1> QED
  BY <1>1, InvHolds, PTL

(* No runner claims what a runner failed, but for a later handover, though *)
(* it decided its whole pass from one reading (jobs::asks_for).            *)
THEOREM FailuresAreNotRetried == Safety => FailuresStand
<1>1. RunnerInv /\ [Next]_vars =>
        [\A p \in Ids :
            (/\ line[p].phase = "failed" /\ line[p].by = "runner"
             /\ line'[p].phase = "started" /\ line'[p].by = "runner"
             /\ rev'[p] = rev[p])
            => ask[p] > line[p].at]_vars
  BY OnlyRetriableIsClaimed
<1> QED
  BY <1>1, InvHolds, PTL DEF Safety, FailuresStand

=============================================================================
