------------------------------- MODULE Watcher -------------------------------
(***************************************************************************)
(* The watcher of crates/web/src/watch.rs: one thread probes a value, and  *)
(* everybody else waits on a generation counter under a mutex and one      *)
(* condition variable.                                                     *)
(*                                                                         *)
(* A step is one critical section, one call outside the lock (the probe, a *)
(* write to the repository, a notify_all), or a wakeup.  notify_all is a   *)
(* step of its own because every caller has given the lock back before it  *)
(* signals.  A sleeper may also wake for no reason.                        *)
(*                                                                         *)
(* What is watched is the repository's fingerprint: the versions of the    *)
(* parts it covers, which never come back.  In a run with ticking = FALSE  *)
(* no timeout ever fires, as in the tests' NEVER, so that whatever arrives *)
(* arrives by a poke and a notify alone.                                   *)
(***************************************************************************)
EXTENDS Integers

CONSTANTS
    Readers,      \* the subscriptions
    Writers,      \* handlers that write and then poke
    Parts,        \* what a fingerprint covers: refs, notes, branches
    MaxWrites,    \* bound on the writes to the repository
    MaxFailures   \* bound on the probes that fail

ASSUME WatcherAssumption == MaxWrites \in Nat /\ MaxFailures \in Nat

VARIABLES
    world,       \* world[p] : the version of part p of the repository
    value,       \* State::value, the last fingerprint published
    generation,  \* State::generation
    poked,       \* State::poked
    stopped,     \* State::stopped
    probe,       \* where the probing thread is
    probed,      \* what it has just read, outside the lock
    reader,      \* reader[r] : where a subscriber's thread is
    seen,        \* seen[r] : Subscription::seen
    late,        \* late[r] : its deadline has passed
    answer,      \* answer[r] : the Wakeup its wait returned
    writer,      \* writer[w] : where a handler is
    stopper,     \* where the thread that shuts down is
    writes,      \* how often the repository was written
    failures,    \* how many probes failed
    ticking      \* whether timeouts fire

state == <<value, generation, poked, stopped>>
subs  == <<reader, seen, late, answer>>
rest  == <<writer, stopper, writes, failures, ticking>>
vars  == <<world, state, probe, probed, subs, rest>>

(* `unwrap_or_default` on a fingerprint git would not give.                *)
NoFingerprint == <<>>

TypeOK ==
    /\ world \in [Parts -> Nat]
    /\ value \in [Parts -> Nat] \cup {NoFingerprint}
    /\ generation \in Nat
    /\ poked \in BOOLEAN
    /\ stopped \in BOOLEAN
    /\ probe \in {"look", "asleep", "overdue", "probe", "publish", "tell", "gone"}
    /\ probed \in [Parts -> Nat] \cup {NoFingerprint}
    /\ reader \in [Readers -> {"new", "away", "ask", "asleep"}]
    /\ seen \in [Readers -> Nat]
    /\ late \in [Readers -> BOOLEAN]
    /\ answer \in [Readers -> {"none", "asked", "changed", "timeout", "stopped"}]
    /\ writer \in [Writers -> {"idle", "poke", "signal"}]
    /\ stopper \in {"up", "signal", "down"}
    /\ writes \in Nat
    /\ failures \in Nat
    /\ ticking \in BOOLEAN

(* The first probe runs before `new` returns.                              *)
Init ==
    /\ world = [p \in Parts |-> 0]
    /\ value = world
    /\ generation = 0
    /\ poked = FALSE
    /\ stopped = FALSE
    /\ probe = "look"
    /\ probed = world
    /\ reader = [r \in Readers |-> "new"]
    /\ seen = [r \in Readers |-> 0]
    /\ late = [r \in Readers |-> FALSE]
    /\ answer = [r \in Readers |-> "none"]
    /\ writer = [w \in Writers |-> "idle"]
    /\ stopper = "up"
    /\ writes = 0
    /\ failures = 0
    /\ ticking \in BOOLEAN

-----------------------------------------------------------------------------
(* notify_all: everybody asleep goes back to look, with the lock.          *)
NotifyAll ==
    /\ probe' = IF probe = "asleep" THEN "look" ELSE probe
    /\ reader' = [r \in Readers |-> IF reader[r] = "asleep" THEN "ask" ELSE reader[r]]

-----------------------------------------------------------------------------
(* The probing thread, `watch`.                                            *)

Look ==
    /\ probe = "look"
    /\ probe' = IF stopped THEN "gone" ELSE IF poked THEN "probe" ELSE "asleep"
    /\ poked' = (poked /\ stopped)
    /\ UNCHANGED <<world, value, generation, stopped, probed, subs, rest>>

(* The tick: out of the loop without asking again.                         *)
Tick ==
    /\ ticking
    /\ probe = "asleep"
    /\ probe' = "overdue"
    /\ UNCHANGED <<world, state, probed, subs, rest>>

Overdue ==
    /\ probe = "overdue"
    /\ probe' = "probe"
    /\ poked' = FALSE
    /\ UNCHANGED <<world, value, generation, stopped, probed, subs, rest>>

(* Never while holding the lock.                                           *)
Probe ==
    /\ probe = "probe"
    /\ probe' = "publish"
    /\ \/ probed' = world /\ UNCHANGED failures
       \/ /\ ticking
          /\ failures < MaxFailures
          /\ probed' = NoFingerprint
          /\ failures' = failures + 1
    /\ UNCHANGED <<world, state, subs, writer, stopper, writes, ticking>>

(* Forgetting the pokes that came while it was probing.                    *)
PublishAndForget ==
    /\ probe = "publish"
    /\ IF stopped
       THEN probe' = "gone" /\ UNCHANGED <<value, generation>>
       ELSE IF probed # value
       THEN probe' = "tell" /\ value' = probed /\ generation' = generation + 1
       ELSE probe' = "look" /\ UNCHANGED <<value, generation>>
    /\ poked' = FALSE
    /\ UNCHANGED <<world, stopped, probed, subs, rest>>

Publish ==
    /\ probe = "publish"
    /\ IF stopped
       THEN probe' = "gone" /\ UNCHANGED <<value, generation>>
       ELSE IF probed # value
       THEN probe' = "tell" /\ value' = probed /\ generation' = generation + 1
       ELSE probe' = "look" /\ UNCHANGED <<value, generation>>
    /\ UNCHANGED <<world, poked, stopped, probed, subs, rest>>

(* Publishing and telling nobody.                                          *)
TellNobody ==
    /\ probe = "tell"
    /\ probe' = "look"
    /\ UNCHANGED <<world, state, probed, subs, rest>>

TellEverybody ==
    /\ probe = "tell"
    /\ probe' = "look"
    /\ reader' = [r \in Readers |-> IF reader[r] = "asleep" THEN "ask" ELSE reader[r]]
    /\ UNCHANGED <<world, state, probed, seen, late, answer, rest>>

ProbeThread == Look \/ Overdue \/ Probe \/ Publish \/ TellEverybody

-----------------------------------------------------------------------------
(* A subscriber.                                                           *)

Subscribe(r) ==
    /\ reader[r] = "new"
    /\ reader' = [reader EXCEPT ![r] = "away"]
    /\ seen' = [seen EXCEPT ![r] = generation]
    /\ UNCHANGED <<world, state, probe, probed, late, answer, rest>>

(* Calling `wait`: the deadline starts here.                               *)
Wait(r) ==
    /\ reader[r] = "away"
    /\ reader' = [reader EXCEPT ![r] = "ask"]
    /\ late' = [late EXCEPT ![r] = FALSE]
    /\ answer' = [answer EXCEPT ![r] = "asked"]
    /\ UNCHANGED <<world, state, probe, probed, seen, rest>>

Returns(r, what) ==
    /\ reader' = [reader EXCEPT ![r] = "away"]
    /\ answer' = [answer EXCEPT ![r] = what]
    /\ seen' = [seen EXCEPT ![r] = IF what = "changed" THEN generation ELSE @]
    /\ UNCHANGED late

Sleeps(r) ==
    /\ reader' = [reader EXCEPT ![r] = "asleep"]
    /\ UNCHANGED <<seen, late, answer>>

(* Giving up on the deadline before asking whether anything moved.         *)
AnswerLateFirst(r) ==
    /\ reader[r] = "ask"
    /\ IF late[r] THEN Returns(r, "timeout")
       ELSE IF stopped THEN Returns(r, "stopped")
       ELSE IF generation # seen[r] THEN Returns(r, "changed")
       ELSE Sleeps(r)
    /\ UNCHANGED <<world, state, probe, probed, rest>>

Answer(r) ==
    /\ reader[r] = "ask"
    /\ IF stopped THEN Returns(r, "stopped")
       ELSE IF generation # seen[r] THEN Returns(r, "changed")
       ELSE IF late[r] THEN Returns(r, "timeout")
       ELSE Sleeps(r)
    /\ UNCHANGED <<world, state, probe, probed, rest>>

(* The deadline passes, which wakes a sleeper.                             *)
Expire(r) ==
    /\ ticking
    /\ reader[r] \in {"ask", "asleep"}
    /\ late' = [late EXCEPT ![r] = TRUE]
    /\ reader' = [reader EXCEPT ![r] = "ask"]
    /\ UNCHANGED <<world, state, probe, probed, seen, answer, rest>>

-----------------------------------------------------------------------------
(* Writing, and saying so.                                                 *)

(* A handler's write to one part of the repository.                        *)
Write(w, p) ==
    /\ writer[w] = "idle"
    /\ writes < MaxWrites
    /\ world' = [world EXCEPT ![p] = @ + 1]
    /\ writes' = writes + 1
    /\ writer' = [writer EXCEPT ![w] = "poke"]
    /\ UNCHANGED <<state, probe, probed, subs, stopper, failures, ticking>>

(* Another process's write, of which nobody here is told.                  *)
WriteElsewhere(p) ==
    /\ ticking
    /\ writes < MaxWrites
    /\ world' = [world EXCEPT ![p] = @ + 1]
    /\ writes' = writes + 1
    /\ UNCHANGED <<state, probe, probed, subs, writer, stopper, failures, ticking>>

(* Signalling first and setting the flag afterwards, with nothing after it.*)
PokeAfterSignal(w) ==
    /\ writer[w] = "poke"
    /\ poked' = TRUE
    /\ writer' = [writer EXCEPT ![w] = "idle"]
    /\ UNCHANGED <<world, value, generation, stopped, probe, probed, subs,
                   stopper, writes, failures, ticking>>

Poke(w) ==
    /\ writer[w] = "poke"
    /\ poked' = TRUE
    /\ writer' = [writer EXCEPT ![w] = "signal"]
    /\ UNCHANGED <<world, value, generation, stopped, probe, probed, subs,
                   stopper, writes, failures, ticking>>

Signal(w) ==
    /\ writer[w] = "signal"
    /\ NotifyAll
    /\ writer' = [writer EXCEPT ![w] = "idle"]
    /\ UNCHANGED <<world, state, probed, seen, late, answer,
                   stopper, writes, failures, ticking>>

(* `stop`: the flag, and then the signal.                                  *)
StopWithoutSignal ==
    /\ stopper = "up"
    /\ stopped' = TRUE
    /\ stopper' = "down"
    /\ UNCHANGED <<world, value, generation, poked, probe, probed, subs,
                   writer, writes, failures, ticking>>

Stop ==
    /\ stopper = "up"
    /\ stopped' = TRUE
    /\ stopper' = "signal"
    /\ UNCHANGED <<world, value, generation, poked, probe, probed, subs,
                   writer, writes, failures, ticking>>

SignalStop ==
    /\ stopper = "signal"
    /\ NotifyAll
    /\ stopper' = "down"
    /\ UNCHANGED <<world, state, probed, seen, late, answer,
                   writer, writes, failures, ticking>>

-----------------------------------------------------------------------------
(* A wakeup nobody asked for, which condition variables are allowed.       *)
Spurious ==
    \/ /\ probe = "asleep"
       /\ probe' = "look"
       /\ UNCHANGED <<world, state, probed, subs, rest>>
    \/ \E r \in Readers :
          /\ reader[r] = "asleep"
          /\ reader' = [reader EXCEPT ![r] = "ask"]
          /\ UNCHANGED <<world, state, probe, probed, seen, late, answer, rest>>

Next ==
    \/ ProbeThread
    \/ Tick
    \/ \E r \in Readers : Subscribe(r) \/ Wait(r) \/ Answer(r) \/ Expire(r)
    \/ \E w \in Writers : Poke(w) \/ Signal(w) \/ \E p \in Parts : Write(w, p)
    \/ \E p \in Parts : WriteElsewhere(p)
    \/ Stop
    \/ SignalStop
    \/ Spurious

(* Every thread that can take a step takes it: the operating system runs   *)
(* it, and the mutex is held for a few instructions at a time.  A thread    *)
(* that goes to sleep again and again is not woken for no reason every time*)
(* before its timeout, hence SF.  Nobody has to write, wait or stop.       *)
Fairness ==
    /\ WF_vars(ProbeThread)
    /\ SF_vars(Tick)
    /\ \A r \in Readers : WF_vars(Answer(r))
    /\ \A w \in Writers : WF_vars(Poke(w)) /\ WF_vars(Signal(w))
    /\ WF_vars(SignalStop)

Safety == Init /\ [][Next]_vars
Spec   == Safety /\ Fairness

-----------------------------------------------------------------------------
(* Properties.                                                             *)

(* No wakeup is lost: whoever sleeps on the condition variable either has  *)
(* nothing to wake up for, or the thread that made the change has still to *)
(* signal it.  That every signal is a notify_all and every sleeper asks    *)
(* again under the lock is, watch.rs says, "what makes that safe".         *)
NobodySleepsThroughIt ==
    /\ probe = "asleep" =>
          /\ poked => \E w \in Writers : writer[w] = "signal"
          /\ stopped => stopper = "signal"
    /\ \A r \in Readers : reader[r] = "asleep" =>
          /\ generation # seen[r] => probe = "tell"
          /\ stopped => stopper = "signal"

(* The watcher keeps the promise of ChangeFeed: in particular a wait that  *)
(* says nothing moved is right, and a change between two waits is told.    *)
Feed == INSTANCE ChangeFeed WITH
            listening <- {r \in Readers : reader[r] # "new"},
            news <- {r \in Readers : reader[r] # "new" /\ seen[r] # generation}
KeepsItsPromise == Feed!Spec

(* A write that is poked is published although no timeout ever fires, and  *)
(* with timeouts a failed probe or a write nobody announced is made up for *)
(* at the next tick.                                                       *)
WritesArrive == <>[](stopped \/ value = world)

(* A reader that waits when the value has moved is told.                   *)
ReadersAreTold ==
    \A r \in Readers :
        (answer[r] = "asked" /\ seen[r] # generation) ~> (answer[r] # "asked")

(* Stopping ends the probing thread and every wait, without a timeout.     *)
StopEndsEverything ==
    /\ stopped ~> (probe = "gone")
    /\ \A r \in Readers : (stopped /\ answer[r] = "asked") ~> (answer[r] = "stopped")
=============================================================================
