---------------------------- MODULE WatcherProofs ----------------------------
(***************************************************************************)
(* The watcher loses no wakeup and keeps the promise of ChangeFeed, for    *)
(* any number of readers, handlers and parts.                              *)
(*                                                                         *)
(* Both follow from one inductive invariant: types, the lost-wakeup        *)
(* property as it stands, and two facts about the threads of the readers.  *)
(***************************************************************************)
EXTENDS Watcher, TLAPS

(* A reader's thread is inside `wait` exactly while it has no answer, and  *)
(* it has never seen a generation that is still to come.                   *)
ReadersAsk ==
    \A r \in Readers :
        /\ answer[r] = "asked" <=> reader[r] \in {"ask", "asleep"}
        /\ seen[r] <= generation

WatcherInv == TypeOK /\ NobodySleepsThroughIt /\ ReadersAsk

LEMMA WatcherStarts ==
    ASSUME Init
    PROVE  WatcherInv
<1>1. world \in [Parts -> Nat]
  BY DEF Init
<1>2. TypeOK
  BY <1>1 DEF Init, TypeOK
<1>3. NobodySleepsThroughIt /\ ReadersAsk
  BY DEF Init, NobodySleepsThroughIt, ReadersAsk
<1> QED
  BY <1>2, <1>3 DEF WatcherInv

(* The probing thread.                                                     *)
LEMMA ProbeKeeps ==
    ASSUME WatcherInv, ProbeThread \/ Tick
    PROVE  WatcherInv'
<1> USE DEF WatcherInv, TypeOK, NobodySleepsThroughIt, ReadersAsk,
            state, subs, rest
<1>1. CASE Look
  BY <1>1 DEF Look
<1>2. CASE Overdue
  BY <1>2 DEF Overdue
<1>3. CASE Probe
  <2>1. probed' \in [Parts -> Nat] \cup {NoFingerprint} /\ failures' \in Nat
    BY <1>3 DEF Probe
  <2> QED
    BY <1>3, <2>1 DEF Probe
<1>4. CASE Publish
  <2>1. value' \in [Parts -> Nat] \cup {NoFingerprint} /\ generation' \in Nat
    BY <1>4 DEF Publish
  <2>2. generation <= generation'
    BY <1>4 DEF Publish
  <2>3. \A r \in Readers : seen[r] <= generation'
    BY <2>1, <2>2
  <2> QED
    BY <1>4, <2>1, <2>3 DEF Publish
<1>5. CASE TellEverybody
  BY <1>5 DEF TellEverybody
<1>6. CASE Tick
  BY <1>6 DEF Tick
<1> QED
  BY <1>1, <1>2, <1>3, <1>4, <1>5, <1>6 DEF ProbeThread

(* A reader's thread.                                                      *)
LEMMA ReaderKeeps ==
    ASSUME WatcherInv, NEW r \in Readers,
           Subscribe(r) \/ Wait(r) \/ Answer(r) \/ Expire(r)
    PROVE  WatcherInv'
<1> USE DEF WatcherInv, TypeOK, NobodySleepsThroughIt, ReadersAsk,
            state, subs, rest
<1>1. CASE Subscribe(r)
  BY <1>1 DEF Subscribe
<1>2. CASE Wait(r)
  BY <1>2 DEF Wait
<1>3. CASE Answer(r)
  <2>1. CASE stopped
    BY <1>3, <2>1 DEF Answer, Returns
  <2>2. CASE ~stopped /\ generation # seen[r]
    BY <1>3, <2>2 DEF Answer, Returns
  <2>3. CASE ~stopped /\ generation = seen[r] /\ late[r]
    BY <1>3, <2>3 DEF Answer, Returns
  <2>4. CASE ~stopped /\ generation = seen[r] /\ ~late[r]
    BY <1>3, <2>4 DEF Answer, Sleeps
  <2> QED
    BY <2>1, <2>2, <2>3, <2>4
<1>4. CASE Expire(r)
  BY <1>4 DEF Expire
<1> QED
  BY <1>1, <1>2, <1>3, <1>4

(* Everybody else: handlers, the shutdown, and wakeups for no reason.      *)
Others ==
    \/ \E w \in Writers : Poke(w) \/ Signal(w) \/ \E p \in Parts : Write(w, p)
    \/ \E p \in Parts : WriteElsewhere(p)
    \/ Stop
    \/ SignalStop
    \/ Spurious

LEMMA OthersKeep ==
    ASSUME WatcherInv, Others
    PROVE  WatcherInv'
<1> USE DEF WatcherInv, TypeOK, NobodySleepsThroughIt, ReadersAsk,
            state, subs, rest
<1>1. ASSUME NEW w \in Writers, Poke(w) PROVE WatcherInv'
  BY <1>1 DEF Poke
<1>2. ASSUME NEW w \in Writers, Signal(w) PROVE WatcherInv'
  BY <1>2 DEF Signal, NotifyAll
<1>3. ASSUME NEW w \in Writers, NEW p \in Parts, Write(w, p) PROVE WatcherInv'
  <2>1. world' \in [Parts -> Nat] /\ writes' \in Nat
    BY <1>3 DEF Write
  <2> QED
    BY <1>3, <2>1 DEF Write
<1>4. ASSUME NEW p \in Parts, WriteElsewhere(p) PROVE WatcherInv'
  <2>1. world' \in [Parts -> Nat] /\ writes' \in Nat
    BY <1>4 DEF WriteElsewhere
  <2> QED
    BY <1>4, <2>1 DEF WriteElsewhere
<1>5. CASE Stop
  BY <1>5 DEF Stop
<1>6. CASE SignalStop
  BY <1>6 DEF SignalStop, NotifyAll
<1>7. CASE Spurious
  BY <1>7 DEF Spurious
<1> QED
  BY <1>1, <1>2, <1>3, <1>4, <1>5, <1>6, <1>7 DEF Others

LEMMA WatcherStutters == WatcherInv /\ UNCHANGED vars => WatcherInv'
BY DEF WatcherInv, TypeOK, NobodySleepsThroughIt, ReadersAsk,
       vars, state, subs, rest

LEMMA WatcherStaysRight == Spec => []WatcherInv
<1>1. WatcherInv /\ [Next]_vars => WatcherInv'
  BY ProbeKeeps, ReaderKeeps, OthersKeep, WatcherStutters DEF Next, Others
<1> QED
  BY WatcherStarts, <1>1, PTL DEF Spec, Safety

(* No thread sleeps on the condition variable with something to wake up    *)
(* for and nobody left to signal it (watch.rs, the loops of `wait` and     *)
(* `watch`).                                                               *)
THEOREM NoWakeupIsLost == Spec => []NobodySleepsThroughIt
BY WatcherStaysRight, PTL DEF WatcherInv

-----------------------------------------------------------------------------
(* The refinement: every step of the watcher is a step of ChangeFeed, or   *)
(* none.                                                                   *)

LEMMA FeedStarts == Init => Feed!Init
<1> SUFFICES ASSUME Init PROVE Feed!Init
  OBVIOUS
<1>1. \A r \in Readers : reader[r] = "new"
  BY DEF Init
<1> QED
  BY <1>1 DEF Init, Feed!Init

(* What only moves between places of the probing thread, handlers and the  *)
(* shutdown is no step of the feed.                                        *)
FeedStands ==
    /\ UNCHANGED <<value, generation, stopped, seen, answer>>
    /\ \A r \in Readers : reader'[r] = "new" <=> reader[r] = "new"

LEMMA StandingIsAStutter ==
    ASSUME FeedStands
    PROVE  UNCHANGED Feed!vars
BY DEF FeedStands, Feed!vars

LEMMA QuietStepsStand ==
    ASSUME WatcherInv,
           \/ Look \/ Tick \/ Overdue \/ Probe \/ TellEverybody
           \/ SignalStop \/ Spurious
           \/ \E w \in Writers : Poke(w) \/ Signal(w) \/ \E p \in Parts : Write(w, p)
           \/ \E p \in Parts : WriteElsewhere(p)
           \/ \E r \in Readers : Expire(r)
           \/ UNCHANGED vars
    PROVE  FeedStands
<1> USE DEF WatcherInv, TypeOK, FeedStands, vars, state, subs, rest, NotifyAll
<1>1. CASE Look \/ Tick \/ Overdue \/ Probe
  BY <1>1 DEF Look, Tick, Overdue, Probe
<1>2. CASE TellEverybody \/ SignalStop \/ Spurious
  BY <1>2 DEF TellEverybody, SignalStop, Spurious
<1>3. CASE \E w \in Writers : Poke(w) \/ Signal(w) \/ \E p \in Parts : Write(w, p)
  BY <1>3 DEF Poke, Signal, Write
<1>4. CASE \E p \in Parts : WriteElsewhere(p)
  BY <1>4 DEF WriteElsewhere
<1>5. CASE \E r \in Readers : Expire(r)
  BY <1>5 DEF Expire
<1>6. CASE UNCHANGED vars
  BY <1>6
<1> QED
  BY <1>1, <1>2, <1>3, <1>4, <1>5, <1>6

LEMMA PublishIsNews ==
    ASSUME WatcherInv, Publish
    PROVE  Feed!Publish \/ FeedStands
<1> USE DEF WatcherInv, TypeOK, state, subs, rest
<1>1. CASE ~stopped /\ probed # value
  <2>1. \A r \in Readers : seen'[r] # generation'
    BY <1>1 DEF Publish, ReadersAsk
  <2>2. {r \in Readers : reader'[r] # "new" /\ seen'[r] # generation'}
          = {r \in Readers : reader[r] # "new"}
    BY <2>1 DEF Publish
  <2> QED
    BY <1>1, <2>2 DEF Publish, Feed!Publish
<1>2. CASE stopped \/ probed = value
  BY <1>2 DEF Publish, FeedStands
<1> QED
  BY <1>1, <1>2

LEMMA ReadersFollowTheFeed ==
    ASSUME WatcherInv, NEW r \in Readers, Subscribe(r) \/ Wait(r) \/ Answer(r)
    PROVE  Feed!Next \/ FeedStands
<1> USE DEF WatcherInv, TypeOK, ReadersAsk, state, subs, rest
<1>1. CASE Subscribe(r)
  BY <1>1 DEF Subscribe, Feed!Subscribe, Feed!Next
<1>2. CASE Wait(r)
  BY <1>2 DEF Wait, Feed!Ask, Feed!Next
<1>3. CASE Answer(r)
  <2>1. CASE stopped
    BY <1>3, <2>1 DEF Answer, Returns, Feed!Stopped, Feed!Tell, Feed!Next
  <2>2. CASE ~stopped /\ generation # seen[r]
    BY <1>3, <2>2 DEF Answer, Returns, Feed!Changed, Feed!Tell, Feed!Next
  <2>3. CASE ~stopped /\ generation = seen[r] /\ late[r]
    BY <1>3, <2>3 DEF Answer, Returns, Feed!Timeout, Feed!Tell, Feed!Next
  <2>4. CASE ~stopped /\ generation = seen[r] /\ ~late[r]
    BY <1>3, <2>4 DEF Answer, Sleeps, FeedStands
  <2> QED
    BY <2>1, <2>2, <2>3, <2>4
<1> QED
  BY <1>1, <1>2, <1>3

LEMMA StopIsTheEnd ==
    ASSUME Stop
    PROVE  Feed!Stop \/ FeedStands
BY DEF Stop, Feed!Stop, FeedStands, subs, state, rest

(* The watcher implements the feed: a wait answers "timeout" only when     *)
(* nothing moved, "changed" once for what moved since it was last told,    *)
(* and "stopped" once the watcher is (watch.rs, `Subscription::wait`).     *)
THEOREM WatcherKeepsItsPromise == Spec => KeepsItsPromise
<1>1. WatcherInv /\ [Next]_vars => [Feed!Next]_Feed!vars
  <2> SUFFICES ASSUME WatcherInv, [Next]_vars PROVE Feed!Next \/ FeedStands
    BY StandingIsAStutter
  <2>1. CASE Publish
    BY <2>1, PublishIsNews DEF Feed!Next
  <2>2. CASE Stop
    BY <2>2, StopIsTheEnd DEF Feed!Next
  <2>3. ASSUME NEW r \in Readers, Subscribe(r) \/ Wait(r) \/ Answer(r)
        PROVE  Feed!Next \/ FeedStands
    BY <2>3, ReadersFollowTheFeed
  <2> QED
    BY <2>1, <2>2, <2>3, QuietStepsStand DEF Next, ProbeThread
<1> QED
  BY <1>1, FeedStarts, WatcherStaysRight, PTL
     DEF Spec, Safety, KeepsItsPromise, Feed!Spec
=============================================================================
