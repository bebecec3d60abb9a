------------------------------ MODULE ChangeFeed ------------------------------
(***************************************************************************)
(* What a watcher promises its readers (crates/web/src/watch.rs), with no  *)
(* thread, lock, generation or condition variable in it: somebody watches  *)
(* a value, and a reader that asks is told once of every time it moved, is *)
(* told that nothing moved only when nothing did, and is told nothing but  *)
(* the end once the watcher is stopped.                                    *)
(***************************************************************************)
CONSTANT Readers

VARIABLES value,      \* what is watched, as last looked at
          listening,  \* the readers that subscribed
          news,       \* those of them the value moved for and who were not told
          answer,     \* answer[r] : what r was last told, "asked" while it waits
          stopped

vars == <<value, listening, news, answer, stopped>>

Answers == {"none", "asked", "changed", "timeout", "stopped"}

Init ==
    /\ listening = {}
    /\ news = {}
    /\ answer = [r \in Readers |-> "none"]
    /\ stopped = FALSE

(* What already happened is not news.                                      *)
Subscribe(r) ==
    /\ r \notin listening
    /\ listening' = listening \cup {r}
    /\ UNCHANGED <<value, news, answer, stopped>>

Ask(r) ==
    /\ r \in listening
    /\ answer[r] # "asked"
    /\ answer' = [answer EXCEPT ![r] = "asked"]
    /\ UNCHANGED <<value, listening, news, stopped>>

Tell(r, what) ==
    /\ answer[r] = "asked"
    /\ answer' = [answer EXCEPT ![r] = what]
    /\ UNCHANGED <<value, listening, stopped>>

Changed(r) == ~stopped /\ r \in news /\ news' = news \ {r} /\ Tell(r, "changed")
Timeout(r) == ~stopped /\ r \notin news /\ news' = news /\ Tell(r, "timeout")
Stopped(r) == stopped /\ news' = news /\ Tell(r, "stopped")

Publish ==
    /\ ~stopped
    /\ value' # value
    /\ news' = listening
    /\ UNCHANGED <<listening, answer, stopped>>

Stop ==
    /\ ~stopped
    /\ stopped' = TRUE
    /\ UNCHANGED <<value, listening, news, answer>>

Next ==
    \/ \E r \in Readers :
          Subscribe(r) \/ Ask(r) \/ Changed(r) \/ Timeout(r) \/ Stopped(r)
    \/ Publish
    \/ Stop

Spec == Init /\ [][Next]_vars
=============================================================================
