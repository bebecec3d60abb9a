------------------------------ MODULE MCWatcher ------------------------------
(* Two subscriptions, one or two handlers and a repository of one part.    *)
EXTENDS Watcher, TLC

CONSTANTS r1, r2, w1, w2, log
=============================================================================
