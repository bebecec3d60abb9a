------------------------------- MODULE Surface -------------------------------
(***************************************************************************)
(* The open pages of crates/web: streams (stream.rs) that draw a page from *)
(* a cached snapshot (surface.rs), send it if it moved, and wait on the    *)
(* watcher, of which only the promise is used here: the readers of         *)
(* ChangeFeed are the streams, and Watcher implements ChangeFeed.          *)
(*                                                                         *)
(* A snapshot is read by a git process for the fingerprint and one for     *)
(* each part of the log after it, with the snapshot mutex held; the        *)
(* repository moves on meanwhile.  A part of the log is its version, and   *)
(* what a page draws of the log is what its fingerprint hashes             *)
(* (model/fingerprint.rs), so both are the versions read.  The checks that *)
(* the configuration requires are on the page too, from a file that is     *)
(* read per request and is in neither fingerprint: they are left out.      *)
(***************************************************************************)
EXTENDS ChangeFeed, Integers, Sequences

CONSTANTS
    Parts,        \* what a fingerprint covers
    ReadOrder,    \* the parts of the log, in the order a snapshot reads them
    MaxWrites,    \* bound on the writes to the repository
    MaxFailures   \* bound on the git processes that refuse

ASSUME SurfaceAssumption ==
    /\ ReadOrder \in Seq(Parts) \ {<<>>}
    /\ MaxWrites \in Nat
    /\ MaxFailures \in Nat

VARIABLES
    world,     \* world[p] : the version of part p of the repository
    probed,    \* the fingerprint the watcher has last read, to be published
    stage,     \* stage[r] : where stream r is
    cache,     \* Surface::snapshot
    holder,    \* the streams reading with its mutex held
    making,    \* making[r] : the snapshot stream r is reading
    next,      \* next[r] : the place in ReadOrder of the part it reads next
    drawn,     \* drawn[r] : the page stream r is about to compare and send
    shown,     \* shown[r] : the page the client has
    down,      \* Surface::stopped
    writes,    \* how often the repository was written
    failures,  \* how many git processes refused
    beating    \* whether heartbeats come

reading     == <<cache, holder, making, next>>
pages       == <<stage, reading, drawn, shown>>
outside     == <<world, probed, down, writes, failures, beating>>
surfaceVars == <<vars, pages, outside>>

Logged      == {ReadOrder[i] : i \in DOMAIN ReadOrder}
Of(fp)      == [p \in Logged |-> fp[p]]
Fingerprint == [Parts -> Nat]
Snapshot    == [mark : Fingerprint \cup {<<>>}, content : [Logged -> Nat]]
Page        == [Logged -> Nat]

(* Nothing read yet, marked with what no repository answers.               *)
NothingRead == [mark |-> <<>>, content |-> [p \in Logged |-> 0]]

(* Every client has loaded its page, and its stream has still to open.     *)
SurfaceInit ==
    /\ Init
    /\ world = [p \in Parts |-> 0]
    /\ value = world
    /\ probed = world
    /\ stage = [r \in Readers |-> "new"]
    /\ cache = NothingRead
    /\ holder = {}
    /\ making = [r \in Readers |-> NothingRead]
    /\ next = [r \in Readers |-> 1]
    /\ drawn = [r \in Readers |-> Of(world)]
    /\ shown = drawn
    /\ down = FALSE
    /\ writes = 0
    /\ failures = 0
    /\ beating \in BOOLEAN

(* Without heartbeats nothing makes up for a refusal.                      *)
MayFail == beating /\ failures < MaxFailures

-----------------------------------------------------------------------------
(* One turn of a stream: `follow` and `push`.                              *)

GoesTo(r, s) == stage' = [stage EXCEPT ![r] = s]

(* Trusting the page the client came with and going straight to wait.      *)
OpenAndPark(r) ==
    /\ stage[r] = "new"
    /\ Subscribe(r)
    /\ GoesTo(r, "wait")
    /\ UNCHANGED <<reading, drawn, shown, outside>>

Open(r) ==
    /\ stage[r] = "new"
    /\ Subscribe(r)
    /\ GoesTo(r, "top")
    /\ UNCHANGED <<reading, drawn, shown, outside>>

Top(r) ==
    /\ stage[r] = "top"
    /\ GoesTo(r, IF down THEN "gone" ELSE "cache")
    /\ UNCHANGED <<vars, reading, drawn, shown, outside>>

Draw(r, snapshot) ==
    drawn' = [drawn EXCEPT ![r] = snapshot.content]

Forgets(r) ==
    /\ making' = [making EXCEPT ![r] = NothingRead]
    /\ next' = [next EXCEPT ![r] = 1]

(* The mutex, and `snapshot_if_changed`: the cached snapshot when the      *)
(* repository is where it was marked, and a new reading otherwise.         *)
Compare(r) ==
    /\ stage[r] = "cache"
    /\ holder = {}
    /\ IF world = cache.mark
       THEN Draw(r, cache) /\ GoesTo(r, "required") /\ UNCHANGED holder
       ELSE holder' = {r} /\ GoesTo(r, "mark") /\ UNCHANGED drawn
    /\ UNCHANGED <<vars, cache, making, next, shown, outside>>

(* The fingerprint is taken first.                                         *)
Mark(r) ==
    /\ stage[r] = "mark"
    /\ making' = [making EXCEPT ![r].mark = world]
    /\ GoesTo(r, "read")
    /\ UNCHANGED <<vars, cache, holder, next, drawn, shown, outside>>

(* Marking the snapshot with where the repository is once it was read.     *)
ReadThenMark(r) ==
    LET part == ReadOrder[next[r]]
        read == [mark |-> world, content |-> [making[r].content EXCEPT ![part] = world[part]]]
    IN  /\ stage[r] = "read"
        /\ IF next[r] = Len(ReadOrder)
           THEN /\ cache' = read
                /\ Forgets(r)
                /\ holder' = holder \ {r}
                /\ Draw(r, read)
                /\ GoesTo(r, "required")
           ELSE /\ making' = [making EXCEPT ![r] = read]
                /\ next' = [next EXCEPT ![r] = @ + 1]
                /\ UNCHANGED <<stage, cache, holder, drawn>>
        /\ UNCHANGED <<vars, shown, outside>>

(* One part, and the last one fills the cache and frees the mutex.         *)
Read(r) ==
    LET part == ReadOrder[next[r]]
        read == [making[r] EXCEPT !.content[part] = world[part]]
    IN  /\ stage[r] = "read"
        /\ IF next[r] = Len(ReadOrder)
           THEN /\ cache' = read
                /\ Forgets(r)
                /\ holder' = holder \ {r}
                /\ Draw(r, read)
                /\ GoesTo(r, "required")
           ELSE /\ making' = [making EXCEPT ![r] = read]
                /\ next' = [next EXCEPT ![r] = @ + 1]
                /\ UNCHANGED <<stage, cache, holder, drawn>>
        /\ UNCHANGED <<vars, shown, outside>>

(* Taking a log git would not give for an empty one.                       *)
RefusedAsEmpty(r) ==
    /\ stage[r] \in {"mark", "read"}
    /\ MayFail
    /\ failures' = failures + 1
    /\ holder' = holder \ {r}
    /\ Forgets(r)
    /\ Draw(r, NothingRead)
    /\ GoesTo(r, "required")
    /\ UNCHANGED <<vars, cache, shown>>
    /\ UNCHANGED <<world, probed, down, writes, beating>>

(* Git refuses: nothing is cached, nothing is sent, the stream stays open. *)
Refused(r) ==
    /\ stage[r] \in {"cache", "mark", "read", "required"}
    /\ stage[r] = "cache" => holder = {}
    /\ MayFail
    /\ failures' = failures + 1
    /\ holder' = holder \ {r}
    /\ Forgets(r)
    /\ GoesTo(r, "wait")
    /\ UNCHANGED <<vars, cache, drawn, shown>>
    /\ UNCHANGED <<world, probed, down, writes, beating>>

(* The configuration is read, which may be refused.                        *)
Require(r) ==
    /\ stage[r] = "required"
    /\ GoesTo(r, "push")
    /\ UNCHANGED <<vars, reading, drawn, shown, outside>>

(* Sending only what is news to the whole server, not to this client.      *)
PushFirst(r) ==
    /\ stage[r] = "push"
    /\ GoesTo(r, "wait")
    /\ IF \E s \in Readers : shown[s] = drawn[r]
       THEN UNCHANGED shown
       ELSE shown' = [shown EXCEPT ![r] = drawn[r]]
    /\ UNCHANGED <<vars, reading, drawn, outside>>

(* Nothing is sent to a client that has this fingerprint already.  A client*)
(* that left is noticed when something is sent to it.                      *)
Push(r) ==
    /\ stage[r] = "push"
    /\ \/ /\ drawn[r] = shown[r]
          /\ GoesTo(r, "wait")
          /\ UNCHANGED shown
       \/ /\ drawn[r] # shown[r]
          /\ GoesTo(r, "wait")
          /\ shown' = [shown EXCEPT ![r] = drawn[r]]
       \/ /\ drawn[r] # shown[r]
          /\ GoesTo(r, "gone")
          /\ UNCHANGED shown
    /\ UNCHANGED <<vars, reading, drawn, outside>>

Park(r) ==
    /\ stage[r] = "wait"
    /\ Ask(r)
    /\ GoesTo(r, "waiting")
    /\ UNCHANGED <<reading, drawn, shown, outside>>

Wake(r) ==
    /\ stage[r] = "waiting"
    /\ \/ Changed(r) /\ GoesTo(r, "top")
       \/ Stopped(r) /\ GoesTo(r, "gone")
    /\ UNCHANGED <<reading, drawn, shown, outside>>

(* A ping, which may find the client gone; the page is drawn again after   *)
(* it as after a change.                                                   *)
Ping(r) ==
    /\ stage[r] = "waiting"
    /\ beating
    /\ Timeout(r)
    /\ GoesTo(r, "top") \/ GoesTo(r, "gone")
    /\ UNCHANGED <<reading, drawn, shown, outside>>

Turn(r) ==
    \/ Open(r) \/ Top(r) \/ Compare(r) \/ Mark(r) \/ Read(r) \/ Refused(r)
    \/ Require(r) \/ Push(r) \/ Park(r) \/ Wake(r)

-----------------------------------------------------------------------------
(* Everything around the streams.                                          *)

(* Somebody writes: a handler, the runner, another process, a push.        *)
Write(p) ==
    /\ writes < MaxWrites
    /\ writes' = writes + 1
    /\ world' = [world EXCEPT ![p] = @ + 1]
    /\ UNCHANGED <<vars, pages, probed, down, failures, beating>>

(* The watcher looks, and has something to publish, which may be the past  *)
(* by the time it does.  A probe that fails is one more change to publish, *)
(* and Watcher's.                                                          *)
Probe ==
    /\ ~stopped
    /\ probed = value
    /\ world # value
    /\ probed' = world
    /\ UNCHANGED <<vars, pages, world, down, writes, failures, beating>>

PublishProbed ==
    /\ value' = probed
    /\ Publish
    /\ UNCHANGED <<pages, outside>>

(* The end of `serve`: first the flag, then the watcher.                   *)
ShutDown ==
    /\ ~down
    /\ down' = TRUE
    /\ UNCHANGED <<vars, pages, world, probed, writes, failures, beating>>

(* Leaving the streams parked.                                             *)
ForgetTheWatcher == down /\ stopped /\ UNCHANGED surfaceVars

StopTheWatcher == down /\ Stop /\ UNCHANGED <<pages, outside>>

SurfaceNext ==
    \/ \E r \in Readers : Turn(r) \/ Ping(r)
    \/ \E p \in Parts : Write(p)
    \/ Probe
    \/ PublishProbed
    \/ ShutDown
    \/ StopTheWatcher

(* The threads run, the watcher does what Watcher shows it to do, a git    *)
(* process ends, and a client that is connected reads what it is sent.     *)
(* Streams take turns at the snapshot mutex, and each holds it for one     *)
(* reading.                                                                *)
SurfaceFairness ==
    /\ WF_surfaceVars(Probe)
    /\ WF_surfaceVars(PublishProbed)
    /\ WF_surfaceVars(StopTheWatcher)
    /\ \A r \in Readers : WF_surfaceVars(Turn(r)) /\ WF_surfaceVars(Ping(r))

SurfaceSafety == SurfaceInit /\ [][SurfaceNext]_surfaceVars
SurfaceSpec   == SurfaceSafety /\ SurfaceFairness

-----------------------------------------------------------------------------
(* Properties.                                                             *)

(* A snapshot is never older than the fingerprint it is marked with, part  *)
(* by part, although the log moves while it is read: so a cache that       *)
(* compares equal can be believed (store.rs, `snapshot`).                  *)
MarksAreHonest ==
    cache.mark # <<>> => \A p \in Logged : cache.mark[p] <= cache.content[p]

(* A page whose stream is parked and has nothing to be told shows at least *)
(* what the watcher last published, as long as no reading failed.          *)
ParkedPagesAreCurrent ==
    \A r \in Readers :
        (stage[r] = "waiting" /\ r \notin news /\ failures = 0)
        => \A p \in Logged : shown[r][p] >= value[p]

(* No page goes back to what it showed before, whoever filled the cache it *)
(* is drawn from.                                                          *)
PagesOnlyMoveForward ==
    [][\A r \in Readers : \A p \in Logged :
          shown'[r][p] >= shown[r][p]]_surfaceVars

(* Once the writes are over every open page shows the repository: by what  *)
(* the watcher tells alone when nothing fails, and with the heartbeats     *)
(* after a refusal.                                                        *)
PagesCatchUp ==
    <>[](down \/ \A r \in Readers : stage[r] = "gone" \/ shown[r] = Of(world))

(* The server going away ends every stream.                                *)
StreamsEnd == \A r \in Readers : down ~> (stage[r] = "gone")
=============================================================================
