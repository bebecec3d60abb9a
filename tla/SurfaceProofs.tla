----------------------------- MODULE SurfaceProofs -----------------------------
(***************************************************************************)
(* A cached snapshot can be believed, a parked page is current and no page *)
(* goes back, for any number of streams, parts of the log and writes, and  *)
(* whichever git processes refuse.                                         *)
(*                                                                         *)
(* None of the three is inductive.  What they need is what a reading knows *)
(* halfway: its mark is as new as the page of the client it is for, as new *)
(* as what the watcher had published unless the stream is to be told of    *)
(* more, and no part read since is older than the mark.                    *)
(***************************************************************************)
EXTENDS Surface, TLAPS

Stages == {"new", "top", "cache", "mark", "read", "required", "push", "wait", "waiting", "gone"}

SurfaceTypes ==
    /\ world \in Fingerprint /\ value \in Fingerprint /\ probed \in Fingerprint
    /\ listening \subseteq Readers /\ news \subseteq Readers
    /\ stage \in [Readers -> Stages]
    /\ cache \in Snapshot /\ making \in [Readers -> Snapshot]
    /\ next \in [Readers -> DOMAIN ReadOrder]
    /\ drawn \in [Readers -> Page] /\ shown \in [Readers -> Page]
    /\ failures \in Nat

(* Part by part.                                                           *)
AtLeast(f, g) == \A p \in Logged : f[p] >= g[p]

(* Nothing in the process is ahead of the repository.                      *)
WorldIsAhead ==
    /\ AtLeast(world, probed) /\ AtLeast(probed, value)
    /\ AtLeast(world, cache.content)
    /\ \A r \in Readers : /\ AtLeast(world, making[r].content)
                          /\ AtLeast(world, drawn[r]) /\ AtLeast(world, shown[r])

(* Whoever has opened is told of every change.                             *)
OpenListen == \A r \in Readers : stage[r] # "new" => r \in listening

(* Halfway through a reading: the mark, and the parts read since.          *)
Halfway(r) ==
    IF stage[r] = "read"
    THEN /\ making[r].mark \in Fingerprint
         /\ AtLeast(world, making[r].mark) /\ AtLeast(making[r].mark, shown[r])
         /\ r \notin news => AtLeast(making[r].mark, value)
         /\ \A i \in 1..(next[r] - 1) :
                making[r].content[ReadOrder[i]] >= making[r].mark[ReadOrder[i]]
    ELSE next[r] = 1

(* Drawn and not yet sent.                                                 *)
ReadyToSend(r) ==
    stage[r] \in {"required", "push"} =>
        /\ AtLeast(drawn[r], shown[r])
        /\ r \notin news => AtLeast(drawn[r], value)

Parked(r) ==
    (stage[r] \in {"wait", "waiting"} /\ failures = 0 /\ r \notin news)
    => AtLeast(shown[r], value)

SurfaceInv ==
    /\ SurfaceTypes /\ WorldIsAhead /\ OpenListen /\ MarksAreHonest
    /\ \A r \in Readers : Halfway(r) /\ ReadyToSend(r) /\ Parked(r)

-----------------------------------------------------------------------------
(* Types, and what follows from the constants alone.                       *)

(* What is in the log is in the repository, and there is something in it.  *)
LEMMA PartsOfTheLog ==
    /\ Logged \subseteq Parts
    /\ Logged # {}
    /\ 1 \in DOMAIN ReadOrder
    /\ Len(ReadOrder) \in DOMAIN ReadOrder
    /\ \A i \in DOMAIN ReadOrder : ReadOrder[i] \in Logged
    /\ DOMAIN ReadOrder = 1..Len(ReadOrder)
    /\ Len(ReadOrder) \in Nat
<1>1. ReadOrder \in Seq(Parts) /\ ReadOrder # <<>>
  BY SurfaceAssumption
<1>2. Len(ReadOrder) \in Nat /\ Len(ReadOrder) # 0 /\ DOMAIN ReadOrder = 1..Len(ReadOrder)
  BY <1>1
<1> QED
  BY <1>1, <1>2 DEF Logged

(* What no repository answers.                                             *)
LEMMA NoRepositoryAnswersIt ==
    ASSUME NEW f \in Fingerprint PROVE f # <<>>
<1>1. DOMAIN f = Parts /\ Parts # {}
  BY PartsOfTheLog DEF Fingerprint
<1>2. DOMAIN <<>> = {}
  OBVIOUS
<1> QED
  BY <1>1, <1>2

LEMMA NothingReadIsASnapshot ==
    /\ NothingRead \in Snapshot
    /\ NothingRead.mark = <<>>
    /\ \A p \in Logged : NothingRead.content[p] = 0
  BY DEF NothingRead, Snapshot

LEMMA SnapshotParts ==
    ASSUME NEW c \in Snapshot
    PROVE  /\ c.content \in Page
           /\ c.mark # <<>> => c.mark \in Fingerprint
  BY DEF Snapshot, Page

(* Versions are numbers, whatever they are the versions of.                *)
Versions(f) == \A p \in Logged : f[p] \in Nat

LEMMA AtLeastIsAnOrder ==
    ASSUME NEW f, NEW g, NEW h, Versions(f), Versions(g), Versions(h)
    PROVE  /\ AtLeast(f, f)
           /\ AtLeast(f, g) /\ AtLeast(g, h) => AtLeast(f, h)
  BY DEF AtLeast, Versions

LEMMA AllAreVersions ==
    ASSUME SurfaceTypes
    PROVE  /\ Versions(world) /\ Versions(value) /\ Versions(probed)
           /\ Versions(cache.content)
           /\ cache.mark # <<>> => Versions(cache.mark)
           /\ \A r \in Readers : /\ Versions(making[r].content)
                                 /\ Versions(drawn[r]) /\ Versions(shown[r])
                                 /\ making[r].mark # <<>> => Versions(making[r].mark)
<1>1. \A f \in Fingerprint : Versions(f)
  BY PartsOfTheLog DEF Fingerprint, Versions
<1>2. \A f \in Page : Versions(f)
  BY DEF Page, Versions
<1>3. \A c \in Snapshot : Versions(c.content) /\ (c.mark # <<>> => Versions(c.mark))
  BY <1>1, <1>2, SnapshotParts
<1>4. \A r \in Readers : making[r] \in Snapshot /\ drawn[r] \in Page /\ shown[r] \in Page
  BY DEF SurfaceTypes
<1> QED
  BY <1>1, <1>2, <1>3, <1>4 DEF SurfaceTypes

(* Nothing published is ahead of the repository either.                    *)
LEMMA WorldIsAheadOfAll ==
    ASSUME SurfaceTypes, WorldIsAhead
    PROVE  /\ AtLeast(world, world) /\ AtLeast(world, value)
           /\ \A r \in Readers : AtLeast(world, shown[r])
<1>1. AtLeast(world, world)
  BY AllAreVersions, AtLeastIsAnOrder
<1>2. AtLeast(world, probed) /\ AtLeast(probed, value)
  BY DEF WorldIsAhead
<1>3. AtLeast(world, value)
  BY <1>2, AllAreVersions, AtLeastIsAnOrder
<1> QED
  BY <1>1, <1>3 DEF WorldIsAhead

-----------------------------------------------------------------------------
(* The beginning.                                                          *)

LEMMA InvHoldsAtFirst == SurfaceInit => SurfaceInv
<1> SUFFICES ASSUME SurfaceInit PROVE SurfaceInv
  OBVIOUS
<1> USE DEF SurfaceInit, Init
<1>1. world \in Fingerprint /\ \A p \in Parts : world[p] = 0
  BY DEF Fingerprint
<1>2. Of(world) \in Page /\ \A p \in Logged : Of(world)[p] = 0
  BY <1>1, PartsOfTheLog DEF Of, Page
<1>3. SurfaceTypes
  BY <1>1, <1>2, PartsOfTheLog, NothingReadIsASnapshot DEF SurfaceTypes, Stages
<1>4. WorldIsAhead
  BY <1>1, <1>2, PartsOfTheLog, NothingReadIsASnapshot DEF WorldIsAhead, AtLeast
<1>5. OpenListen /\ MarksAreHonest
  BY NothingReadIsASnapshot DEF OpenListen, MarksAreHonest
<1>6. \A r \in Readers : Halfway(r) /\ ReadyToSend(r) /\ Parked(r)
  BY DEF Halfway, ReadyToSend, Parked
<1> QED
  BY <1>3, <1>4, <1>5, <1>6 DEF SurfaceInv

-----------------------------------------------------------------------------
(* The streams.                                                            *)

Known(r) == Halfway(r) /\ ReadyToSend(r) /\ Parked(r)

(* What a turn of one stream leaves of another.                            *)
LEMMA OthersStill ==
    ASSUME SurfaceInv, NEW s \in Readers,
           world' = world, value' = value, failures' = 0 => failures = 0,
           stage'[s] = stage[s], making'[s] = making[s], next'[s] = next[s],
           drawn'[s] = drawn[s], shown'[s] = shown[s], s \in news' <=> s \in news
    PROVE  Known(s)'
<1>1. Halfway(s) /\ ReadyToSend(s) /\ Parked(s)
  BY DEF SurfaceInv
<1>2. Halfway(s)'
  BY <1>1 DEF Halfway, AtLeast
<1>3. ReadyToSend(s)'
  BY <1>1 DEF ReadyToSend, AtLeast
<1>4. Parked(s)'
  BY <1>1 DEF Parked, AtLeast
<1> QED
  BY <1>2, <1>3, <1>4 DEF Known

LEMMA OpenKeeps ==
    ASSUME SurfaceInv, NEW r \in Readers, Open(r) PROVE SurfaceInv'
<1> USE DEF Open, Subscribe, GoesTo, reading, outside
<1>1. SurfaceTypes'
  BY DEF SurfaceInv, SurfaceTypes, Stages
<1>2. WorldIsAhead'
  BY DEF SurfaceInv, WorldIsAhead, AtLeast
<1>3. OpenListen' /\ MarksAreHonest'
  BY DEF SurfaceInv, SurfaceTypes, OpenListen, MarksAreHonest
<1>4. ASSUME NEW s \in Readers, s # r PROVE Known(s)'
  BY <1>4, OthersStill DEF SurfaceInv, SurfaceTypes
<1>5. Known(r)'
  BY DEF SurfaceInv, SurfaceTypes, Known, Halfway, ReadyToSend, Parked
<1> QED
  BY <1>1, <1>2, <1>3, <1>4, <1>5 DEF SurfaceInv, Known

LEMMA TopKeeps ==
    ASSUME SurfaceInv, NEW r \in Readers, Top(r) PROVE SurfaceInv'
<1> USE DEF Top, GoesTo, vars, reading, outside
<1>1. SurfaceTypes'
  BY DEF SurfaceInv, SurfaceTypes, Stages
<1>2. WorldIsAhead'
  BY DEF SurfaceInv, WorldIsAhead, AtLeast
<1>3. OpenListen' /\ MarksAreHonest'
  BY DEF SurfaceInv, SurfaceTypes, OpenListen, MarksAreHonest
<1>4. ASSUME NEW s \in Readers, s # r PROVE Known(s)'
  BY <1>4, OthersStill DEF SurfaceInv, SurfaceTypes
<1>5. Known(r)'
  BY DEF SurfaceInv, SurfaceTypes, Known, Halfway, ReadyToSend, Parked
<1> QED
  BY <1>1, <1>2, <1>3, <1>4, <1>5 DEF SurfaceInv, Known

(* A page from the cache is as new as the repository, and every page and   *)
(* all that was published is at most that.                                 *)
LEMMA CompareKeeps ==
    ASSUME SurfaceInv, NEW r \in Readers, Compare(r) PROVE SurfaceInv'
<1> USE DEF Compare, Draw, GoesTo, vars, outside
<1>1. SurfaceTypes'
  BY SnapshotParts DEF SurfaceInv, SurfaceTypes, Stages
<1>2. WorldIsAhead'
  BY DEF SurfaceInv, SurfaceTypes, WorldIsAhead, AtLeast
<1>3. OpenListen' /\ MarksAreHonest'
  BY DEF SurfaceInv, SurfaceTypes, OpenListen, MarksAreHonest
<1>4. ASSUME NEW s \in Readers, s # r PROVE Known(s)'
  BY <1>4, OthersStill DEF SurfaceInv, SurfaceTypes
<1>5. Known(r)'
  <2>1. Halfway(r)' /\ Parked(r)'
    BY DEF SurfaceInv, SurfaceTypes, Halfway, Parked
  <2>2. CASE world = cache.mark
    <3>1. cache.mark # <<>>
      BY <2>2, NoRepositoryAnswersIt DEF SurfaceInv, SurfaceTypes
    <3>2. AtLeast(cache.content, world)
      BY <2>2, <3>1, PartsOfTheLog, SnapshotParts
      DEF SurfaceInv, SurfaceTypes, MarksAreHonest, AtLeast, Page, Fingerprint
    <3>3. AtLeast(cache.content, shown[r]) /\ AtLeast(cache.content, value)
      BY <3>2, AllAreVersions, WorldIsAheadOfAll, AtLeastIsAnOrder DEF SurfaceInv
    <3> QED
      BY <2>1, <2>2, <3>3 DEF SurfaceInv, SurfaceTypes, Known, ReadyToSend, AtLeast
  <2>3. CASE world # cache.mark
    BY <2>1, <2>3 DEF SurfaceInv, SurfaceTypes, Known, ReadyToSend
  <2> QED
    BY <2>2, <2>3
<1> QED
  BY <1>1, <1>2, <1>3, <1>4, <1>5 DEF SurfaceInv, Known

LEMMA MarkKeeps ==
    ASSUME SurfaceInv, NEW r \in Readers, Mark(r) PROVE SurfaceInv'
<1> USE DEF Mark, GoesTo, vars, outside
<1>0. /\ making[r] \in Snapshot
      /\ making'[r] = [making[r] EXCEPT !.mark = world]
      /\ making'[r].mark = world /\ making'[r].content = making[r].content
      /\ making'[r] \in Snapshot
      /\ stage'[r] = "read" /\ next[r] = 1
  BY DEF SurfaceInv, SurfaceTypes, Snapshot, Halfway
<1>1. SurfaceTypes'
  BY <1>0 DEF SurfaceInv, SurfaceTypes, Stages
<1>2. WorldIsAhead'
  BY <1>0 DEF SurfaceInv, SurfaceTypes, WorldIsAhead, AtLeast
<1>3. OpenListen' /\ MarksAreHonest'
  BY DEF SurfaceInv, SurfaceTypes, OpenListen, MarksAreHonest
<1>4. ASSUME NEW s \in Readers, s # r PROVE Known(s)'
  BY <1>4, OthersStill DEF SurfaceInv, SurfaceTypes
<1>5. Known(r)'
  <2>1. AtLeast(world, world) /\ AtLeast(world, shown[r]) /\ AtLeast(world, value)
    BY WorldIsAheadOfAll DEF SurfaceInv
  <2>2. Halfway(r)'
    BY <1>0, <2>1 DEF SurfaceInv, SurfaceTypes, Halfway, AtLeast
  <2> QED
    BY <1>0, <2>2 DEF Known, ReadyToSend, Parked
<1> QED
  BY <1>1, <1>2, <1>3, <1>4, <1>5 DEF SurfaceInv, Known

(* The part read now is as new as the repository, so as the mark.          *)
LEMMA OnePartMore ==
    ASSUME SurfaceInv, NEW r \in Readers, stage[r] = "read",
           NEW read,
           read = [making[r] EXCEPT !.content[ReadOrder[next[r]]] = world[ReadOrder[next[r]]]]
    PROVE  /\ read \in Snapshot
           /\ read.mark = making[r].mark /\ read.mark \in Fingerprint
           /\ AtLeast(world, read.content)
           /\ \A i \in 1..next[r] :
                  read.content[ReadOrder[i]] >= read.mark[ReadOrder[i]]
<1> DEFINE n    == next[r]
           part == ReadOrder[n]
           c    == making[r].content
           m    == making[r].mark
<1>1. n \in DOMAIN ReadOrder /\ n \in Nat /\ part \in Logged /\ part \in Parts
  BY PartsOfTheLog DEF SurfaceInv, SurfaceTypes
<1>2. making[r] \in Snapshot /\ c \in [Logged -> Nat] /\ world \in [Parts -> Nat]
  BY SnapshotParts DEF SurfaceInv, SurfaceTypes, Fingerprint, Page
<1>3. m \in Fingerprint /\ AtLeast(world, m) /\ AtLeast(world, c)
  BY DEF SurfaceInv, Halfway, WorldIsAhead
<1>4. \A i \in 1..(n - 1) : c[ReadOrder[i]] >= m[ReadOrder[i]]
  BY DEF SurfaceInv, Halfway
<1>5. world[part] \in Nat /\ world[part] >= m[part]
  BY <1>1, <1>2, <1>3 DEF AtLeast
<1>6. /\ read.mark = m
      /\ read.content = [c EXCEPT ![part] = world[part]]
      /\ read = [mark |-> m, content |-> [c EXCEPT ![part] = world[part]]]
  BY <1>2 DEF Snapshot
<1>7. read \in Snapshot
  BY <1>2, <1>3, <1>5, <1>6 DEF Snapshot
<1>8. AtLeast(world, read.content)
  BY <1>1, <1>2, <1>3, <1>5, <1>6 DEF AtLeast
<1>9. ASSUME NEW i \in 1..n PROVE read.content[ReadOrder[i]] >= read.mark[ReadOrder[i]]
  <2>1. ReadOrder[i] \in Logged
    BY <1>1, PartsOfTheLog
  <2>2. CASE ReadOrder[i] = part
    BY <1>1, <1>2, <1>5, <1>6, <2>2
  <2>3. CASE ReadOrder[i] # part
    <3>1. i # n /\ i \in 1..(n - 1)
      BY <1>1, <2>3
    <3>2. c[ReadOrder[i]] >= m[ReadOrder[i]]
      BY <1>4, <3>1
    <3> QED
      BY <1>2, <1>6, <2>1, <2>3, <3>2
  <2> QED
    BY <2>2, <2>3
<1> QED
  BY <1>3, <1>6, <1>7, <1>8, <1>9

LEMMA ReadKeeps ==
    ASSUME SurfaceInv, NEW r \in Readers, Read(r) PROVE SurfaceInv'
<1> DEFINE read == [making[r] EXCEPT !.content[ReadOrder[next[r]]] = world[ReadOrder[next[r]]]]
<1>0. stage[r] = "read"
  BY DEF Read
<1>1. /\ read \in Snapshot
      /\ read.mark = making[r].mark /\ read.mark \in Fingerprint
      /\ AtLeast(world, read.content)
      /\ \A i \in 1..next[r] :
             read.content[ReadOrder[i]] >= read.mark[ReadOrder[i]]
  BY <1>0, OnePartMore
<1> HIDE DEF read
<1>2. CASE next[r] = Len(ReadOrder)
  <2>1. /\ cache' = read /\ Forgets(r) /\ holder' = holder \ {r}
        /\ Draw(r, read) /\ GoesTo(r, "required")
        /\ UNCHANGED <<vars, shown, outside>>
    BY <1>2 DEF Read, read
  <2> USE DEF Forgets, Draw, GoesTo, vars, outside
  <2>2. AtLeast(read.content, read.mark)
    <3>1. \A p \in Logged : \E i \in 1..next[r] : p = ReadOrder[i]
      BY <1>2, PartsOfTheLog DEF Logged
    <3> QED
      BY <1>1, <3>1 DEF AtLeast
  <2>3. /\ AtLeast(read.mark, shown[r])
        /\ r \notin news => AtLeast(read.mark, value)
    BY <1>0, <1>1 DEF SurfaceInv, Halfway
  <2>4. Versions(read.content) /\ Versions(read.mark)
    BY <1>1, SnapshotParts, PartsOfTheLog DEF Versions, Page, Fingerprint
  <2>5. /\ AtLeast(read.content, shown[r])
        /\ r \notin news => AtLeast(read.content, value)
    BY <2>2, <2>3, <2>4, AllAreVersions, AtLeastIsAnOrder DEF SurfaceInv
  <2>6. SurfaceTypes'
    BY <1>1, <2>1, SnapshotParts, NothingReadIsASnapshot, PartsOfTheLog
    DEF SurfaceInv, SurfaceTypes, Stages
  <2>7. WorldIsAhead'
    <3>1. AtLeast(world, NothingRead.content)
      BY AllAreVersions, NothingReadIsASnapshot DEF SurfaceInv, AtLeast, Versions
    <3> QED
      BY <1>1, <2>1, <3>1 DEF SurfaceInv, SurfaceTypes, WorldIsAhead, AtLeast
  <2>8. OpenListen'
    BY <1>0, <2>1 DEF SurfaceInv, SurfaceTypes, OpenListen
  <2>9. MarksAreHonest'
    BY <2>1, <2>2, <2>4 DEF MarksAreHonest, AtLeast, Versions
  <2>10. ASSUME NEW s \in Readers, s # r PROVE Known(s)'
    BY <2>1, <2>10, OthersStill DEF SurfaceInv, SurfaceTypes
  <2>11. Known(r)'
    BY <2>1, <2>5 DEF SurfaceInv, SurfaceTypes, Known, Halfway, ReadyToSend, Parked, AtLeast
  <2> QED
    BY <2>6, <2>7, <2>8, <2>9, <2>10, <2>11 DEF SurfaceInv, Known
<1>3. CASE next[r] # Len(ReadOrder)
  <2>1. /\ making' = [making EXCEPT ![r] = read]
        /\ next' = [next EXCEPT ![r] = @ + 1]
        /\ UNCHANGED <<stage, cache, holder, drawn>>
        /\ UNCHANGED <<vars, shown, outside>>
    BY <1>3 DEF Read, read
  <2> USE DEF vars, outside
  <2>2. next[r] \in 1..Len(ReadOrder) /\ next[r] + 1 \in DOMAIN ReadOrder
        /\ (next[r] + 1) - 1 = next[r]
    BY <1>3, PartsOfTheLog DEF SurfaceInv, SurfaceTypes
  <2>3. SurfaceTypes'
    BY <1>1, <2>1, <2>2 DEF SurfaceInv, SurfaceTypes
  <2>4. WorldIsAhead'
    BY <1>1, <2>1 DEF SurfaceInv, SurfaceTypes, WorldIsAhead, AtLeast
  <2>5. OpenListen' /\ MarksAreHonest'
    BY <2>1 DEF SurfaceInv, OpenListen, MarksAreHonest
  <2>6. ASSUME NEW s \in Readers, s # r PROVE Known(s)'
    BY <2>1, <2>6, OthersStill DEF SurfaceInv, SurfaceTypes
  <2>7. making'[r] = read /\ next'[r] = next[r] + 1
    BY <2>1 DEF SurfaceInv, SurfaceTypes
  <2>8. Halfway(r)'
    BY <1>0, <1>1, <2>1, <2>2, <2>7 DEF SurfaceInv, Halfway, AtLeast
  <2>9. Known(r)'
    BY <1>0, <2>1, <2>8 DEF Known, ReadyToSend, Parked
  <2> QED
    BY <2>3, <2>4, <2>5, <2>6, <2>9 DEF SurfaceInv, Known
<1> QED
  BY <1>2, <1>3

LEMMA RefusedKeeps ==
    ASSUME SurfaceInv, NEW r \in Readers, Refused(r) PROVE SurfaceInv'
<1> USE DEF Refused, Forgets, GoesTo, vars
<1>0. failures' \in Nat /\ failures' # 0
  BY DEF SurfaceInv, SurfaceTypes
<1>1. SurfaceTypes'
  BY <1>0, NothingReadIsASnapshot, PartsOfTheLog DEF SurfaceInv, SurfaceTypes, Stages
<1>2. WorldIsAhead'
  <2>1. AtLeast(world, NothingRead.content)
    BY AllAreVersions, NothingReadIsASnapshot DEF SurfaceInv, AtLeast, Versions
  <2> QED
    BY <2>1 DEF SurfaceInv, SurfaceTypes, WorldIsAhead, AtLeast
<1>3. OpenListen' /\ MarksAreHonest'
  BY DEF SurfaceInv, SurfaceTypes, OpenListen, MarksAreHonest
<1>4. ASSUME NEW s \in Readers, s # r PROVE Known(s)'
  BY <1>0, <1>4, OthersStill DEF SurfaceInv, SurfaceTypes
<1>5. Known(r)'
  BY <1>0 DEF SurfaceInv, SurfaceTypes, Known, Halfway, ReadyToSend, Parked
<1> QED
  BY <1>1, <1>2, <1>3, <1>4, <1>5 DEF SurfaceInv, Known

LEMMA RequireKeeps ==
    ASSUME SurfaceInv, NEW r \in Readers, Require(r) PROVE SurfaceInv'
<1> USE DEF Require, GoesTo, vars, reading, outside
<1>1. SurfaceTypes'
  BY DEF SurfaceInv, SurfaceTypes, Stages
<1>2. WorldIsAhead'
  BY DEF SurfaceInv, WorldIsAhead, AtLeast
<1>3. OpenListen' /\ MarksAreHonest'
  BY DEF SurfaceInv, SurfaceTypes, OpenListen, MarksAreHonest
<1>4. ASSUME NEW s \in Readers, s # r PROVE Known(s)'
  BY <1>4, OthersStill DEF SurfaceInv, SurfaceTypes
<1>5. Known(r)'
  BY DEF SurfaceInv, SurfaceTypes, Known, Halfway, ReadyToSend, Parked, AtLeast
<1> QED
  BY <1>1, <1>2, <1>3, <1>4, <1>5 DEF SurfaceInv, Known

(* What is shown from now on is what was drawn.                            *)
LEMMA PushKeeps ==
    ASSUME SurfaceInv, NEW r \in Readers, Push(r) PROVE SurfaceInv'
<1> USE DEF Push, GoesTo, vars, reading, outside
<1>0. \/ stage'[r] = "wait" /\ shown'[r] = drawn[r]
      \/ stage'[r] = "gone" /\ shown'[r] = shown[r]
  BY DEF SurfaceInv, SurfaceTypes
<1>1. SurfaceTypes'
  BY DEF SurfaceInv, SurfaceTypes, Stages
<1>2. WorldIsAhead'
  BY DEF SurfaceInv, SurfaceTypes, WorldIsAhead, AtLeast
<1>3. OpenListen' /\ MarksAreHonest'
  BY DEF SurfaceInv, SurfaceTypes, OpenListen, MarksAreHonest
<1>4. ASSUME NEW s \in Readers, s # r PROVE Known(s)'
  BY <1>4, OthersStill DEF SurfaceInv, SurfaceTypes
<1>5. Known(r)'
  BY <1>0 DEF SurfaceInv, SurfaceTypes, Known, Halfway, ReadyToSend, Parked, AtLeast
<1> QED
  BY <1>1, <1>2, <1>3, <1>4, <1>5 DEF SurfaceInv, Known

LEMMA ParkKeeps ==
    ASSUME SurfaceInv, NEW r \in Readers, Park(r) PROVE SurfaceInv'
<1> USE DEF Park, Ask, GoesTo, reading, outside
<1>1. SurfaceTypes'
  BY DEF SurfaceInv, SurfaceTypes, Stages
<1>2. WorldIsAhead'
  BY DEF SurfaceInv, WorldIsAhead, AtLeast
<1>3. OpenListen' /\ MarksAreHonest'
  BY DEF SurfaceInv, SurfaceTypes, OpenListen, MarksAreHonest
<1>4. ASSUME NEW s \in Readers, s # r PROVE Known(s)'
  BY <1>4, OthersStill DEF SurfaceInv, SurfaceTypes
<1>5. Known(r)'
  BY DEF SurfaceInv, SurfaceTypes, Known, Halfway, ReadyToSend, Parked, AtLeast
<1> QED
  BY <1>1, <1>2, <1>3, <1>4, <1>5 DEF SurfaceInv, Known

(* A stream that was told has its page to draw again.                      *)
LEMMA ToldKeeps ==
    ASSUME SurfaceInv, NEW r \in Readers, Wake(r) \/ Ping(r) PROVE SurfaceInv'
<1>0. /\ stage[r] = "waiting"
      /\ GoesTo(r, "top") \/ GoesTo(r, "gone")
      /\ news' = news \ {r} \/ news' = news
      /\ UNCHANGED <<value, listening>>
      /\ UNCHANGED <<reading, drawn, shown, outside>>
  BY DEF Wake, Ping, Changed, Stopped, Timeout, Tell
<1> USE DEF GoesTo, reading, outside
<1>1. SurfaceTypes'
  BY <1>0 DEF SurfaceInv, SurfaceTypes, Stages
<1>2. WorldIsAhead'
  BY <1>0 DEF SurfaceInv, WorldIsAhead, AtLeast
<1>3. OpenListen' /\ MarksAreHonest'
  BY <1>0 DEF SurfaceInv, SurfaceTypes, OpenListen, MarksAreHonest
<1>4. ASSUME NEW s \in Readers, s # r PROVE Known(s)'
  BY <1>0, <1>4, OthersStill DEF SurfaceInv, SurfaceTypes
<1>5. Known(r)'
  BY <1>0 DEF SurfaceInv, SurfaceTypes, Known, Halfway, ReadyToSend, Parked
<1> QED
  BY <1>1, <1>2, <1>3, <1>4, <1>5 DEF SurfaceInv, Known

-----------------------------------------------------------------------------
(* Everything around the streams.                                          *)

LEMMA WriteKeeps ==
    ASSUME SurfaceInv, NEW p \in Parts, Write(p) PROVE SurfaceInv'
<1> USE DEF Write, vars, pages, reading
<1>0. world' \in Fingerprint /\ Versions(world') /\ AtLeast(world', world)
  BY PartsOfTheLog DEF SurfaceInv, SurfaceTypes, Fingerprint, Versions, AtLeast
<1>1. SurfaceTypes'
  BY <1>0 DEF SurfaceInv, SurfaceTypes
<1>2. ASSUME NEW f, Versions(f), AtLeast(world, f) PROVE AtLeast(world', f)
  BY <1>0, <1>2, AllAreVersions, AtLeastIsAnOrder DEF SurfaceInv
<1>3. /\ AtLeast(world', probed) /\ AtLeast(world', cache.content)
      /\ \A r \in Readers : /\ AtLeast(world', making[r].content)
                            /\ AtLeast(world', drawn[r]) /\ AtLeast(world', shown[r])
  BY <1>2, AllAreVersions DEF SurfaceInv, WorldIsAhead
<1>4. WorldIsAhead'
  BY <1>3 DEF SurfaceInv, WorldIsAhead, AtLeast
<1>5. OpenListen' /\ MarksAreHonest'
  BY DEF SurfaceInv, OpenListen, MarksAreHonest
<1>6. ASSUME NEW r \in Readers PROVE Known(r)'
  <2>1. stage[r] = "read" => AtLeast(world', making[r].mark)
    <3> SUFFICES ASSUME stage[r] = "read" PROVE AtLeast(world', making[r].mark)
      OBVIOUS
    <3>1. making[r].mark \in Fingerprint /\ AtLeast(world, making[r].mark)
      BY DEF SurfaceInv, Halfway
    <3> QED
      BY <1>2, <3>1, NoRepositoryAnswersIt, AllAreVersions DEF SurfaceInv
  <2>2. Halfway(r)'
    BY <2>1 DEF SurfaceInv, Halfway, AtLeast
  <2>3. ReadyToSend(r)' /\ Parked(r)'
    BY DEF SurfaceInv, ReadyToSend, Parked, AtLeast
  <2> QED
    BY <2>2, <2>3 DEF Known
<1> QED
  BY <1>1, <1>4, <1>5, <1>6 DEF SurfaceInv, Known

LEMMA ProbeKeeps ==
    ASSUME SurfaceInv, Probe PROVE SurfaceInv'
<1> USE DEF Probe, vars, pages, reading
<1>1. SurfaceTypes'
  BY DEF SurfaceInv, SurfaceTypes
<1>2. WorldIsAhead'
  BY WorldIsAheadOfAll DEF SurfaceInv, WorldIsAhead, AtLeast
<1>3. OpenListen' /\ MarksAreHonest'
  BY DEF SurfaceInv, OpenListen, MarksAreHonest
<1>4. ASSUME NEW r \in Readers PROVE Known(r)'
  BY OthersStill DEF SurfaceInv
<1> QED
  BY <1>1, <1>2, <1>3, <1>4 DEF SurfaceInv, Known

(* Every open stream is to be told; what was published is now what was     *)
(* probed.                                                                 *)
LEMMA PublishKeeps ==
    ASSUME SurfaceInv, PublishProbed PROVE SurfaceInv'
<1> USE DEF PublishProbed, Publish, pages, reading, outside
<1>1. SurfaceTypes'
  BY DEF SurfaceInv, SurfaceTypes
<1>2. WorldIsAhead'
  <2>1. AtLeast(probed, probed)
    BY AllAreVersions, AtLeastIsAnOrder DEF SurfaceInv
  <2> QED
    BY <2>1 DEF SurfaceInv, WorldIsAhead, AtLeast
<1>3. OpenListen' /\ MarksAreHonest'
  BY DEF SurfaceInv, OpenListen, MarksAreHonest
<1>4. ASSUME NEW r \in Readers PROVE Known(r)'
  <2>1. stage[r] # "new" => r \in news'
    BY DEF SurfaceInv, OpenListen
  <2> QED
    BY <2>1 DEF SurfaceInv, Known, Halfway, ReadyToSend, Parked, AtLeast
<1> QED
  BY <1>1, <1>2, <1>3, <1>4 DEF SurfaceInv, Known

LEMMA EndKeeps ==
    ASSUME SurfaceInv, ShutDown \/ StopTheWatcher \/ UNCHANGED surfaceVars
    PROVE  SurfaceInv'
<1>0. /\ UNCHANGED <<value, listening, news, pages>>
      /\ UNCHANGED <<world, probed, failures>>
  BY DEF ShutDown, StopTheWatcher, Stop, surfaceVars, vars, outside
<1> USE DEF pages, reading
<1>1. SurfaceTypes'
  BY <1>0 DEF SurfaceInv, SurfaceTypes
<1>2. WorldIsAhead'
  BY <1>0 DEF SurfaceInv, WorldIsAhead, AtLeast
<1>3. OpenListen' /\ MarksAreHonest'
  BY <1>0 DEF SurfaceInv, OpenListen, MarksAreHonest
<1>4. ASSUME NEW r \in Readers PROVE Known(r)'
  BY <1>0, OthersStill DEF SurfaceInv
<1> QED
  BY <1>1, <1>2, <1>3, <1>4 DEF SurfaceInv, Known

LEMMA EveryStepKeeps ==
    ASSUME SurfaceInv, [SurfaceNext]_surfaceVars PROVE SurfaceInv'
<1>1. ASSUME NEW r \in Readers, Turn(r) \/ Ping(r) PROVE SurfaceInv'
  BY <1>1, OpenKeeps, TopKeeps, CompareKeeps, MarkKeeps, ReadKeeps, RefusedKeeps,
     RequireKeeps, PushKeeps, ParkKeeps, ToldKeeps DEF Turn
<1>2. ASSUME NEW p \in Parts, Write(p) PROVE SurfaceInv'
  BY <1>2, WriteKeeps
<1>3. CASE Probe
  BY <1>3, ProbeKeeps
<1>4. CASE PublishProbed
  BY <1>4, PublishKeeps
<1>5. CASE ShutDown \/ StopTheWatcher \/ UNCHANGED surfaceVars
  BY <1>5, EndKeeps
<1> QED
  BY <1>1, <1>2, <1>3, <1>4, <1>5 DEF SurfaceNext

THEOREM SurfaceHolds == SurfaceSafety => []SurfaceInv
<1>1. SurfaceInv /\ [SurfaceNext]_surfaceVars => SurfaceInv'
  BY EveryStepKeeps
<1> QED
  BY <1>1, InvHoldsAtFirst, PTL DEF SurfaceSafety

-----------------------------------------------------------------------------
(* The properties.                                                         *)

(* A cached snapshot is in no part older than the fingerprint it is marked *)
(* with (store.rs takes the fingerprint first), however often the          *)
(* repository is written while it is read.                                 *)
THEOREM SnapshotsCanBeBelieved == SurfaceSafety => []MarksAreHonest
<1>1. SurfaceInv => MarksAreHonest
  BY DEF SurfaceInv
<1> QED
  BY <1>1, SurfaceHolds, PTL

(* A stream that is parked with nothing to be told, and no reading of which*)
(* was refused, left its client with all that the watcher published.       *)
THEOREM ParkedStreamsMissNothing == SurfaceSafety => []ParkedPagesAreCurrent
<1>1. SurfaceInv => ParkedPagesAreCurrent
  BY DEF SurfaceInv, Parked, ParkedPagesAreCurrent, AtLeast
<1> QED
  BY <1>1, SurfaceHolds, PTL

(* No page goes back, in any part, whether it is drawn from the cache that *)
(* another stream filled or from a reading of its own, and also after a    *)
(* refusal.                                                                *)
THEOREM NoPageGoesBack == SurfaceSafety => PagesOnlyMoveForward
<1> DEFINE Forward == \A r \in Readers : \A p \in Logged : shown'[r][p] >= shown[r][p]
<1>1. ASSUME SurfaceInv, [SurfaceNext]_surfaceVars PROVE Forward
  <2>1. CASE shown' = shown
    <3>1. \A r \in Readers : AtLeast(shown[r], shown[r])
      BY <1>1, AllAreVersions, AtLeastIsAnOrder DEF SurfaceInv
    <3> QED
      BY <2>1, <3>1 DEF AtLeast
  <2>2. CASE \E r \in Readers : Push(r)
    <3>1. PICK r \in Readers : Push(r)
      BY <2>2
    <3>2. AtLeast(drawn[r], shown[r])
      BY <1>1, <3>1 DEF SurfaceInv, ReadyToSend, Push
    <3>3. \A s \in Readers : AtLeast(shown[s], shown[s])
      BY <1>1, AllAreVersions, AtLeastIsAnOrder DEF SurfaceInv
    <3>4. /\ shown'[r] = drawn[r] \/ shown'[r] = shown[r]
          /\ \A s \in Readers \ {r} : shown'[s] = shown[s]
      BY <1>1, <3>1 DEF SurfaceInv, SurfaceTypes, Push
    <3> QED
      BY <3>2, <3>3, <3>4 DEF AtLeast
  <2>3. \/ UNCHANGED shown
        \/ \E r \in Readers : Push(r)
    <3>1. ASSUME NEW r \in Readers, Turn(r) \/ Ping(r), ~Push(r) PROVE shown' = shown
      BY <3>1 DEF Turn, Open, Top, Compare, Mark, Read, Refused, Require, Park, Wake, Ping
    <3>2. ASSUME NEW p \in Parts, Write(p) PROVE shown' = shown
      BY <3>2 DEF Write, pages
    <3> QED
      BY <1>1, <3>1, <3>2
      DEF SurfaceNext, Probe, PublishProbed, ShutDown, StopTheWatcher, surfaceVars, pages
  <2> QED
    BY <2>1, <2>2, <2>3
<1>2. SurfaceInv /\ [SurfaceNext]_surfaceVars => [Forward]_surfaceVars
  BY <1>1
<1> QED
  BY <1>2, SurfaceHolds, PTL DEF SurfaceSafety, PagesOnlyMoveForward

(* The streams use the watcher as ChangeFeed allows and not otherwise: what*)
(* Watcher is shown to implement is all that the pages rest on.            *)
THEOREM StreamsKeepToTheFeed == SurfaceSafety => Spec
<1>1. SurfaceInit => Init
  BY DEF SurfaceInit
<1>2. [SurfaceNext]_surfaceVars => [Next]_vars
  <2>1. ASSUME NEW r \in Readers, Turn(r) \/ Ping(r) PROVE [Next]_vars
    <3>1. CASE UNCHANGED vars
      BY <3>1
    <3>2. CASE Open(r) \/ Park(r) \/ Wake(r) \/ Ping(r)
      BY <3>2 DEF Open, Park, Wake, Ping, Next
    <3>3. CASE Top(r) \/ Compare(r) \/ Mark(r) \/ Read(r) \/ Refused(r) \/ Require(r) \/ Push(r)
      BY <3>3 DEF Top, Compare, Mark, Read, Refused, Require, Push
    <3> QED
      BY <2>1, <3>1, <3>2, <3>3 DEF Turn
  <2>2. ASSUME NEW p \in Parts, Write(p) PROVE [Next]_vars
    BY <2>2 DEF Write
  <2>3. CASE Probe \/ ShutDown \/ UNCHANGED surfaceVars
    BY <2>3 DEF Probe, ShutDown, surfaceVars
  <2>4. CASE PublishProbed \/ StopTheWatcher
    BY <2>4 DEF PublishProbed, StopTheWatcher, Next
  <2> QED
    BY <2>1, <2>2, <2>3, <2>4 DEF SurfaceNext
<1> QED
  BY <1>1, <1>2, PTL DEF SurfaceSafety, Spec
================================================================================
