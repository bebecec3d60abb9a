# A verification project for githerb

githerb is a review tool whose only store is the repository it reviews: a
proposal is a set of refs and git notes, reading is folding, and every command,
browser tab and agent is a process of its own writing to the same log. This
directory holds TLA+ modules of that program, TLC configurations that check them
on small instances, and proofs that TLAPS checks for every instance.

## The system

| part | state it keeps | operations | talks to |
|---|---|---|---|
| `review` (aggregate, `proposal.rs`, `proposal/views.rs`, `work.rs`) | one proposal in memory: revisions, comments, answers, verdicts, work lines, asks | `apply`, `fold`, the views (`open_comments`, `checks`, `activity`, `dispatched`, `landable`) | nothing: pure |
| `review/wire`, values | none | a record or an event to one line of JSON and back, the identities derived from lines | nothing |
| `gitstore` | the repository: refs, notes, branches, the checkout, worktrees | `update_ref`, `note_append`, `fast_forward`, `is_ancestor`, one `git` process each | the file system |
| `app` (`store.rs`, `snapshot.rs` and a file per command) | none between commands | `propose`, `revise`, `annotate`, `reply`, `resolve`, `dispatch`, `report`, `describe`, `check`, `abandon`, `land` | `review` to decide, `gitstore` to read and write |
| `runner` | a lock file, one thread, worktrees | derive the jobs of a pass, claim, perform (check, apply, rebase), report; hand back claims at a restart | `app`, agents (external processes), worktrees |
| `web` (`watch.rs`, `surface.rs`, `stream.rs`) | a watched fingerprint under a mutex, a cached snapshot, a stream per open page | probe, poke, subscribe, wait, stop; draw pages and push them again when the log moves | `app` |
| `web` (`http.rs`, `request.rs`, `response.rs`, `routes.rs`) | a listener, one thread per connection with what it has read of its request | accept, parse, refuse, dispatch, answer, stream, stop | clients, `surface.rs` |
| `patch` | none after a diff is read; while reading: the files so far and the next line of each side | `parse`, the lookups of files and lines | nothing |
| `web/model` | none | a patch and a proposal to the rows, threads, marks, bar and rail of a page; proposals to the board; the fingerprints of both | `patch`, `review` |
| the binary (`main.rs`, `cli.rs`, `daemon.rs`) | the shutdown flag | start the server and the runner, stop both | `web`, `runner` |

Nothing coordinates the processes. A command reads the whole log, lets the
aggregate refuse, and writes; the writes are separate git processes; and between
any two of these steps another command, a push, a branch switch or a crash may
come.

What is hard here, part by part:

* **The fold.** Lines of one note arrive in any order (clones are merged, two
  people write at once) and are dated with whole seconds. What is open, who is
  working and what the gate says must follow from the lines and not from luck.
* **The commands.** What a command decided on its reading is written later. A
  revision number, a line that names a note, a gate that opened, the list of
  stacked proposals: each may be stale when used. A command of several writes may
  die in between.
* **The landing.** Three writes to three places, racing pushes, other landings
  and a branch switch.
* **The runner.** Jobs are computed once per pass, claims are lines in a log that
  others write too, a crash leaves a claim that only a restart hands back, and
  "who is working" is decided by moments of one second.
* **The watcher.** A condition variable between the thread that probes, requests
  that poke it, streams that wait on it and the shutdown that ends them all: a lost
  wake-up is a page that stays stale or a process that does not exit.
* **The diff and the page.** A note names a line by file, side and number, and every
  reader finds that line again by counting: in git's output, whose lines of code,
  headers and names are told apart by their first characters, and on a page whose
  rows have a number on each side.

* **The clones.** The log travels by `git fetch` and `git notes merge`, which sorts
  the lines of a note as text and drops repetitions: whatever depends on places in a
  note depends on the spelling of a line. Builds of several versions write the same log.
* **The server.** It is left open all day: clients stall, stop reading, leave and
  send nonsense, a handler may panic with the mutex everybody needs, and stopping has
  to end streams, the runner and the process.

`PROJECT.json` lists these hazards one by one, each at its line.

## What makes each part correct

* The fold: it depends on what the lines say and not on the order in which they
  were delivered; it succeeds exactly when every line names something the proposal
  has; verdicts and activity of older revisions never stand in for the head's.
* The commands: what they refuse, and only that, would break the log; a log that
  reads keeps reading; a recorded revision keeps its number and its commit.
* The landing: no branch loses a commit; a landed event is true; the gate it
  passed was a gate; what was stacked on it is told.
* The watcher: no wake-up is lost; a change between two waits is told; stopping
  ends everything.
* The pages: a cached snapshot is what its mark says; pages never step back, and
  catch up.
* The diff: what git prints is never refused, and every file, hunk and line is read as
  git means it. The page: what was written on a line is drawn at that line, on one row
  at most, and the marks are the notes that block.
* The wire: what is written is read back as it was, and a line of a newer build is
  skipped. The clones: a log reads unless an append that raced a note took it from under
  its answer; clones with the same lines show the same review; nobody's line is undone but
  by such a race.
* The fingerprints: whatever a page draws moves its fingerprint, so that every open
  page is told.
* The server: handlers only run for whole requests; whoever sends one is answered,
  and about that one; stopping ends the process.
* The runner: one runner at a time; a claim is neither stolen nor left standing;
  a failure is retried only when asked; a handover is taken up; the loop rests.

## The modules

Every definition that models code is mapped to its lines in `PROJECT.json`.
Definitions that no `Next` uses and whose comment describes a slip ("Asking again
for what failed", "Counting the notes of every revision", ...) stand directly
before the definition they vary; they are used to try each property against a
plausible bug.

**ReviewLog** is the pure part of `review` and of `app/src/snapshot.rs`: what a line
of a note is (`Comment`, `Reply`, `Resolve`, `Verdict`, `WorkLine`, `Ask`, ...), what
applying one does to a proposal (`Apply`, `Accepts`, `AppendOnce`), the two passes
of the fold (`Fold`: `ApplyLine` on every line and then `ApplyAnswer`, as an answer may
come before the note it names), the reader of a whole note, which passes over the kinds
only a newer build knows (`ReadNote`), the endings and retargets (`End`, `Target`), the whole of `rebuild` (`Rebuild`) and the views
(`OpenComments`, `Checks`, `Activity`, `Dispatched`, `Landable`). It has no state.

**LogFold** puts any lines on any of the revisions of one proposal, one at a time
and in any order, and events after the opening, and asks what the fold makes of them.
Its `LogNext` writes what `Record` allows and not only what the commands would write, as a
merge of clones can deliver any of it. **Overview** extends it with what the browser makes
of a proposal besides its diff: the bar (`CheckRows`, `AgentChip`, `Blocked`, `Origins`),
the lists of notes, the `Timeline`, the `BoardEntry`, and the two fingerprints. A hash
is the sequence of parts it is fed. A reply and a rationale have names of their own, derived
from what they say, so each is in one note (`Home`) and a reply answers one note (`ReplyTo`).

**Wire** is `review/src/wire`: `ToLine` and `EventLine` make a line of a record or an event,
`ParseLine` and `ParseEvent` read it by running the constructors again, `WithId` derives the
identity of a note, a reply or a resolution from its line. The sets `Notes`, `Replies`,
`Verdicts`, ..., `Events` are what the constructors accept. JSON is external: a line is its
fields.

**Replicas** is one proposal in several clones. `tip` is where the two notes refs of a clone
are, `versions` all versions any clone made with their ancestors. A command is three
steps: `Decide` loads the proposal and asks it for the line (`store.load` and
`proposal.apply` of `annotate.rs`, `resolve.rs`, `abandon.rs` and the others), `BeginAppend`
is git reading the note, by then perhaps another one, and `FinishAppend` git writing the whole of
it, as `git notes append` does. Commands that have done the first are in `deciding`, those
that have done the second in `writing`, and other commands, fetches and merges come between. `Fetch`,
`FastForward` and `Merge` are what people do with git, `CatSortUniq` the strategy
`Store::configure` asks for. A merged note is ordered by its text, and where that begins with
a digest (`Key`) the model allows every order. It reads with Wire and folds with
ReviewLog. Two variables are history, which no action looks at: `risked` has the lines an append under
way had not read when its note changed, `late` the endings that were appended to a note
that had one.

**Server** is `githerb review`: `Accept` is `Server::serve`; `ReadRequestLine`, `ReadHeader`,
`ReadEnd`, `ReadByte` and their refusals, `Gone` and `Torn` are `Request::parse`, piece by
piece as it arrives; `Dispatch` is the table of routes with the verbs each allows; `Lock`,
`Draw` and `Write` are the handlers, `Panic` what `catch_unwind` catches; `Reply`,
`OpenStream` and `EndStream` are the answers; `StopServing`, `Exit`, `EndPass` and `EndWait`
are `daemon.rs` with the runner's loop. Clients (`Send`, `Turn`) do as they like.

**Proposals** is `app/src/store.rs` with the eleven commands. `refs`, `events`,
`notes`, `branch` and `checkout` are the repository; `job[a]` is what the command
of process `a` decided from its reading and has still to write. `StartX` is the half
of command X that reads and refuses; `WriteRef`, `WriteEvent`, `WriteNote`,
`RunCheck`/`KillCheck` and the seven steps of a landing (`ReadTip`, `ReadCheckout`,
`FastForward` or `CompareAndSwap`, `WriteLanded`, `Follow`, `WriteRetarget`) are the
git processes that follow. `Crash` ends a command between any two of them. `Advance`
and `Checkout` are other tools. The guards are stated on the repository directly
(`Reads`, `Gate`, `AimsAt`, ...) and not through the fold; `GuardsAreTheFold` checks
that the two agree in every reachable state, which ties the module to ReviewLog.

**ChangeFeed** is what `web/src/watch.rs` promises whoever reads from it: a value
that is replaced, listeners that are told of every replacement after they
subscribed, told "nothing moved" only when that is so, and told when it is over.
**Watcher** is the code: `value`, `generation`, `poked` and `stopped` are the mutex's
contents, `probe` is where the probing thread is (`Look`, `Overdue`, `Probe`,
`Publish`, `TellEverybody`: one action per critical section or `notify_all`),
`reader` a thread in `Subscription::wait`, `writer` a request handler that writes and
then pokes, `stopper` the shutdown. Writing a value and signalling it are two
steps, as in the code, and spurious wake-ups happen. The refinement mapping takes
everybody who subscribed as `listening` and those whose `seen` generation is not the
current one as having `news`.

**Surface** extends ChangeFeed: the watcher is replaced by its promise, and the
streams (`stream.rs`: `Open`, `Top`, `Compare`, `Push`, `Park`, `Wake`, `Ping`) draw from
one cached snapshot (`surface.rs`: `Compare`, `Mark`, `Read` under its mutex) that
`Store::snapshot` reads in two pieces while the repository moves. `Refused` is a
git process that fails.

**Runner** is `crates/runner`. `Start` is `Lock::acquire`; `Recover` and `Clear`,
`Plan`, `Load`, `Claim`, the jobs (`BeginCheck`/`EndCheck`, `Apply`, `Rebase`, `AgentEnds`,
`Record`), `Answer`, `EndPass` and `Again` are a pass, one action for each time the log
or git is read or written. `AsksFor` is `jobs::next`. People hand over, annotate,
resolve, revise, end proposals and report the work of their own agents between any
two of these steps; runners crash and are shut down. The handover and work lines
have the meaning ReviewLog's `Dispatched` and `Activity` give them, reduced to the
latest of each, which is all those views look at.

**Patch** is `crates/patch`: `parse`, one line of the diff at a time. Each action is a line
git may print and the turn of the loop that reads it: `DiffLine`, `ModeLine`,
`RenameFromLine`, `RenameToLine`, `BinaryLine`, `OldNameLine`, `NewNameLine`,
`HunkHeader`, `ContentLine`, `NoNewlineLine`, `EndOfDiff`. `files`, `oldLine`, `newLine` and
`refused` are the parser's; the others are git's, and `shown` is the diff git means,
kept beside the parser so that the two can be compared. What git prints, and in which
order, is external: it is what the fixtures of the crate's tests and git itself show.
`TakeX` is what the parser does with a line by the prefix it matches, which for a line
of code need not be what git meant (`TakeContent`).

**Page** puts notes on what Patch has read: `IndexOf` is the map of paths of `Page::build`,
`Keys` the keys of a row, `KeyOf` the place of a note, explanation or decision, `Drawn`
and `Open` which of them are drawn and which mark their lines. `Annotate` writes about
lines of the diff, as the command line or the page shows it, `Inherit` is a note left on
an earlier revision, `ResolveNote` resolves one. `meant` remembers the lines the writer
had in mind and is read by the properties only.

The `MC` modules hold the small instances; the proofs are in `ReviewLogProofs`,
`ProposalsProofs`, `WatcherProofs`, `SurfaceProofs`, `RunnerProofs`, `PatchProofs` (Patch and
Page), `ReplicasProofs` (everything that is about logs and their lines: Wire, Replicas, LogFold
and Overview) and `ServerProofs`.

Composition: LogFold, Proposals and Replicas use ReviewLog, and Replicas Wire; Overview
extends LogFold; Watcher implements ChangeFeed and Surface runs on it; Page extends Patch.
Server has the threads and Surface what the streams among them do. Runner repeats the little of the log it needs
instead of extending Proposals, whose states would be too many beside two runners.

## The runs

| run | question | instance, and why it is enough |
|---|---|---|
| `fold` | Does the fold depend only on what the lines say, do gate and page say the same, and does whatever a page draws move its fingerprint? | Two revisions, three lines of eight kinds or events, three moments, two notes with a reply to each in either revision, two rationales, one required check of two, the last two lines of work shown. A disagreement is between two lines and the one they are about; three moments give earlier, same and later. |
| `landing` | What does a landing do to branches and to the stack? | Two proposals, one stacked on the other, two branches, two processes, pushes to `main`, four commands: a landing, a rival landing or push, a note and its resolution. |
| `commands` | Is every guard what the fold answers, and does a log that reads keep reading? | Every command and outside event, two proposals, two checks, two processes of which one revises, crashes, three commands: a note, the revision after it, and a second process late with what it read. |
| `lost_revision` | see *Findings* | The fewest commands that reach it. |
| `watcher` | Is a wake-up lost, and does everything end? | One reader, two handlers that write and poke, two writes (announced or not), one failing probe, and a choice in the first state whether timeouts ever fire, so that the liveness of poked writes is shown without them. |
| `surface` | Do pages catch up and never step back? | Two streams that share the cache, writes to two parts of the repository, a failing git, and again a choice whether heartbeats ever fire. Two streams are needed for one to fill the cache the other reads from. |
| `runner` | Are claims and handovers safe, and does the loop rest? | Two processes that may be the runner, at most two proposals, two moments, three things people do (each proposal they opened counts as one), one crash or shutdown. Two runners are enough to steal; with one proposal people have two more deeds, with two the second waits in a pass behind the first. |
| `two_agents` | see *Findings* | |
| `page` | Is every diff read as git means it, and is every note at its line? | Two files, two hunks each, three lines, a gap between hunks of one line, one note of any kind on any span of either side. The numbers of a hunk depend on the ones before it only through the header, and three lines give every pair of neighbours a third behind it. |
| `swallowed_line` | see *Findings* | |
| `replicas` | When does a log not read, and when does it not read the same in every clone? | Two clones, three lines of six kinds (one of them of a newer build), two moments, one merge that is no fast-forward, and any number of fetches and fast-forwards. A line lost or misplaced needs one merge of two histories; an answer without its note needs a note, the append that undoes it and the answer; one ending after another, and the same two lines sorted, two endings and a copy of the second: three appends each, and both are reached. |
| `server` | Is everybody answered about their own whole request, and does it stop? | Two connections: one sends any of twelve requests (every verb, every kind of route, every refusal, a body short, exact and too long), the other asks for a page; both stop, leave or read no more wherever they like; one panic; at most two headers and one byte of body. What one connection does to another goes through the mutex, the listener and the process, and takes two. |

The bounds are `MaxLines` of LogFold, `MaxCommands` (commands and outside events),
`MaxWrites` and `MaxFailures` of the web modules, `MaxEvents`, `MaxEnds` and `MaxClock`
of Runner, `MaxFiles`, `MaxHunks`, `MaxLines`, `MaxGap` and `MaxNotes` of the diff, `MaxNow`,
`MaxAppends` and `MaxMerges` of Replicas, and `MaxPanics` of Server (whose `MaxHeaders` and
`MaxBody` are the code's ceilings). They stop people, the outside world and the clock, never a
command that has begun, a thread or a runner.
Where everything bounded has happened the system may really be at rest, so these
runs say `CHECK_DEADLOCK FALSE`; that nothing is stuck before is what the liveness
properties show. Symmetry of the processes is used in `landing`, of the
files in `page` and of the clones in `replicas`; none of them checks liveness.

## Fairness

* **Watcher.** The probing thread, waiting readers, handlers that have written and the
  stopper take their next step (weak fairness): the mutex is only held for a few
  instructions. `Tick`, the timeout of the probing thread, is strongly fair, because a
  thread woken early goes back to sleep with a new timeout, and only an endless
  sequence of early wake-ups could postpone it; in the states where `ticking` is
  FALSE it never happens. Nobody is obliged to write, wait or stop.
* **Surface.** A stream's next step, the heartbeat, the watcher's publishing of what
  it probed and the second half of a shutdown. That the watcher publishes is not
  assumed out of thin air: it is `WritesArrive` and `ReadersAreTold` of Watcher.
* **Runner.** Every runner takes its next step, which includes that agents, checks
  and git end. The code does nothing to make an agent end except at a shutdown, so this
  is an assumption about agents: one that hangs keeps the runner and every
  proposal behind it. Weak fairness of `\E r : Start(r)` says that somebody starts
  a runner when none runs; after a crash nothing else hands back its claims. Nobody
  is obliged to write, and no runner has to end.
* **Server.** Every thread that has something to do takes its next step: to accept is one of
  them, because the loop looks every 50 ms; `Gone` is the timeout of a read, which comes
  when nothing else does. Handlers end because git does, and passes of the runner do.
  The main thread goes on once it has been told. Nothing is asked of clients: a
  thread whose client reads no more, its buffers full, waits for ever, and nothing rests
  on it. Nobody has to press ctrl-c, no listener has to break, no handler to panic.
* **Proposals**, **LogFold**, **Overview**, **Replicas**, **Patch** and **Page** have
  safety properties only.

## What is proved

All proofs are for any sets of processes, proposals, commits, readers, handlers,
runners and names, and any bounds, under the assumptions the modules name.

* `ReviewLogProofs!WhatALogSays`: which logs fold and what they fold into, without folding,
  for every sequence of revisions, events and notes. It folds exactly if there was an
  opening, no commit is two revisions (`NoneTwice`) and every line is about a revision
  and answers a note of its own revision or an earlier one (`LogsRead`), in whatever order
  a note has its lines; and then the proposal `Says` what its lines say: one comment for each
  name, every resolution, the last verdict of a name in the newest note, the lines of work and
  the asks (those of the newest note, in their order, behind those of older ones), the latest
  retarget and the first ending. It is about operators and not a machine. A fold of the library is a
  recursive function over sets of places still to come, which the provers cannot unroll, so
  it is taken apart first: `AFoldExists` chooses the function, `Runs` is the list of
  values it goes through, `LinesRun`, `AnswersRun`, `NotesRun` and `RevisionsRun` say that the
  folds of ReviewLog are the last of such a list, and the rest is induction on the number
  of lines read, along the order of the natural numbers (`StepByStep`).
* `ReplicasProofs!ReadsWhatItNames`, `OrderIsForgotten`, `PlacesAreForgotten` and
  `TheGateReadsTheHead`: `FoldAgrees`, `ArrivalOrderIsForgotten`, `WorkOrderIsForgotten` and
  `GateReadsTheHead`, for logs of any length over any commits, names and moments. All four
  follow from one invariant, `LogInv`: revisions are distinct and begin with the first commit, and
  the note of a commit holds lines written to that commit. The rest is `WhatALogSays` applied
  twice. A shuffled note has the same lines (`AShuffleHolds`), so both logs read or neither
  does (`BothRead`); what they say of open and resolved notes is a set of lines
  (`WhatIsSaid`). The name of a comment is a digest of what it is about, so it fixes the
  commit (`Home`); without that, which of two comments with one name is kept would depend on
  the order. Work is a list and not a set: only the head's own note has lines about the head
  (`HeadsWork`), and the latest of a list whose moments differ is the same wherever it
  stands (`LatestOfShuffled`). For the gate, `NothingBlocks` takes the chain of refusals apart,
  and `HeadChecks`, `CommentsOnHead` and `RowsOfChecks` say what each link, and each list of the
  page, comes to in lines.
* `ReviewLogProofs!OneLineMore`: a log with one line more, at the end of the note of any
  revision, reads as the same proposal but for what lines of its kind are about (`HasAlso`): a list
  has that line somewhere and is the same around it, or has kept an equal one and is the same
  (`Grown`); only a resolution changes what is resolved, only a verdict the checks and only an ask the
  asks. The fold is run twice, side by side, and the
  line travels through the rest of it (`NoteStays`, `TurnStays`, `EndStays`). Lines that are
  kept once must not be written again on a later revision (`Distinct`), where the earlier
  one would win; `Home` sees to that. The second half of the module is about
  `FlattenSeq`, taken apart like the folds.
* `ReplicasProofs!FingerprintsAreEnough`: `FingerprintsFollow`, for any checks, commits, names,
  moments, depth of the timeline and logs of any length. The hash has nothing between its parts,
  so two proposals far apart may well be hashed alike (an answer of one reads like a note of
  the other), and the theorem is about one step. A revision moves the head and an ending the state, which are hashed
  first (`HashStarts`). For a line, `OneLineMore` says where the two differ: a note,
  an answer, a chunk, a rationale on the head and work make their part of the hash longer
  while no other part changes (`FedElsewhere`), so the whole is longer (`HashLength`,
  `Parts`); a resolution changes one word at its note, in parts of the same length (`SplitAlike`); a
  verdict changes the names and words of the checks, of which a set written out in
  some order (`SetToSeq`) can be read back; an ask shows only in the last word. `Letters` says what the hash is
  spelt in: any words at all, so nothing is assumed of names or of how numbers are written.
  What is not hashed otherwise cannot have changed (`SamePage`).
* `ProposalsProofs!GuardsAreWhatTheFoldAnswers`: `GuardsAreTheFold`, with no assumption at all. What
  the commands of Proposals ask is what the code's aggregate answers in every state, also in
  those where the log does not read, so everything proved below about Proposals is about
  the fold of `snapshot.rs`. It rests on `WhatALogSays`, on `LinesAreAtHome` (an older verdict
  that still stands is about another revision than the head) and on `CommentsAreOne`:
  no two comments, written or still to be written, have one name, so what the aggregate
  keeps of each name is all there is.
* `ProposalsProofs!TypeCorrect`: `TypeOK`, from `ProposalsAssumption` alone. It is
  inductive as it stands.
* `ProposalsProofs!LandingsOnlyAdvance`: `BranchesOnlyAdvance`. The invariant added to
  the types is `TipUnderHead`: a landing between looking at the tip and moving it saw
  the tip below its head, so the compare-and-swap only moves forward (and the
  fast-forward is forward by itself).
* `ProposalsProofs!LandedEventsAreTrue`: `LandedIsOnTarget`, assuming that nobody switches
  branches (`"checkout" \notin Ops`). `OnItsWay` says that a landing that is about to
  write its event has its head on the target, and stays true because branches only
  advance. With switches, which the code asks about one process earlier,
  nothing is claimed: a switch between asking and merging (`store.rs:144`) moves
  another branch than the one the event names.
* `ProposalsProofs!RevisionsAreKept`: `NoRevisionIsLost` under `SoloRevision`, at most one
  process recording the revisions of each proposal. `NumbersAreFresh` says that a pending
  ref write is the next number or a repeated opening. Without the assumption the
  property is false, which `lost_revision` shows: the assumption is the weakest
  discipline its users need.
* `ProposalsProofs!GatesAreNotTakenBack`: `LandingAnswersWhatItSaw` under the same
  assumption. What a landing saw on the head was resolved when its gate was open
  because the lines about a commit are in the note of that commit (`LinesAreAtHome`),
  and stays resolved because no revision, and so no note, leaves the log
  (`SeenAreResolved`).
* `ProposalsProofs!TheLogKeepsReading`: `LogReads` under `SoloRevision` and `NoSharedCommits`
  (no commit may become a revision of two proposals; without it the property is
  false, see *Findings*). The invariant is `AnchorInv`: what a command is about to write
  names a note that is already on an earlier or the same revision wherever its commit is a
  revision, and a commit about to be recorded is not a revision yet.
* `ProposalsProofs!StackedProposalsFollow`: `StackFollows`, assuming `RivalsApart`, that no landing
  dies halfway or has the working copy switched under it, that proposals share no
  commits and that history has no cycles. `StackFollows` looks at the end of a story, so its
  invariant has to remember the whole of it. A branch nobody pushes to is where it began
  or where a landing left it (`MovedByLandings`). In the first case it has sat there since
  before the landing that is asked about, and whoever aimed at it is still on that landing's
  list or has been told (`AllAreFollowed`); told to land there again they were not, since
  proposals are only told to land where a landing was (`MovesAreLandings`), and one that
  left the branch at this head was of the same proposal. So both cases end with two
  landings of one proposal, one on the branch where the other had found something
  stacked. `LandingsApart` excludes that: a landing starts of an open proposal, one
  that is over has ended its own (`LandingsEnd`), and two under way at once are what
  `RivalsApart` is about. It asks nothing of landings of different proposals, of two that
  agree on the target, nor of one whose stack has ended, so it holds by itself where one
  process lands at a time, and TLC finds it true throughout the instance of `landing`. It
  is not true of every repository, and neither is `StackFollows` where two proposals are
  stacked on one (`landing` has one): see *Findings*.
* `SurfaceProofs!SnapshotsCanBeBelieved`, `ParkedStreamsMissNothing` and `NoPageGoesBack`: the
  three safety properties of Surface for any number of streams, parts of the repository and
  failures, from one invariant. `Halfway` says that a reading that has begun is already
  ahead of its mark in every part it has read, `ReadyToSend` that what is drawn is no older
  than what its client shows, `Parked` that a stream goes to sleep with the watcher's value
  or with news. `StreamsKeepToTheFeed` is the composition: the streams
  only do what ChangeFeed allows its readers, so what Watcher implements is enough.
* `WatcherProofs!NoWakeupIsLost` and `WatcherKeepsItsPromise`. `NobodySleepsThroughIt` is
  inductive with the types and `ReadersAsk` (a reader is inside `wait` exactly while
  it has no answer, and has not seen a generation still to come); the refinement
  uses it and goes step by step: publishing is ChangeFeed's `Publish`, answers are its
  answers, everything else stutters.
* `RunnerProofs!RunnerTypes`, `ClaimsAlwaysStand` and `FailuresAreNotRetried`. Neither
  property is inductive. `Held` says that whoever is not gone holds the lock, so one
  runner at a time has anything to keep; `InHand`, `OneEach` and `AskedAgain` say that
  a job in hand is no longer in the queue, that the queue has at most one job of a
  proposal, and that whatever is still to be claimed did not fail or was handed
  over since: a pass may act on an old reading because only the runner itself
  writes failures in its name, and never about a proposal it still has a job for.
  `AsksArePast` (no ask is dated in the future) keeps that so when somebody hands over.

* `PatchProofs!DiffsAreTyped`, `DiffsAreRead` and `PagesAreRead`: the parser's types, and
  `ReadsWhatGitShows` for diffs of any size under `Readable` (no line of code begins like
  a header and no name has a space in it; without either the property is false). The
  invariant is `ReadInv`: between two lines the parser has `shown`, except that the last
  file is as the header has told it so far (`Known`), and inside a hunk its two
  numbers are git's. `HunkHeaderNumbers` (what `start_of` makes of a range is the number of
  the hunk's first line, also when the range is empty) carries it over a header, and
  `NamesAreRead` shows that the two lines of names only repeat the first one.

* `PatchProofs!ThreadsAreOnOneRow`: `OneRowPerThread` for every diff, whatever its lines look
  like, because in what the parser has read no file has a number twice on one side
  (`NumbersInv`: its counters are past every line it has).
* `PatchProofs!NotesAreDrawnWhereTheyBelong` and `BlockedLinesAreMarked`: `NotesFindTheirLine` and
  `MarksAreTheOpenNotes` under `Readable` and without type changes (`~TypeChange`), the two
  cases where the runs show them false. With `ReadInv` the page is about git's own lines;
  `ShownInv` says that these have one file of each name and every number once, and
  `NotesInv` that a note's span is the lines its writer meant.
* `ReplicasProofs!RecordsComeBack` and `EventsComeBack`: whatever a constructor accepts is written
  as a line that is read back as exactly that, and, for notes, replies and resolutions,
  under the identity derived from it; no assumption on texts but that trimming twice is
  trimming once (`WireAssumption`), and none at all on the hash. One lemma for each kind of
  record: a field that is trimmed by its constructor is not blank and does not change when
  it is trimmed again (`SaidIsTrimmed`, `SaidIsNotBlank`), an optional one is blank or so.
  Replicas writes and reads through the same operators.
* `ReplicasProofs!NoAppendIsUndone`, `OnlyRacedNotesAreMissed` and `ANoteIsShownOnce`: three properties of
  Replicas for any number of clones, lines, moments and merges, under `ReplicasAssumption` (the
  constants are values the constructors accept, a digest is a name and not the empty text, and
  `abandoned` sorts before `landed`). They follow from one invariant, `Inv`, which is
  inductive where the properties are not. `ReadOrRisked` says that whatever an append under way
  did not read is counted as `risked`, so that writing its note undoes nothing else;
  `VersionsAreSound` that every version of every note, and not only the ones somebody
  holds, has the opening, and for every answer its note, there or among the risked (`Tended`, which
  survives unions and so merges); `DecisionsAreSound` that what a command has decided on answers
  a note that is in the log or risked, however the log moved since it was loaded (a log that
  loads is `Anchored`, which is `Tended` by its own lines alone: `ARecordShows`); and
  `AppendsAreSound` that this is also so of what an append has read and is about to write. A
  note then reads by `RecordsComeBack` and `ReadNote` keeps its lines in order
  (`ReviewLogProofs!ANoteKeeps`), so it folds exactly when it is `Anchored`, that is when it has
  no answers without their notes (`OrphansAreUntended`), and what it shows is what
  `WhatALogSays` says.
* `ReplicasProofs!ClonesAgree`: `SameLinesSameReview`, where clones may hold the same lines in
  any two orders that merging allows: both read or neither, and what they read is the same.
  Whether a proposal ended is the first ending in its note, so the order of two endings matters.
  `Sound` says that the endings of a note are in the order of their text (`EndsInOrder`) unless one
  of them was written late: others got there by a merge, which sorts. Logs with a late ending are
  excluded by the property, because of them it is false (*Findings*). The theorem assumes `NoCollisions`, that no two annotations have one digest: of two with
  the same name the fold shows the first, and that depends on the order. A name is twelve
  characters of a digest (`identity.rs`), so this is likely and not certain; the other
  three theorems do without.
* `ServerProofs!OnlyWholeRequests` and `NobodyElsesAnswer`: the two safety properties of
  Server, for any number of connections, requests of any length, any ceilings and any
  number of panics. The parser decides line by line what the properties say of the
  request as a whole, so neither is inductive: `Seen` says that while a head is read what
  has been read `Begins` the request and is what is kept, and in the body that what is
  read and what is left add up to the whole; `Routed`, that the handler is the one asked
  for and has done nothing yet; `Told`, that an answer on its way is deserved unless
  its client has left (a request cut off in a line may have been well formed). The
  lemmas `NoSuchLine`, `TooManyLines` and `HeadIsRead` decide the whole from the line in
  hand; where a head ends is a least element, which exists because the order of the natural
  numbers is well founded (`LeastOfSome`).

Only model-checked: every liveness property, as proofs of liveness need `ENABLED`, which the
prover does not treat.

## Findings

* `lost_revision`: two processes that revise one proposal at once are given the same
  number, and the ref is written without an expected value: the first commit is gone
  from the log. `store.rs` says nothing is edited and nothing is deleted.
* `swallowed_line`: the parser tries the prefixes of file headers on the lines of hunks.
  A removed line whose text begins with `-- ` (a comment of SQL, Lua or Haskell) is no
  line, an added one that begins with `++ ` renames its file, and the lines after it are
  numbered one too low, so a note on one of them is drawn somewhere else.
* `two_agents`: a pass claims without looking again, so it can call its agent on a
  head that somebody's own agent took in hand (`githerb work started`) after the pass
  had read the log. A pass does one job after another, each as long as an agent
  takes, so the window is long. `recover` takes such a claim for one of a dead runner.

Seven more disagreements were met while modelling and proving and are described here instead of
run, because the instances above leave them out or claim nothing about them:

* What is stacked on a proposal is told by comparing its branch with the landed head
  (`land.rs:89`), one after the other. r has landed on main, p and q are stacked on it on
  one branch, and p has been told. Two landings of p now run: one that read the log
  earlier, for the branch, and one for main. The latter looks at the branch before the
  former moves it, and r's landing looks after: q is told by neither and stays aimed at
  a branch that sits on a head that is on main. `land.rs` says that the one on top is
  simply told where it lands now. The attempt to prove `StackFollows` without
  `RivalsApart` came upon it. In `landing` one proposal is stacked; with a commit for
  each proposal (r's below those of p and q), r onto main, p and q onto the branch that sits
  at r's commit, all three open, nothing pushed, no checks, three processes,
  `Ops = {"land"}` and three commands, TLC finds `StackFollows` violated.
* Notes are kept by commit. A proposal opened at a commit that is already a revision of
  another one (`propose.rs:36`) inherits that one's answers without the notes they
  answer, does not fold, and takes the listing of every proposal with it. In the runs
  proposals do not share commits.
* An abandon between the branch move and the landed event of a landing wins
  (`snapshot.rs:204`), and the log says abandoned of work that is on the trunk.
* A command asks the fold whether its line fits, and git reads the note again when it writes.
  `reply.rs` says that refusing a line "here keeps that out of the log rather than leaving it
  to poison every later read", and `annotate.rs` that "a line that would not fold is a line that
  never reaches the log". Three commands in one clone: the first has git read an empty note,
  the second writes note Y, the third loads the log, sees Y and is allowed to resolve it;
  the first writes its note and undoes Y, and then git reads for the third and writes
  the answer behind it. The answer names a note nobody has, the proposal does not fold
  and takes the listing of every proposal with it. `OnlyRacesStopReading` says that there is no other
  way to it; that every clone's review reads (`\A c \in Clones : Review(c).ok`) TLC finds
  violated within the bounds of `replicas`.
* In the same window a proposal may end twice: an abandon is allowed while the proposal is
  open, a landing writes its event, and git appends the abandon to it. `snapshot.rs:188` says
  that the log is a set once two machines have merged it, so the timestamp orders it; but `end`
  (`snapshot.rs:204`) takes the first ending by its place. With the same abandon in a second
  clone, which merges the first one's log, `abandoned` is sorted before `landed`: two clones with
  the same lines, one of which says landed and the other abandoned. Without its premise on
  `late`, TLC finds `SameLinesSameReview` violated within the bounds of `replicas`.
* The last verdict of a check by its place in the note counts (`proposal.rs:221`), although
  `snapshot.rs:188` says that of a merged log the timestamp is what orders it. A merge
  sorts lines as text, and `failed` before `passed`, so an older pass may open the gate.
  With `"check"` in `Written` of Replicas two clones that ran one check each reach it.
* The end of the process cuts off handlers in the middle of their writes (`daemon.rs:146`),
  although `http.rs:105` says that connections already open are not interrupted; and a
  line that is not UTF-8 is met with silence, although `http.rs:117` says that a request the
  server cannot read is answered. Server has both as they are in the code.

Two smaller gaps of the page are outside the runs: a name with a space in it is read
with the tab git puts behind it, while the path of a note is trimmed, so notes on such a
file find no row (`Spaced`); and a file that becomes a link is two entries with one
path, of which the page looks up the later (`TypeChange`). A page also draws which checks
are required, and the configuration is in no fingerprint, so an open page is not redrawn
when it is edited.

Moments are whole seconds, and a handover in the very second of a failure counts as
answered by it; it has to be given again.

## Abstractions

* A commit, a proposal, a note and a check are model values; a line's text, its author
  and its place in a file are left out. The number of a command stands for its moment and
  for the content-derived identity of the lines it writes, so two commands never
  share a second in Proposals (they do in LogFold and Runner).
* Reading the log is atomic in Proposals and Runner, and so is a command's own reading of it in
  Replicas, which is a step of its own before git reads the note. In the code it is several
  git processes; what a torn reading does is the subject of Surface.
* Appending to a note is atomic in Proposals and Runner. In Replicas it is not, and two
  appends at once, or an append and a merge, lose a line (`risked`): `git notes append`
  writes the whole note it read and nobody compares. `LogReads` of Proposals is therefore about
  commands that are late with what they read and never about a line that was undone:
  with one, a log may stop reading (*Findings*).
* In Wire the trimming of ids and of branch names is the identity: the sets `Ids` and `Branches`
  hold names that are trimmed.
* Ref numbers are dense and branches are never deleted or rewound by others.
* In Runner a line is written in one step although the head is read first: a line
  that lands on a head replaced meanwhile is the same as one written just before.
  One check is declared, and the target branch of a proposal does not change.
* The clock of Runner does not step back.
* Of the text of a line of a diff only its beginning is kept. Index, similarity and
  mode-change lines match no prefix of the parser and are left out; names that git
  would quote, and names that hold ` b/`, are not in the model.
* A page is a function of the diff and the log; folding of large files, the views since a
  revision and the ids of rows are left out.
* A hash is what it is fed: collisions are not in the instances, nor the digests of identities (in
  `replicas` the digest of a line is the line's own fields). Of the proofs only `ClonesAgree`
  assumes that there are none.
* Clones share one clock, and merges of one note at a time; conflicts git cannot
  resolve do not exist under `cat_sort_uniq`.
* In Server a handler takes the mutex once, and a route is the kind of its handler: an id
  that names no proposal, or a form that does not parse, is one of the answers the handler
  may give. The route of events always opens a stream, although an id that is not well formed
  is answered with not found (`stream.rs:26`). Read timeouts may come at any time, as time is not modelled.

## Not modelled

HTML and its assets, forms and percent-decoding, the flags and the output of the command
line (`main.rs`, `cli.rs`, `format.rs`), the handover text, the configuration file, error
messages: text in, text out, with no state between two calls. Running git and parsing its
output other than diffs, and worktrees, whose outcomes are part of Runner. The answers an
agent writes to a file (`answers.rs`, with `speak` and `vouch` of the runner), which become
replies, resolutions and explanations like anybody else's. The since views of a page and the
folding of large files. The diff cache, which is immutable for a pair of commits. The
sentences and clock times of rail, bar and board.

What would come next: filing an agent's answers, and a configuration that cannot be read during
a pass.
