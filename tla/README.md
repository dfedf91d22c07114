# Change Pilot in TLA+

Change Pilot turns the raw change points of a release sheet into text that
customers may read. A batch client reads an `.xlsx`, sends every point to an HTTP
service, and writes the refined text back; the service checks the request, asks a
model provider, checks the reply and builds the customer line.

This directory specifies the parts of it that are concurrent, that retry, that
fail half way, or whose result depends on an order of events. TLC checks the
modules on small instances; TLAPS proves the main invariants for every instance.

Contents: [the system](#the-system) · [modules](#the-modules-and-the-code) ·
[runs](#the-runs) · [fairness](#fairness) · [proofs](#proofs) ·
[where code and documents disagree](#where-code-and-documents-disagree) ·
[not modelled](#what-is-not-modelled) · [plan](#plan) · [how to run](#how-to-run)

## The system

| Component | State it keeps | Operations | What is hard |
|---|---|---|---|
| **Batch client** `scripts/xlsx_change_pilot.py` | futures, slots (terminal lines), results, next index, counters, terminal lock | fill, render, wait, collect, refill; per worker: send, back off, retry, repaint | W threads and the main thread share slots and the screen; futures end in any order; one exception may end the batch |
| **HTTP service** `server/app/` | the runtime on `app.state` | size check, route, body, token, fields, answer, error handlers | the order of the checks; which handler sees which exception; clients that hang up |
| **Runtime** `runtime/runtime.py`, `compatible_client.py` | the semaphore of `CHANGE_PILOT_MAX_CONCURRENCY` | `transform_async`, provider call with the SDK's retries | permits and wakeups; an unbounded queue before the permit |
| **Output pipeline** `runtime/runtime.py`, `validator.py`, `response.py` | none | find the JSON, check it, split the version block, build the line | the order of the steps; text that is moved or replaced |
| **Version extractor** `runtime/version_extractor.py` | none (a loop over the text) | one line per connector | windows that cut words; five branches |
| **Launcher** `server/run.sh`, `log_tee.py` | pid file, supervisor and child processes | start, stop, restart, status; forward signals | races between shells and processes; stale pids; a drain longer than the stop's patience |
| **Log rotation** `log_tee.py` | the log and its backups | shift, copy, truncate | the child writes meanwhile; a crash between or within two copies |
| **Workbook** (same script as the client) | cells | read the points, write them back | which sheet, which header, merged cells |
| **Installer** `install.sh` | a directory tree for each harness | back up, link or copy | a failure at any step; runs within one second |
| Skill loading, prompts, CLI, logging, sensitive words, perf scripts | none that changes | | nothing interleaves |

They interact so: the client posts one request per attempt and waits at most 120 s
for it (`urlopen(timeout=…)`). The service holds the request, possibly in the
semaphore's queue, until the provider has answered; it is never told that a client
gave up. The provider is retried by the SDK inside the permit, so one permit may
be held for `(K+1)` provider timeouts, which may be longer than the client waits.
The launcher starts the service, knows it only through the pid of a supervisor,
and stops it by a signal to that pid.

What makes each component correct, and where it is stated:

* client: a terminal line belongs to one point and tells the truth about it; no
  more than W points in flight, and no fewer while there is work; results come back
  in workbook order, each with its own point's outcome; the totals add up; the
  batch ends;
* service: permits are conserved; nobody waits beside a free permit or is overtaken;
  only a fully checked request costs a provider call;
* both: what the service works on is awaited or known to be abandoned; nothing abandoned
  stays for ever; the batch ends whatever the service does;
* pipeline: which words that the model wrote for the customer are in the answer, and how
  often; versions come first; exactly the answers without a word are refused by the client;
* extractor: it reports versions the text has, never joins two components, misses
  no upgrade that is spelled out;
* JSON extraction: the payload is found among the first braces of a reply;
* launcher: between commands whatever runs is in the pid file; what a command
  reports is so; a stop takes effect;
* log rotation: lines are lost only at the oldest end, or in the moment between the
  copy and the truncation; what is left is in order; no file outgrows what is written
  under a supervisor by more than what is written without one;
* workbook: the change points are read, not some other column; each text shows in
  the row, and the sheet, that its point came from; other cells show what they showed;
* installer: nothing that stood in a place is lost; what is reported as installed is
  complete.

## The modules and the code

| Module | Models | Notes |
|---|---|---|
| `BatchClient` | `process_in_batches`, `process_one`, `_request_json`, `ApiStats` | one action per stretch of a thread that no other thread can be seen to divide |
| `BatchPromise` | the docstrings of the two functions | abstract: points are taken in order, at most W in flight, each decided once, all or an exception returned |
| `ChangePilotServer` | middleware, routes, error handlers, `transform_async`, `acomplete` | one action per stretch of a coroutine between two `await`s |
| `EndToEnd` | the two together | extends `BatchClient`, instantiates `ChangePilotServer` with the attempts as requests |
| `VersionExtractor` | `extract_version_changes` and its regular expressions | a text is a sequence of character classes |
| `OutputPipeline` | `OutputValidator.process`, `_finish` and its helpers, `call_change_pilot`'s last check | a text is a sequence of words, breaks and headers |
| `JsonExtract` | `_extract_json` and what it strips first | operators only; `OutputPipeline` uses them for its first step |
| `ChangeSheet` | `read_change_points`, `write_refined_to_module_column`, and `main` around them | the batch between the two is `BatchPromise`'s result |
| `Launcher` | `run.sh` and `log_tee.py` | shells, supervisors, uvicorn processes |
| `LogRotation` | `_shift_backups` and the loop of `log_tee.py` | the child writes between any two system calls |
| `Installer` | `install.sh` | one action per command that changes the tree |
| `BatchClient_proofs` | | theorems about the client, and that it implements `BatchPromise` |
| `ChangePilotServer_proofs`, `EndToEnd_proofs` | | theorems about the service, and that the composition implements both components |
| `ChangeSheet_proofs`, `Launcher_proofs`, `LogRotation_proofs`, `Installer_proofs` | | theorems about these modules |
| `Texts_proofs` | | theorems about the extractor and the pipeline, with `JsonExtract` |
| `MC*` | | constants for TLC |

**BatchClient.** `mainPc` is the place of the main thread in `process_in_batches`,
`worker[p]` that of the pool thread that runs `process_one` for point `p`. A point
stands for its future. `slots` and `slotOf` are the list of lines and the index
that the progress callback was bound to; `slotFutures` are the keys of
`slot_futures`; `done` what `wait` returned and was not yet collected. The initial
fill is two actions, `FillAppend` and `FillSubmit`, since it takes no lock and the
workers it has started already run; `paint` is two actions (`…Rise`, `…Write`) for
the same reason. `row` is the cursor relative to the first line of the block. What the
service answers is free: a text, a failure that is retried, or an exception that
no `except` names.

**ChangePilotServer.** A request is a record of what the service tells apart in it.
`Screen` is the order of the checks. `asyncio.Semaphore` is modelled as CPython
3.11 and later have it, with `_value`, the deque (`waiters` are those not yet woken;
a woken task is in stage `granted`) and `_wake_up_next`. `Conclude` is one step from
the provider's reply to the HTTP answer, because there is no `await` between them;
it releases the permit. `Disconnect` changes nothing but `gone`.

**EndToEnd.** Requests are pairs of a point and an attempt. `Send`, `Deliver`,
`CutOff` and `GiveUp` replace the free choice of `BatchClient` by what the server
did. `GiveUp` is the client's timeout or a lost connection: possible at any time,
since no clock is modelled, and the server goes on with the request.

**VersionExtractor.** Digits, letters, the dot, the space, a CJK character, other
punctuation and connectors are the classes the regular expressions distinguish; the nine
connectors are one class. `Tokens` is `finditer` of `_VERSION_TOKEN` with its
look-behind, `Window` the slice before a connector, `Line` the branches of the loop.

**OutputPipeline.** One behaviour is one reply on its way to the client: `Extract`
(`JsonExtract`), `Verify` or `Refuse` (the validator), `Finish` (the runtime), `Take`
(the client). `Title` and `Description` take `customer_output` as an object or as a string;
`partition` leaves a string without a full-width colon whole, and the fallback for the
description then takes the same text again. `HeaderLines`,
`Block` and `Body` are `_split_version_block` without the list of lines: the joined
lines from the first header on, and those before it, both stripped. The source comes
with the reply: its prefix is computed, the extractor's block is given. The words of the
model's text and those of the source have names of their own, so that the properties can
say where a word of the answer came from; `PipelineAssumption` says that neither text has
words of the other, that title, note and block have neither's, and that the block is empty or a header with nothing but lines behind
it (`build_version_block` writes the one full-width colon, versions hold none, and the
subjects' pattern has none). A customer text in which the model repeats a word of the
source is therefore left out: the properties could not tell whose word it is.

**JsonExtract.** A text is a sequence of tokens: braces, members, members whose string
has a brace in it, reasoning tags, fences, breaks, spaces, words. `Candidates` is the
scan from each of the first `MaxScan` braces to the one that closes it, which counts
braces in strings too; `IsPayload` is what `json.loads` and the key test make of one.

**ChangeSheet.** A workbook is a sequence of sheets, a sheet a function from cells to
the six classes of values that the script tells apart, with its merged ranges.
`Read` takes the header that `IsBest` of all, and `points` keeps of each row the value
that was read; `Refine` or `Raise` stands for the
batch; `Open` finds the module column; `Write` is one round of the loop over the
successful points, unmerging included. `origin` is the sheet the points came from,
which the code does not keep.

**Launcher.** Every read of the pid file and every `rm`, `kill` or write is a step
of a shell, so shells interleave. A supervisor is `booting` until it has launched
its child, `spawned` until its signal handlers are in place, then `watching`. `upset`
becomes true when the conditions that `run.sh` rests on are left: two commands at
once, a supervisor that is slower than the `sleep 1` of start or is signalled before
its handlers are installed, a rotation that raises. The properties are about runs
without it. The rotation is one step here, since a shell sees nothing of it.

**LogRotation.** A line is the number of its writing, and lines are the measure of
size. `index` walks down as `range(backup_count - 1, 0, -1)` does and ends with 0, the
log itself. `shutil.copyfile` is three actions: `OpenCopy` empties the destination,
`CopyLine` adds one line of the source, `EndCopy` is there when no more is to be found, so
that lines written meanwhile are copied too. `Crash`, a supervisor that is killed or raises,
may come between any two of these, and leaves the child running as an `orphan`, which has the
descriptor of the log and writes on. `Start` takes the files as they are and launches a
child beside one that is left. `alone` counts what is written while nobody looks at the
size, `starts` the supervisors. A copy that is cut within a line is taken for one cut
before it.

**Installer.** A place is a target directory. A tree is known by the run that made it
and by how many of the files it has and was begun to get. `place` is the one in work, `todo`
those that `main`'s loop has still to come to. `Look` is the test for the directory and the
reading of the clock, `Backup` the `mv`, which puts a directory into another one that
has its new name already; a link is one step, a copy two. `Die` may take the place of
any step: `die`, a command that fails under `set -e`, a signal, a crash.

`PROJECT.json` maps each definition to the lines it stands for.

## The runs

Bounds were chosen as the least at which the interesting case occurs; each is
named in its `MC` module or its `.cfg`.

| Run | Instance | Shows |
|---|---|---|
| `batch` | N=4 points, W=2, R=2, terminal | safety of slots, results, counters and cursor, refinement of `BatchPromise`, termination. Two waves of refills, a retiring slot, both workers painting |
| `server` | 4 requests of 7 kinds, M=2, K=1 | permits, wakeups, no overtaking, screening. Two served, one woken, one newcomer is the least that can overtake |
| `endtoend` | 2 points, W=2, R=1, M=1, K=0 | abandoned requests beside live ones, termination of the client without help, of the requests with a live server |
| `version` | up to 4 pieces before a connector, 4 continuations, window 5, gap 2 | what a line may say. The real window and gap are 40 and 8 characters; 5 and 2 let a version be cut, kept and missed within a text that TLC can enumerate |
| `version_window` | the same | **violated**: a version that the text does not have |
| `output` | texts of up to 4 pieces, scan limit 3; title, note, prefix, source versions present or not; the payload among braces, fences, tags and words | the payload is found, each word kept as often as stated, versions first, exactly the answers without a word refused by the client and paid for again. Both forms of `customer_output`, the string with and without a colon. Four pieces hold two headers with text before, between or after, or a header behind a break and a space; a scan of three (eight in the code) can be exhausted by a short draft |
| `launcher` | 2 shells, 2 launches | tracking, reports and stops with crashes, failed starts and stops that give up |
| `launcher_orphan` | 1 shell | **violated**: a stop that leaves uvicorn running |
| `rotation` | 3 backups, limit 1 line, bursts of 2, 9 lines, 3 supervisors | which lines are lost, their order, the size of the files, with copies cut after any line and children that outlive their supervisors. Three backups have a first, a middle and an oldest one; nine lines fill all of them and push some out; the third launch meets what two interrupted rotations left |
| `workbook` | one or two sheets of 4 rows and 2 columns; every place of the headers, six sets of merged ranges, one of them across columns | the right column is read, texts show in their rows, other cells keep theirs. Four rows hold a header and a range of three rows that a point may split anywhere |
| `workbook_sheet` | the same | **violated**: texts go to a sheet they do not come from |
| `installer` | 3 runs, 2 places, 2 files, 2 seconds | nothing lost, nothing half reported, with an end after every command. Three runs in a second are the least for which `mv` fails, two places the least for `all` to end between them |

Properties by module (the comments before them say more):

* `BatchClient`: `SlotsExclusive`, `SlotTellsTruth`, `InFlightBounded`,
  `ReturnedInOrder`, `ReportAddsUp`, `WorkConserving`, `CursorStaysNear`,
  `KeepsPromise`, `Terminates`.
* `ChangePilotServer`: `PermitsConserved`, `NoLostWakeup`, `SpendOnlyScreened`,
  `NoBarging` (an action property).
* `EndToEnd`: `LiveIsAwaited`, `BatchEnds`, `NothingLeftBehind`. That
  each component, seen alone, takes only its own steps is a theorem.
* `VersionExtractor`: `VersionsAreStated`, `NeverAcrossComponents`,
  `SpelledOutIsFound`.
* `OutputPipeline`: `CustomerTextKept`, `VersionsLead`, `BlankIsPaidAgain`,
  `PayloadIsFound`.
* `Launcher`: `ServerIsTracked`, `ReportsTruth`, `StopTakesEffect`.
* `LogRotation`: `OnlyOldestLost` (an action property), `FilesAreRuns`, `Bounded`.
* `ChangeSheet`: `ChangesAreRead`, `TextsAreShown`, `OthersKeepTheirs`.
* `Installer`: `NothingIsLost` (an action property), `InstalledIsWhole`.

The client, the service, the launcher, the rotation and the workbook have a type
invariant, each checked and proved; the installer's is part of its proofs. The extractor
and the pipeline have none: it would only repeat how their variables are assigned.

Each has a mutant: a definition with the bug that the property is there for, under
which TLC finds it violated. Mutated definitions stand before the originals and
begin with "Mutation of".

Deadlock is checked for the client, the composition and the launcher. It is off for
the service, the rotation and the installer, which stop when the instance's requests,
lines or runs are spent, and for the extractor, the pipeline and the workbook, which
stop at the end of their input.

`server` uses symmetry over requests, which none of its properties tells apart;
they are safety and action properties. `batch` orders its points by number and
`launcher` checks liveness, so neither has symmetry. `version`, `output` and
`workbook` have one initial state for each input.

## Fairness

* `BatchClient`: weak fairness of the main thread and of each worker. Threads are
  scheduled by the operating system; `urlopen` has a timeout, `sleep` ends. The
  timeout is per socket operation, so a service that keeps sending single bytes is
  outside this assumption. The lock needs no more than weak fairness: it is taken
  finitely often, since points and retries are finite.
* `EndToEnd`: fairness of the client's steps only for `BatchEnds`. A request that is
  not answered times out, so the batch needs nothing of the server.
  `NothingLeftBehind` has the server's fairness as its hypothesis: the event loop runs
  ready tasks, and a provider call ends (the SDK has a timeout).
* `Launcher`: shells run; a supervisor and uvicorn make progress; requests in flight
  end. Nobody has to type a command, and no failure has to happen.

## Proofs

Every theorem is checked by TLAPS to the last leaf, for every value of the constants
that the module's assumption allows. Each safety theorem has an inductive invariant
(`IInv`, `PInv`, `CursorInv`, …) made of named parts, one lemma per action or group of
actions, and a last step in temporal logic.

**The client** (`BatchAssumption`: N, W ≥ 1, R ≥ 0, which argument parsing and the reader
enforce; both kinds of terminal).

* `BatchClient_proofs`: `TypeCorrect`, `SlotsAreExclusive`, `SlotsTellTheTruth`,
  `InFlightIsBounded`. `SlotTellsTruth` alone is not inductive. A worker that reports a
  retry must know that its slot was not passed on meanwhile; that follows from
  `FuturesTrackWorkers` (a running point is one that main waits for) and
  `SlotsExclusive`. A refill must know that the next point is new, which is
  `SubmittedInOrder`. The fill has its own part, `FillInStep`: point i gets slot i, and
  the line exists before the submission. `AttemptsFit` ties the attempt to the place in
  the loop, `OutcomeAtEnd` the outcome. Points in flight are a subset of `slotFutures`,
  on which `slotOf` is an injection into `1..W`: hence the bound.
* There too: `WorkIsConserved`, `ReturnsInOrder` and `PromiseIsKept`, the
  refinement `Spec => KeepsPromise`. The invariant adds `SlotsFull` (after the fill, a
  free slot means that no point is left), `ResultsKept` (what main stopped waiting for
  has its outcome as its result), `AllCollected` and `EscapeSeen` (how main ends). Under
  the mapping `phaseBar`, `answerBar`, `listBar` a worker's start and end are the abstract
  take and decide, main's two ends are the abstract returns, all else stutters.
  `CountersAddUp` counts. Successful answers are the points with a
  text, failed ones are pairs of a point and an attempt, a subset of `Points \X (0..R)`;
  `CountsFit` equates both with the counters, and each answering step adds one element.
  `CursorIsNear` follows `row` through a paint: `PaintersLock` (one painter),
  `FirstLine`, and `CursorFits` (a paint starts no higher than the present block is long).

**The service** (`ServerAssumption`: finitely many requests, M ≥ 1, K ≥ 0; M ≥ 1 is not
checked by `load_settings`, see the hazards).

* `ChangePilotServer_proofs`: `TypeCorrect`, `PermitsAreConserved`, `NoWakeupIsLost`,
  `SpendsOnlyScreened`, `NobodyBarges`. The invariant adds `WaitersWait` (the queue has
  waiting requests, each once) and `OnlyScreened` (a request at the semaphore or beyond
  has passed `Screen`). The core is the lemma `WakeNextKeeps`: handing a permit to the
  next waiter keeps the sum of free and held permits and leaves no free permit beside a
  waiter that nobody announced it to. `NobodyBarges` needs `WaitingQueued` besides:
  whoever waits is in the queue, and only its head is woken.

**Both** (`EndToEndAssumption`).

* `EndToEnd_proofs`: `ClientImplementsItsSpec` and `ServerImplementsItsSpec` show that
  a behaviour of the composition is one of each component, so the theorems above carry over,
  the service's through an instance of its proof module with attempts as requests;
  `PermitsSurviveRetries` and `ClientStaysSafe` state the ones that matter.
  `LiveRequestsAreAwaited` comes from an invariant that relates the two states: a live
  request is the current attempt of a worker that waits for it.

**The launcher** (`LauncherAssumption`; any set of shells, any number of launches).

* `Launcher_proofs`: `Typing`, `ServersAreTracked`, `ReportsAreTrue`. The invariant is
  conditional: as long as `upset` is false, one shell at most is at work (`Alone`), a
  running child has a supervisor that watches it or is about to be killed with it
  (`ChildHasWriter`), what runs is in the pid file or in the hand of the shell at work
  (`Tracked`), and that shell knows what it has seen (`ShellKnows`). `upset` never becomes
  false again.

**Log rotation** (`RotationAssumption`: B ≥ 1).

* `LogRotation_proofs`: `Typing`, `RunsInOrder`, `LossIsAtTheEnds`, `SizeIsBounded`. `SavedBehind` is the
  point: the backup that the next copy will overwrite has been copied to the one behind
  it, however the rotation before was interrupted. `TailIsNewer` says what a truncation
  may lose, and `CopyReady` that the destination of a copy holds what its source begins
  with. `SizeInv` bounds the size: a supervisor that watches is a burst short of what it
  may leave behind, and of the two bursts each launch adds one is written before its first
  look. `RunsInOrder` has `RunsInv`: each file is a run, a later one begins no later, and the log
  ends with the line written last. A beginning of a file begins where the file does, so a copy
  that is cut keeps this; that one file then has beyond another only lines that are newer
  (`BeyondIsNewer`) follows for any two runs of which one begins no later.

**Workbook** (`SheetAssumption`; sheets of any size, any set of workbooks).

* `ChangeSheet_proofs`: `Typing`, `ReadingTakesMost`, `TextsShow`, `OthersKeep`.
  `WrittenAreTexts`, `WrittenShow` and `SplitForText` relate what is written to what is still
  merged; that merged ranges are disjoint does the rest.

**The installer** (`InstallerAssumption`: at least one file and one place).

* `Installer_proofs`: `AnnouncedIsWhole`, `NoTreeIsLost`. A tree may be altered only by the run
  that made it. So the invariant has to say that in the places which the present run still has
  to finish no other tree is its own (`OthersArePast`), nor anything announced there
  (`SaidIsPast`), and in which state of filling the tree in work is (`InPlace`).

**Texts** (`ExtractorAssumption`, `ScanAssumption`, `PipelineAssumption`; texts of any
length, windows and scan limits of any size).

* `Texts_proofs` has two halves. A set of naturals has a least member because the strict
  subset order on finite sets is well-founded (`Least`); without that no `CHOOSE` in these
  modules means anything, and induction over data is out of reach.
* The extractor: `OnlyStatedVersions`, `ComponentsStayApart`, `SpelledOutIsUpgrade`. `ReadInv` says
  that the lines so far are exactly those of the connectors passed. The rest is about one
  line: a match in a slice of the text is one of the whole text if the slice does not start
  within a word (`TokenOfSlice`), the first match behind and the last one before a connector
  exist and lie where they should, and what is beside a connector and a version is a match of
  the whole text, so that it cannot be longer or shorter than it was stated.
* The pipeline: `WordsAreKept`, `VersionsComeFirst`, `BlankIsWordless`. `PipeInv` says what each stage
  has made of the reply. The finished text is block, prefix or title, body and notice
  (`FinishedIs`); `Words` of a concatenation are those of its parts (`WordsConcat`, by counting
  places), stripping and normalizing keep them (`StripWords`, `NormalizeWords`), and the header lines
  of the normalized text are the `Headers` of the model's (`HeadersAre`), so that the split loses
  nothing. For a string the places are counted on both sides of its first colon. An answer is
  blank exactly if each of its parts shows nothing (`NothingIsShown`, `StripFillers`,
  `CutIsWordless`). `OneHeader` shows that after the split no second header is left at a line's start.
* The scan: `ObjectIsFound`. Stripping the reasoning block and the fence takes away
  only what stands before the object (`ShownIs`, `FenceIs`); then the depth of the whole text is that of
  the object plus a constant (`DepthConcat`), the object's own is at least one until its last
  token (`ObjectDepth`), so the brace that closes it is the one the scan stops at
  (`ObjectIsTried`).
* Trying to prove these corrected two of them. A string `customer_output` of a colon alone
  has a text that becomes blank, which the property of blank answers had not allowed for; and a
  reasoning tag that is opened before the object and closed only behind it takes the object with it,
  which `PayloadIsFound` had not listed. Both are now also among the inputs of `output`.

Some definitions name a literal (`LBrace`, `Blank`), since the SMT backend cannot read braces,
spaces and the like within a string.

Only model-checked: liveness (`Terminates`, `BatchEnds`, `NothingLeftBehind`,
`StopTakesEffect`), since the prover does not reason about fairness; and the violated runs,
which are counterexamples. Every other property that a run checks is stated by a theorem.

## Where code and documents disagree

| Run | Statement | What happens |
|---|---|---|
| `version_window` | "never invent an upgrade" (`version_extractor.py`) | the window starts inside a version such as `11.1`, and its tail `1.1` is reported |
| `launcher_orphan` | stopping the wrapper "also stops the server" (`log_tee.py`) | not before its signal handlers are in place |
| `workbook_sheet` | each text replaces the cell "of the row it came from" (`write_refined_to_module_column`) | of the row of that number, in the first sheet with a module column, which may be another |

Others are small enough to need no run, or are inputs of one of the models:

* `process_one` promises "retrying up to `max_retries` extra times"
  (`xlsx_change_pilot.py:301`). `IncompleteRead`, `BadStatusLine` and `UnicodeDecodeError`
  are in no `except` of `_request_json` (line 257): no retry follows, and `future.result()`
  (line 391) raises them out of `process_in_batches`, with all results. The outcome
  `escaped` of `BatchClient` is this, and `Raise` of `BatchPromise` what becomes of it.
* "`--force` moves the existing install to `<path>.bak.<timestamp>`" (`INSTALL.md:87`): in the
  same second as another forced install, `mv` puts it into that one's backup, and fails
  if there is one in it already. `Backup` has both; nothing is lost by it.
* The comment of `paint` (`xlsx_change_pilot.py:340-343`) wants the cursor not to rise above
  the block. The fill appends lines without the lock (line 380), and a retry that is painted
  meanwhile rises over them. `CursorStaysNear` bounds how far.
* `errors.py:3-9` promises its envelope for every public error. The handler of line 98 is
  registered for FastAPI's own class, and unknown paths and methods get Starlette's
  `{"detail": …}`; the model gives them a code of their own.
* `_normalize_html_artifacts` is there so that "customer-facing output never shows literal
  markup" (`runtime.py:179-180`); the title does not pass through it (line 83).
* The detail marker "must sit on the FIRST line" (`runtime.py:237`), yet the `\s*` behind the
  `#` lets it stand on the next one.
* "A failed point leaves its module cell untouched" (`xlsx_change_pilot.py:187`): if its
  cell shared a merged range with that of a refined row, it shows another text than
  before, or none.
* "the local `.run/` log is bounded" (`log_tee.py:16-17`): only while a supervisor looks at
  it. When the supervisor is killed, or a rotation raises (line 83), its child goes on
  appending through its own descriptor, and a start beside it adds a second writer. Supervisors
  that end before their first rotation leave what was written to the next one. `Bounded`
  says what is left of the bound, with the terms `starts` and `alone`.
* The reminder that no sheet has a module column (line 493) is also printed if every point
  failed.
* `server/README.md:100` wants a bearer token on every request; the health route, and its
  test, want none.

Three more things are as the models have them and nobody stated otherwise: a
`customer_output` that is a string without a full-width colon is its title and its description
at once (`validator.py:31-34`), so that its text is in the line twice, unless a change sheet's
prefix takes the title's place; a brace in a
string, a fence without a line break, or a reasoning tag that is closed only behind the
object, can make a valid reply unreadable (`runtime.py:101-107`, `110-122`, `126-133`); and a section title above the real header in the same
column wins over it, so that the header's row is read as a change point
(`xlsx_change_pilot.py:143-147`).

## What is not modelled

* The wording of texts, the prompt, the skill bundle and the sensitive-word patterns:
  `ChangePilotServer` sees a valid or an invalid reply, `OutputPipeline` words. Of
  `_extract_prefix_and_body` only the prefix; the body goes into the prompt.
* Time. A timeout may strike whenever its call is open; backoff lengths are left out.
  `LogRotation` knows of the second between two looks only what the child may write in
  it, `Installer` only that runs may share one.
* The synchronous `transform`/`complete` pair and the CLI: one call per process,
  nothing that interleaves or is kept.
* Skill loading runs once at start-up and yields a bundle or no runtime; both are initial
  states of `ChangePilotServer`. `validation/schema.py` is used by tests alone.
* `health_check` of the client, which precedes the batch and looks at nothing the batch
  depends on.
* What a power failure leaves of log files that were not on disk yet. Lines torn by a copy that
  is cut within one: the line is counted as not copied.
* Cancellation of handlers by uvicorn's shutdown; pid reuse; the creation of the
  virtual environment; `.env`; the `logs` and `foreground` commands of `run.sh`.
* In the installer: parsing errors, which change nothing; a place that is a file or a
  dangling link; two installers at once, for which nothing is promised.
* Formatting of log records, performance scripts, the systemd unit, skill data.

## Plan

Done, in this order: `BatchClient` with `BatchPromise`, `ChangePilotServer`,
`EndToEnd`, `Launcher`, `VersionExtractor`, `OutputPipeline`, `JsonExtract`, `ChangeSheet`,
`LogRotation`, `Installer`, and the proof modules.

Left, by how much depends on it:

1. The composition of `ChangeSheet` with `BatchClient` instead of with its promise: it would
   add the exception between two results, which `Raise` stands for now.
2. Uvicorn's graceful shutdown as a part of `EndToEnd`: a drain that the launcher gives up on
   while requests of the client are in flight.

## How to run

    tlc -config batch.cfg MCBatchClient
    tlc -config server.cfg MCChangePilotServer
    tlc -config rotation.cfg LogRotation
    tlapm BatchClient_proofs.tla
    tlapm Texts_proofs.tla
    tlapm EndToEnd_proofs.tla

Each `.cfg` belongs to one run of `PROJECT.json`, which names its module. The largest
state space has some millions of states; every run ends within minutes.
