----------------------------- MODULE BatchClient -----------------------------
(***************************************************************************)
(* The batch client of scripts/xlsx_change_pilot.py: the main thread keeps *)
(* at most W futures of process_one in a ThreadPoolExecutor, shows one     *)
(* terminal line (a slot) per future and refills a slot as its future ends.*)
(* A worker thread sends one change point to the service, retries it up to *)
(* R times, and repaints its slot from its own thread before each retry.   *)
(*                                                                         *)
(* Points are the indices 1..N of the list that read_change_points returns *)
(* (list index i of the code is point i+1), and a point stands for its     *)
(* future too, since each point is submitted once.  A slot is an index     *)
(* into the sequence slots.  What the service answers is chosen by the     *)
(* environment; the text of an answer is not modelled.                     *)
(***************************************************************************)
EXTENDS Integers, Sequences, FiniteSets

CONSTANTS N,           \* number of change points read from the workbook
          W,           \* --concurrency: slots, and threads of the pool
          R,           \* --retry: extra attempts per point
          Interactive  \* sys.stdout.isatty()

ASSUME BatchAssumption ==
  /\ N \in Nat \ {0}          \* read_change_points raises on an empty list
  /\ W \in Nat \ {0}          \* parser.error on --concurrency < 1
  /\ R \in Nat                \* parser.error on --retry < 0
  /\ Interactive \in BOOLEAN

Points == 1..N

VARIABLES
  mainPc,        \* where the main thread stands in process_in_batches
  nextIndex,     \* next_index: the next point to submit
  slots,         \* the progress lines, in screen order
  slotFutures,   \* keys of slot_futures: the points main still waits for
  slotOf,        \* the slot handed to submit_one, 0 before the submission
  done,          \* what is left of the set the last wait() returned
  results,       \* results, by point
  worker,        \* where each point's process_one stands
  attempt,       \* the attempt process_one is in, counted from 0
  outcome,       \* what process_one returned or raised, per point
  stats,         \* ApiStats
  terminalLock,  \* who holds terminal_lock
  blockRendered, \* block_rendered
  row            \* the cursor, in lines below the line the block starts on

mainVars == <<mainPc, nextIndex, slotFutures, slotOf, done, results>>
termVars == <<slots, terminalLock, blockRendered, row>>
workVars == <<worker, attempt, outcome, stats>>
vars == <<mainVars, termVars, workVars>>

-----------------------------------------------------------------------------
Free == -1    \* nobody holds terminal_lock
Main == 0     \* the main thread holds it; a point p: p's worker holds it

\* The three progress messages.
Processing(p)  == [kind |-> "processing", point |-> p, attempt |-> 0]
Retrying(p, a) == [kind |-> "retrying",   point |-> p, attempt |-> a]
Waiting        == [kind |-> "waiting",    point |-> 0, attempt |-> 0]

Messages == [kind : {"processing", "retrying", "waiting"},
             point : 0..N, attempt : 0..R]

\* Where process_one can stand: not submitted, in the pool's queue, in urlopen,
\* in sleep, before and inside report_retry, returned, its future resolved.
WorkerStates == {"none", "queued", "call", "backoff", "report", "paint",
                 "finish", "done"}

Submitted == {p \in Points : worker[p] # "none"}
Finished  == {p \in Points : worker[p] = "done"}

\* Points a pool thread is working on.
Busy == {p \in Points : worker[p] \notin {"none", "queued", "done"}}

Init ==
  /\ mainPc = "append"
  /\ nextIndex = 1
  /\ slots = <<>>
  /\ slotFutures = {}
  /\ slotOf = [p \in Points |-> 0]
  /\ done = {}
  /\ results = [p \in Points |-> "none"]
  /\ worker = [p \in Points |-> "none"]
  /\ attempt = [p \in Points |-> 0]
  /\ outcome = [p \in Points |-> "none"]
  /\ stats = [total |-> 0, failed |-> 0]
  /\ terminalLock = Free
  /\ blockRendered = FALSE
  /\ row = 0

-----------------------------------------------------------------------------
(* paint, in the two parts another thread can come between: slots.append   *)
(* of the initial fill does not take terminal_lock.                        *)

\* Mutation of PaintRise: up from the start.
PaintRiseAlways ==
  /\ row' = IF Interactive THEN row - Len(slots) ELSE row
  /\ blockRendered' = (blockRendered \/ Interactive)

\* First part: go up over the lines of the block, if it was drawn before.
PaintRise ==
  /\ row' = IF Interactive /\ blockRendered THEN row - Len(slots) ELSE row
  /\ blockRendered' = (blockRendered \/ Interactive)

\* Second part: write every line of the block.
PaintWrite == row' = IF Interactive THEN row + Len(slots) ELSE row

-----------------------------------------------------------------------------
(* The main thread.                                                        *)

\* Mutation of MorePoints: the last point is forgotten.
MorePointsButLast == nextIndex < N

MorePoints == nextIndex <= N
\* Mutation of FillMore: one future too many.
FillOneTooMany == MorePoints /\ Cardinality(slotFutures) <= W

FillMore == MorePoints /\ Cardinality(slotFutures) < W

\* Mutation of Submit: every callback is bound to the first slot.
SubmitFirstSlot(p, slot) ==
  /\ worker' = [worker EXCEPT ![p] = "queued"]
  /\ slotOf' = [slotOf EXCEPT ![p] = 1]
  /\ nextIndex' = nextIndex + 1

\* executor.submit(process_one, ...) with a progress callback bound to slot.
Submit(p, slot) ==
  /\ worker' = [worker EXCEPT ![p] = "queued"]
  /\ slotOf' = [slotOf EXCEPT ![p] = slot]
  /\ nextIndex' = nextIndex + 1

\* Initial fill: a new line for the next point ...
FillAppend ==
  /\ mainPc = "append"
  /\ FillMore
  /\ slots' = Append(slots, Processing(nextIndex))
  /\ mainPc' = "submit"
  /\ UNCHANGED <<nextIndex, slotFutures, slotOf, done, results,
                 terminalLock, blockRendered, row, workVars>>

\* ... and its future, in slot len(slot_futures) (numbered from 1 here).
FillSubmit ==
  /\ mainPc = "submit"
  /\ Submit(nextIndex, Cardinality(slotFutures) + 1)
  /\ slotFutures' = slotFutures \cup {nextIndex}
  /\ mainPc' = "append"
  /\ UNCHANGED <<done, results, termVars, attempt, outcome, stats>>

FillDone ==
  /\ mainPc = "append"
  /\ ~FillMore
  /\ mainPc' = "render"
  /\ UNCHANGED <<nextIndex, slotFutures, slotOf, done, results,
                 termVars, workVars>>

RenderRise ==
  /\ mainPc = "render"
  /\ terminalLock = Free
  /\ terminalLock' = Main
  /\ PaintRise
  /\ mainPc' = "paint"
  /\ UNCHANGED <<nextIndex, slotFutures, slotOf, done, results, slots,
                 workVars>>

RenderWrite ==
  /\ mainPc = "paint"
  /\ PaintWrite
  /\ terminalLock' = Free
  /\ mainPc' = IF slotFutures = {} THEN "leave" ELSE "wait"
  /\ UNCHANGED <<nextIndex, slotFutures, slotOf, done, results, slots,
                 blockRendered, workVars>>

\* concurrent.futures.wait(slot_futures, FIRST_COMPLETED)
Wait ==
  /\ mainPc = "wait"
  /\ slotFutures \cap Finished # {}
  /\ done' = slotFutures \cap Finished
  /\ mainPc' = "collect"
  /\ UNCHANGED <<nextIndex, slotFutures, slotOf, results, termVars, workVars>>

\* Mutation of Keep: results.append instead of results[point_index].
KeepAppending(p) ==
  LET end == 1 + Cardinality({q \in Points : results[q] # "none"})
  IN  results' = [results EXCEPT ![end] = outcome[p]]

\* results[point_index] = (point, output)
Keep(p) == results' = [results EXCEPT ![p] = outcome[p]]

\* Mutation of Refill: the line of the finished point stays.
RefillSilently(p) ==
  /\ MorePoints
  /\ Submit(nextIndex, slotOf[p])
  /\ slotFutures' = (slotFutures \ {p}) \cup {nextIndex}
  /\ UNCHANGED slots

\* Hand p's slot to the next point ...
Refill(p) ==
  /\ MorePoints
  /\ slots' = [slots EXCEPT ![slotOf[p]] = Processing(nextIndex)]
  /\ Submit(nextIndex, slotOf[p])
  /\ slotFutures' = (slotFutures \ {p}) \cup {nextIndex}

\* ... or to nobody.
Retire(p) ==
  /\ ~MorePoints
  /\ slots' = [slots EXCEPT ![slotOf[p]] = Waiting]
  /\ slotFutures' = slotFutures \ {p}
  /\ UNCHANGED <<worker, slotOf, nextIndex>>

\* One future of done: pop it, keep its result, pass its slot on.  The set is
\* iterated in no particular order; the slot changes under terminal_lock.
Collect(p) ==
  /\ mainPc = "collect"
  /\ p \in done
  /\ outcome[p] # "escaped"
  /\ terminalLock = Free
  /\ done' = done \ {p}
  /\ Keep(p)
  /\ mainPc' = IF done = {p} THEN "render" ELSE "collect"
  /\ Refill(p) \/ Retire(p)
  /\ UNCHANGED <<terminalLock, blockRendered, row, attempt, outcome, stats>>

\* future.result() raises what escaped from process_one: the exception leaves
\* the loop, and leaving the with block waits for every submitted future.
Raise(p) ==
  /\ mainPc = "collect"
  /\ p \in done
  /\ outcome[p] = "escaped"
  /\ slotFutures' = slotFutures \ {p}
  /\ done' = done \ {p}
  /\ mainPc' = "shutdown"
  /\ UNCHANGED <<nextIndex, slotOf, results, termVars, workVars>>

\* Mutation of ShutdownDone: the exception does not wait for the pool.
ShutdownNow ==
  /\ mainPc = "shutdown"
  /\ mainPc' = "raised"
  /\ UNCHANGED <<nextIndex, slotFutures, slotOf, done, results,
                 termVars, workVars>>

ShutdownDone ==
  /\ mainPc = "shutdown"
  /\ Submitted = Finished
  /\ mainPc' = "raised"
  /\ UNCHANGED <<nextIndex, slotFutures, slotOf, done, results,
                 termVars, workVars>>

\* All futures collected: blank the block, write one closing line, return.
Leave ==
  /\ mainPc = "leave"
  /\ terminalLock = Free
  /\ mainPc' = "returned"
  /\ row' = IF Interactive THEN row + 1 ELSE row
  /\ UNCHANGED <<nextIndex, slotFutures, slotOf, done, results, slots,
                 terminalLock, blockRendered, workVars>>

MainNext ==
  \/ FillAppend \/ FillSubmit \/ FillDone
  \/ RenderRise \/ RenderWrite \/ Wait
  \/ \E p \in Points : Collect(p) \/ Raise(p)
  \/ ShutdownDone \/ Leave

-----------------------------------------------------------------------------
(* The worker of point p: process_one on a thread of the pool.             *)

\* A free thread takes the oldest queued future and sends the first request.
Start(p) ==
  /\ worker[p] = "queued"
  /\ Cardinality(Busy) < W
  /\ \A q \in Points : q < p => worker[q] # "queued"
  /\ worker' = [worker EXCEPT ![p] = "call"]
  /\ UNCHANGED <<mainVars, termVars, attempt, outcome, stats>>

\* Mutation of AnswerText: a success after a retry is not recorded.
AnswerTextUncounted(p) ==
  /\ worker[p] = "call"
  /\ stats' = [stats EXCEPT !.total = IF attempt[p] = 0 THEN @ + 1 ELSE @]
  /\ outcome' = [outcome EXCEPT ![p] = "text"]
  /\ worker' = [worker EXCEPT ![p] = "finish"]
  /\ UNCHANGED <<mainVars, termVars, attempt>>

\* call_change_pilot returned the refined text.
AnswerText(p) ==
  /\ worker[p] = "call"
  /\ stats' = [total |-> stats.total + 1, failed |-> stats.failed]
  /\ outcome' = [outcome EXCEPT ![p] = "text"]
  /\ worker' = [worker EXCEPT ![p] = "finish"]
  /\ UNCHANGED <<mainVars, termVars, attempt>>

\* call_change_pilot raised RequestFailure: back off, or give up.
AnswerFail(p) ==
  /\ worker[p] = "call"
  /\ stats' = [total |-> stats.total + 1, failed |-> stats.failed + 1]
  /\ \/ /\ attempt[p] < R
        /\ worker' = [worker EXCEPT ![p] = "backoff"]
        /\ UNCHANGED outcome
     \/ /\ attempt[p] >= R
        /\ worker' = [worker EXCEPT ![p] = "finish"]
        /\ outcome' = [outcome EXCEPT ![p] = "failed"]
  /\ UNCHANGED <<mainVars, termVars, attempt>>

\* The answer broke off or was not UTF-8: http.client.IncompleteRead and
\* UnicodeDecodeError pass every except clause of _request_json, and the one
\* of process_one, and end in the future.
AnswerEscape(p) ==
  /\ worker[p] = "call"
  /\ outcome' = [outcome EXCEPT ![p] = "escaped"]
  /\ worker' = [worker EXCEPT ![p] = "finish"]
  /\ UNCHANGED <<mainVars, termVars, attempt, stats>>

\* The backoff is over: the next round of the loop calls progress(attempt).
Retry(p) ==
  /\ worker[p] = "backoff"
  /\ attempt' = [attempt EXCEPT ![p] = @ + 1]
  /\ worker' = [worker EXCEPT ![p] = "report"]
  /\ UNCHANGED <<mainVars, termVars, outcome, stats>>

\* report_retry: under terminal_lock, set this slot's line and paint ...
ReportRise(p) ==
  /\ worker[p] = "report"
  /\ terminalLock = Free
  /\ terminalLock' = p
  /\ slots' = [slots EXCEPT ![slotOf[p]] = Retrying(p, attempt[p])]
  /\ PaintRise
  /\ worker' = [worker EXCEPT ![p] = "paint"]
  /\ UNCHANGED <<mainVars, attempt, outcome, stats>>

\* Mutation of ReportWrite: terminal_lock is not released.
ReportWriteLocked(p) ==
  /\ worker[p] = "paint"
  /\ PaintWrite
  /\ worker' = [worker EXCEPT ![p] = "call"]
  /\ UNCHANGED <<mainVars, slots, terminalLock, blockRendered, attempt, outcome, stats>>

\* ... then send the request again.
ReportWrite(p) ==
  /\ worker[p] = "paint"
  /\ PaintWrite
  /\ terminalLock' = Free
  /\ worker' = [worker EXCEPT ![p] = "call"]
  /\ UNCHANGED <<mainVars, slots, blockRendered, attempt, outcome, stats>>

\* The pool thread stores the result or the exception in the future.
Finish(p) ==
  /\ worker[p] = "finish"
  /\ worker' = [worker EXCEPT ![p] = "done"]
  /\ UNCHANGED <<mainVars, termVars, attempt, outcome, stats>>

WorkerNext(p) ==
  \/ Start(p) \/ AnswerText(p) \/ AnswerFail(p) \/ AnswerEscape(p)
  \/ Retry(p) \/ ReportRise(p) \/ ReportWrite(p) \/ Finish(p)

-----------------------------------------------------------------------------
\* The call is over; the process goes on in main(), outside this module.
Terminated == mainPc \in {"returned", "raised"} /\ UNCHANGED vars

Next == MainNext \/ (\E p \in Points : WorkerNext(p)) \/ Terminated

\* Threads are scheduled by the operating system, a request ends within its
\* socket timeout, a backoff ends, and terminal_lock is taken finitely often.
Fairness ==
  /\ WF_vars(MainNext)
  /\ \A p \in Points : WF_vars(WorkerNext(p))

Spec == Init /\ [][Next]_vars
FairSpec == Spec /\ Fairness

-----------------------------------------------------------------------------
(* What process_in_batches hands to main().                                *)

\* The positions of results that are not None.
Kept == {p \in Points : results[p] # "none"}

\* The i-th of them.
KeptAt(i) == CHOOSE p \in Kept : Cardinality({q \in Kept : q < p}) = i - 1

\* [result for result in results if result is not None]
Returned == [i \in 1..Cardinality(Kept) |-> <<KeptAt(i), results[KeptAt(i)]>>]

SuccessCount == Cardinality({p \in Points : results[p] = "text"})

-----------------------------------------------------------------------------
(* Properties.                                                             *)

\* Type invariant.
TypeOK ==
  /\ mainPc \in {"append", "submit", "render", "paint", "wait", "collect",
                 "shutdown", "leave", "returned", "raised"}
  /\ nextIndex \in 1..(N + 1)
  /\ slots \in Seq(Messages) /\ Len(slots) <= W
  /\ slotFutures \in SUBSET Points
  /\ slotOf \in [Points -> 0..W]
  /\ done \in SUBSET slotFutures
  /\ results \in [Points -> {"none", "text", "failed"}]
  /\ worker \in [Points -> WorkerStates]
  /\ attempt \in [Points -> 0..R]
  /\ outcome \in [Points -> {"none", "text", "failed", "escaped"}]
  /\ stats \in [total : Nat, failed : Nat]
  /\ terminalLock \in {Free, Main} \cup Points
  /\ blockRendered \in BOOLEAN
  /\ row \in Int

\* Two points that main waits for never share a slot, so no worker repaints
\* the line of another point: a slot is passed on only after its future was
\* popped (xlsx_change_pilot.py:389-397), by threads that never see the map.
SlotsExclusive ==
  \A p, q \in slotFutures : slotOf[p] = slotOf[q] => p = q

\* "--concurrency": at most W points are queued or being worked on, although
\* no counter says so and slots are what limits the submissions
\* (xlsx_change_pilot.py:330, 377-397).
InFlightBounded ==
  Cardinality({p \in Points : worker[p] \notin {"none", "done"}}) <= W

\* A slot's line is about the point that holds it, and a retry line gives the
\* attempt the worker really is in: the line is written by the main thread
\* before the submission and by the worker after it, never by a worker whose
\* slot was passed on (xlsx_change_pilot.py:361-365, 380-382, 393-397).
SlotTellsTruth ==
  \A p \in slotFutures :
    /\ slotOf[p] \in DOMAIN slots
    /\ slots[slotOf[p]].point = p
    /\ worker[p] # "report" =>
         slots[slotOf[p]] = IF attempt[p] = 0 THEN Processing(p)
                            ELSE Retrying(p, attempt[p])

\* What process_in_batches returns is in the order of the list of points,
\* whatever the order the futures ended in, has every point, and each with
\* what its own process_one returned: main() numbers the lines with enumerate
\* and writes each one back to its row (xlsx_change_pilot.py:409, 477).
ReturnedInOrder ==
  mainPc = "returned" => Returned = [p \in Points |-> <<p, outcome[p]>>]

\* The counters that main() prints agree with the successes it counts, though
\* the threads count attempts and main counts points: every attempt that did
\* not fail gave one point its text (xlsx_change_pilot.py:57-62, 476-486).
ReportAddsUp ==
  mainPc = "returned" =>
    /\ stats.total - stats.failed = SuccessCount
    /\ stats.failed <= N * (R + 1)

\* "Keep the configured number of requests in flight": when main goes to wait,
\* fewer than W points are submitted only if none is left to submit
\* (xlsx_change_pilot.py:330, 378-400).
WorkConserving ==
  mainPc \in {"render", "paint", "wait"} /\ nextIndex <= N =>
    Cardinality(slotFutures) = W

\* The batch ends: process_in_batches returns, or raises.
Terminates == <>(mainPc \in {"returned", "raised"})

\* The refinement mapping: what the promise sees of a point, of the call and of
\* its value.
phaseBar ==
  [p \in Points |-> IF worker[p] = "none" THEN "waiting"
                    ELSE IF worker[p] # "done" THEN "inflight" ELSE outcome[p]]
answerBar == IF mainPc \in {"returned", "raised"} THEN mainPc ELSE "none"
listBar == IF mainPc = "returned" THEN Returned ELSE <<>>

\* The promise of the docstrings, without slots, threads and retries.
Promise == INSTANCE BatchPromise WITH
  phase <- phaseBar, answer <- answerBar, list <- listBar

\* The client implements its promise.
KeepsPromise == Promise!Spec

\* "rising early would climb into those logs and wipe them"
\* (xlsx_change_pilot.py:340-343): a retry reported while main still fills the
\* slots rises over lines that were never drawn, since slots.append takes no
\* lock, but by no more than the W - 1 appended since the block's first line,
\* and such overshoots never add up (xlsx_change_pilot.py:339-355, 378-383).
CursorStaysNear == row >= 1 - W

=============================================================================
