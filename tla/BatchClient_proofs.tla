------------------------- MODULE BatchClient_proofs -------------------------
(***************************************************************************)
(* Proofs about BatchClient, for every number of points, slots and retries:*)
(* the slots, the refinement of BatchPromise, and what the client tells its*)
(* user, the counters of main() and the place of the progress block.       *)
(***************************************************************************)
EXTENDS BatchClient, TLAPS, FiniteSetTheorems, SequenceTheorems

-----------------------------------------------------------------------------
(* The inductive invariant, in parts.                                      *)

\* Points are submitted in order: those below nextIndex, and no others.
SubmittedInOrder ==
  \A p \in Points : worker[p] = "none" <=> p >= nextIndex

\* main waits for every point that was submitted and is not done, and only
\* for submitted ones; what wait() returned is done.
FuturesTrackWorkers ==
  /\ \A p \in slotFutures : worker[p] # "none"
  /\ \A p \in Points : worker[p] \notin {"none", "done"} => p \in slotFutures
  /\ \A p \in done : worker[p] = "done"

\* During the fill nothing is popped: point i has slot i, and the next line
\* is there before the next point is submitted.
FillInStep ==
  /\ mainPc \in {"append", "submit"} =>
       /\ slotFutures = 1..(nextIndex - 1)
       /\ \A p \in slotFutures : slotOf[p] = p
       /\ done = {}
  /\ mainPc = "append" => Len(slots) = nextIndex - 1
  /\ mainPc = "submit" =>
       /\ nextIndex <= N
       /\ Len(slots) = nextIndex
       /\ slots[nextIndex] = Processing(nextIndex)

\* The attempt of a worker, as its position in the loop of process_one allows.
AttemptsFit ==
  \A p \in Points :
    /\ worker[p] \in {"none", "queued"} => attempt[p] = 0
    /\ worker[p] = "backoff" => attempt[p] < R
    /\ worker[p] = "report" => attempt[p] > 0

\* Only a worker that is at its end, or past it, has an outcome.
OutcomeAtEnd ==
  \A p \in Points : outcome[p] = "none" <=> worker[p] \notin {"finish", "done"}

IInv ==
  /\ TypeOK
  /\ SubmittedInOrder
  /\ FuturesTrackWorkers
  /\ FillInStep
  /\ AttemptsFit
  /\ OutcomeAtEnd
  /\ SlotsExclusive
  /\ SlotTellsTruth

-----------------------------------------------------------------------------
(* Facts about the pieces.                                                 *)

\* The three messages are messages.
LEMMA MessageTypes ==
  /\ \A p \in Points : Processing(p) \in Messages
  /\ \A p \in Points, a \in 0..R : Retrying(p, a) \in Messages
  /\ Waiting \in Messages
BY BatchAssumption DEF Points, Processing, Retrying, Waiting, Messages

\* Init establishes the invariant.
LEMMA InitIInv == Init => IInv
<1> SUFFICES ASSUME Init PROVE IInv
  OBVIOUS
<1>1. TypeOK
  <2>1. slots \in Seq(Messages) /\ Len(slots) <= W
    BY BatchAssumption DEF Init
  <2>2. nextIndex \in 1..(N + 1) /\ stats \in [total : Nat, failed : Nat]
    BY BatchAssumption DEF Init
  <2>3. slotOf \in [Points -> 0..W] /\ attempt \in [Points -> 0..R]
    BY BatchAssumption DEF Init
  <2>4. results \in [Points -> {"none", "text", "failed"}]
    BY DEF Init
  <2>5. worker \in [Points -> WorkerStates]
    BY DEF Init, WorkerStates
  <2>6. outcome \in [Points -> {"none", "text", "failed", "escaped"}]
    BY DEF Init
  <2>7. slotFutures \in SUBSET Points /\ done \in SUBSET slotFutures
    BY DEF Init
  <2>8. terminalLock \in {Free, Main} \cup Points
    BY DEF Init
  <2>9. blockRendered \in BOOLEAN
    BY Zenon DEF Init
  <2>10. row \in Int /\ mainPc = "append"
    BY DEF Init
  <2> QED
    BY <2>1, <2>2, <2>3, <2>4, <2>5, <2>6, <2>7, <2>8, <2>9, <2>10 DEF TypeOK
<1>2. SubmittedInOrder /\ FuturesTrackWorkers /\ AttemptsFit /\ OutcomeAtEnd
  BY DEF Init, SubmittedInOrder, FuturesTrackWorkers, AttemptsFit,
         OutcomeAtEnd, Points
<1>3. FillInStep
  BY DEF Init, FillInStep
<1>4. SlotsExclusive /\ SlotTellsTruth
  BY DEF Init, SlotsExclusive, SlotTellsTruth
<1> QED
  BY <1>1, <1>2, <1>3, <1>4 DEF IInv

\* A step of a worker that leaves the terminal, the main thread and its own
\* attempt alone, and keeps it between submission and completion, preserves
\* everything but the types and the facts about attempts and outcomes.
LEMMA QuietWorker ==
  ASSUME IInv, UNCHANGED <<mainVars, termVars, attempt>>,
         NEW p \in Points, NEW s,
         worker' = [worker EXCEPT ![p] = s],
         worker[p] \notin {"none", "done", "report"},
         s \notin {"none", "report"}
  PROVE  /\ SubmittedInOrder' /\ FuturesTrackWorkers' /\ FillInStep'
         /\ SlotsExclusive' /\ SlotTellsTruth'
<1>1. worker \in [Points -> WorkerStates]
  BY DEF IInv, TypeOK
<1>2. SubmittedInOrder'
  BY <1>1 DEF IInv, SubmittedInOrder, mainVars
<1>3. FuturesTrackWorkers'
  BY <1>1 DEF IInv, TypeOK, FuturesTrackWorkers, mainVars
<1>4. FillInStep'
  BY DEF IInv, FillInStep, mainVars, termVars
<1>5. SlotsExclusive'
  BY DEF IInv, SlotsExclusive, mainVars
<1>6. SlotTellsTruth'
  BY <1>1 DEF IInv, TypeOK, SlotTellsTruth, mainVars, termVars
<1> QED
  BY <1>2, <1>3, <1>4, <1>5, <1>6

-----------------------------------------------------------------------------
(* Every step of a worker preserves the invariant.                         *)

LEMMA StartStep == ASSUME IInv, NEW p \in Points, Start(p) PROVE IInv'
<1>1. TypeOK'
  BY DEF IInv, TypeOK, Start, mainVars, termVars, WorkerStates
<1>2. AttemptsFit' /\ OutcomeAtEnd'
  BY DEF IInv, TypeOK, Start, AttemptsFit, OutcomeAtEnd
<1> QED
  BY <1>1, <1>2, QuietWorker DEF IInv, Start

LEMMA AnswerTextStep == ASSUME IInv, NEW p \in Points, AnswerText(p) PROVE IInv'
<1>0. stats' \in [total : Nat, failed : Nat]
  BY DEF IInv, TypeOK, AnswerText
<1>1. TypeOK'
  <2>1. worker' \in [Points -> WorkerStates]
    BY DEF IInv, TypeOK, AnswerText, WorkerStates
  <2>2. outcome' \in [Points -> {"none", "text", "failed", "escaped"}]
    BY DEF IInv, TypeOK, AnswerText
  <2> QED
    BY <1>0, <2>1, <2>2 DEF IInv, TypeOK, AnswerText, mainVars, termVars
<1>2. AttemptsFit' /\ OutcomeAtEnd'
  BY DEF IInv, TypeOK, AnswerText, AttemptsFit, OutcomeAtEnd
<1> QED
  BY <1>1, <1>2, QuietWorker DEF IInv, AnswerText

LEMMA AnswerFailStep == ASSUME IInv, NEW p \in Points, AnswerFail(p) PROVE IInv'
<1>0. stats' \in [total : Nat, failed : Nat]
  BY DEF IInv, TypeOK, AnswerFail
<1>1. TypeOK'
  <2>1. worker' \in [Points -> WorkerStates]
    BY DEF IInv, TypeOK, AnswerFail, WorkerStates
  <2>2. outcome' \in [Points -> {"none", "text", "failed", "escaped"}]
    BY DEF IInv, TypeOK, AnswerFail
  <2> QED
    BY <1>0, <2>1, <2>2 DEF IInv, TypeOK, AnswerFail, mainVars, termVars
<1>2. AttemptsFit' /\ OutcomeAtEnd'
  BY DEF IInv, TypeOK, AnswerFail, AttemptsFit, OutcomeAtEnd
<1> QED
  BY <1>1, <1>2, QuietWorker DEF IInv, AnswerFail

LEMMA AnswerEscapeStep ==
  ASSUME IInv, NEW p \in Points, AnswerEscape(p) PROVE IInv'
<1>1. TypeOK'
  BY DEF IInv, TypeOK, AnswerEscape, mainVars, termVars, WorkerStates
<1>2. AttemptsFit' /\ OutcomeAtEnd'
  BY DEF IInv, TypeOK, AnswerEscape, AttemptsFit, OutcomeAtEnd
<1> QED
  BY <1>1, <1>2, QuietWorker DEF IInv, AnswerEscape

LEMMA FinishStep == ASSUME IInv, NEW p \in Points, Finish(p) PROVE IInv'
<1>1. TypeOK'
  BY DEF IInv, TypeOK, Finish, mainVars, termVars, WorkerStates
<1>2. AttemptsFit' /\ OutcomeAtEnd'
  BY DEF IInv, TypeOK, Finish, AttemptsFit, OutcomeAtEnd
<1> QED
  BY <1>1, <1>2, QuietWorker DEF IInv, Finish

LEMMA RetryStep == ASSUME IInv, NEW p \in Points, Retry(p) PROVE IInv'
<1>1. attempt[p] \in 0..R /\ attempt[p] + 1 \in 0..R
  BY BatchAssumption DEF IInv, TypeOK, AttemptsFit, Retry
<1>2. TypeOK'
  <2>1. worker' \in [Points -> WorkerStates]
    BY DEF IInv, TypeOK, Retry, WorkerStates
  <2>2. attempt' \in [Points -> 0..R]
    BY <1>1 DEF IInv, TypeOK, Retry
  <2> QED
    BY <2>1, <2>2 DEF IInv, TypeOK, Retry, mainVars, termVars
<1>3. AttemptsFit'
  BY <1>1 DEF IInv, TypeOK, Retry, AttemptsFit
<1>4. OutcomeAtEnd'
  BY DEF IInv, TypeOK, Retry, OutcomeAtEnd
<1>5. SubmittedInOrder'
  BY DEF IInv, TypeOK, Retry, SubmittedInOrder, mainVars
<1>6. FuturesTrackWorkers'
  BY DEF IInv, TypeOK, Retry, FuturesTrackWorkers, mainVars
<1>7. FillInStep'
  BY DEF IInv, Retry, FillInStep, mainVars, termVars
<1>8. SlotsExclusive'
  BY DEF IInv, Retry, SlotsExclusive, mainVars
<1>9. SlotTellsTruth'
  BY DEF IInv, TypeOK, Retry, SlotTellsTruth, mainVars, termVars
<1> QED
  BY <1>2, <1>3, <1>4, <1>5, <1>6, <1>7, <1>8, <1>9 DEF IInv

\* paint leaves the types alone.
LEMMA PaintTypes ==
  /\ TypeOK /\ PaintRise => row' \in Int /\ blockRendered' \in BOOLEAN
  /\ TypeOK /\ PaintWrite => row' \in Int
<1>1. ASSUME TypeOK, PaintRise PROVE row' \in Int /\ blockRendered' \in BOOLEAN
  <2>1. row \in Int /\ Len(slots) \in Int
    BY <1>1 DEF TypeOK
  <2>2. row' \in Int
    BY <1>1, <2>1 DEF PaintRise
  <2>3. blockRendered' \in BOOLEAN
    BY <1>1, Zenon DEF PaintRise
  <2> QED
    BY <2>2, <2>3
<1>2. ASSUME TypeOK, PaintWrite PROVE row' \in Int
  <2>1. row \in Int /\ Len(slots) \in Int
    BY <1>2 DEF TypeOK
  <2> QED
    BY <1>2, <2>1 DEF PaintWrite
<1> QED
  BY <1>1, <1>2

\* report_retry rewrites the line of its own slot, which is nobody else's.
LEMMA ReportRiseStep ==
  ASSUME IInv, NEW p \in Points, ReportRise(p) PROVE IInv'
<1>1. p \in slotFutures /\ attempt[p] \in 0..R /\ attempt[p] > 0
  BY DEF IInv, TypeOK, FuturesTrackWorkers, AttemptsFit, ReportRise
<1>2. slotOf[p] \in 1..Len(slots)
  BY <1>1 DEF IInv, TypeOK, SlotTellsTruth
<1>3. Retrying(p, attempt[p]) \in Messages
  BY <1>1, MessageTypes
<1>4. /\ slots' \in Seq(Messages)
      /\ Len(slots') = Len(slots)
      /\ DOMAIN slots' = DOMAIN slots
      /\ \A i \in 1..Len(slots) :
           slots'[i] = IF i = slotOf[p] THEN Retrying(p, attempt[p]) ELSE slots[i]
  BY <1>2, <1>3, ExceptSeq DEF IInv, TypeOK, ReportRise
<1>5. TypeOK'
  <2>1. worker' \in [Points -> WorkerStates]
    BY DEF IInv, TypeOK, ReportRise, WorkerStates
  <2>2. row' \in Int /\ blockRendered' \in BOOLEAN
    BY PaintTypes DEF IInv, ReportRise
  <2>3. terminalLock' \in {Free, Main} \cup Points
    BY DEF ReportRise
  <2> QED
    BY <1>4, <2>1, <2>2, <2>3 DEF IInv, TypeOK, ReportRise, mainVars
<1>6. AttemptsFit' /\ OutcomeAtEnd'
  BY DEF IInv, TypeOK, ReportRise, AttemptsFit, OutcomeAtEnd
<1>7. SubmittedInOrder'
  BY DEF IInv, TypeOK, ReportRise, SubmittedInOrder, mainVars
<1>8. FuturesTrackWorkers'
  BY DEF IInv, TypeOK, ReportRise, FuturesTrackWorkers, mainVars
<1>9. FillInStep'
  <2>1. mainPc = "submit" => slotOf[p] # nextIndex
    BY <1>1 DEF IInv, TypeOK, FillInStep, Points
  <2>2. mainPc = "submit" => nextIndex \in 1..Len(slots)
    BY DEF IInv, TypeOK, FillInStep
  <2> QED
    BY <1>4, <2>1, <2>2 DEF IInv, FillInStep, ReportRise, mainVars, Processing
<1>10. SlotsExclusive'
  BY DEF IInv, ReportRise, SlotsExclusive, mainVars
<1>11. SlotTellsTruth'
  <2> SUFFICES ASSUME NEW q \in slotFutures
               PROVE  /\ slotOf[q] \in DOMAIN slots'
                      /\ slots'[slotOf[q]].point = q
                      /\ worker'[q] # "report" =>
                           slots'[slotOf[q]] =
                             IF attempt[q] = 0 THEN Processing(q)
                             ELSE Retrying(q, attempt[q])
    BY DEF ReportRise, SlotTellsTruth, mainVars, Processing, Retrying
  <2>1. slotOf[q] \in 1..Len(slots) /\ slotOf[q] \in DOMAIN slots'
    BY <1>4 DEF IInv, TypeOK, SlotTellsTruth
  <2>2. CASE q = p
    BY <1>1, <1>4, <2>1, <2>2 DEF Retrying
  <2>3. CASE q # p
    <3>1. slotOf[q] # slotOf[p]
      BY <1>1, <2>3 DEF IInv, SlotsExclusive
    <3>2. slots'[slotOf[q]] = slots[slotOf[q]]
      BY <1>4, <2>1, <3>1
    <3>3. worker'[q] = worker[q]
      BY <2>3 DEF IInv, TypeOK, ReportRise
    <3> QED
      BY <2>1, <3>2, <3>3 DEF IInv, SlotTellsTruth
  <2> QED
    BY <2>2, <2>3
<1> QED
  BY <1>5, <1>6, <1>7, <1>8, <1>9, <1>10, <1>11 DEF IInv

LEMMA ReportWriteStep ==
  ASSUME IInv, NEW p \in Points, ReportWrite(p) PROVE IInv'
<1>1. TypeOK'
  <2>1. worker' \in [Points -> WorkerStates]
    BY DEF IInv, TypeOK, ReportWrite, WorkerStates
  <2>2. row' \in Int /\ terminalLock' \in {Free, Main} \cup Points
    BY PaintTypes DEF IInv, ReportWrite
  <2> QED
    BY <2>1, <2>2 DEF IInv, TypeOK, ReportWrite, mainVars
<1>2. AttemptsFit' /\ OutcomeAtEnd'
  BY DEF IInv, TypeOK, ReportWrite, AttemptsFit, OutcomeAtEnd
<1>3. SubmittedInOrder'
  BY DEF IInv, TypeOK, ReportWrite, SubmittedInOrder, mainVars
<1>4. FuturesTrackWorkers'
  BY DEF IInv, TypeOK, ReportWrite, FuturesTrackWorkers, mainVars
<1>5. FillInStep'
  BY DEF IInv, ReportWrite, FillInStep, mainVars
<1>6. SlotsExclusive'
  BY DEF IInv, ReportWrite, SlotsExclusive, mainVars
<1>7. SlotTellsTruth'
  BY DEF IInv, TypeOK, ReportWrite, SlotTellsTruth, mainVars
<1> QED
  BY <1>1, <1>2, <1>3, <1>4, <1>5, <1>6, <1>7 DEF IInv

-----------------------------------------------------------------------------
(* Every step of the main thread preserves the invariant.                  *)

\* Without a pop yet, main waits for as many points as it submitted.
LEMMA FillCount ==
  ASSUME IInv, mainPc \in {"append", "submit"}
  PROVE  Cardinality(slotFutures) = nextIndex - 1
<1>1. slotFutures = 1..(nextIndex - 1) /\ nextIndex \in Int /\ nextIndex >= 1
  BY BatchAssumption DEF IInv, TypeOK, FillInStep
<1> QED
  BY <1>1, FS_Interval

LEMMA FillAppendStep == ASSUME IInv, FillAppend PROVE IInv'
<1>0. Cardinality(slotFutures) = nextIndex - 1
  BY FillCount DEF FillAppend
<1>1. /\ nextIndex \in Points
      /\ Len(slots) = nextIndex - 1
      /\ nextIndex - 1 < W
  BY <1>0, BatchAssumption
     DEF IInv, TypeOK, FillInStep, FillAppend, FillMore, MorePoints, Points
<1>2. Processing(nextIndex) \in Messages
  BY <1>1, MessageTypes
<1>3. /\ slots' \in Seq(Messages)
      /\ Len(slots') = nextIndex
      /\ \A i \in 1..(nextIndex - 1) : slots'[i] = slots[i]
      /\ slots'[nextIndex] = Processing(nextIndex)
  BY <1>1, <1>2, AppendProperties DEF IInv, TypeOK, FillAppend
<1>4. TypeOK'
  BY <1>1, <1>3, BatchAssumption DEF IInv, TypeOK, FillAppend, workVars
<1>5. SubmittedInOrder' /\ AttemptsFit' /\ OutcomeAtEnd'
  BY DEF IInv, SubmittedInOrder, AttemptsFit, OutcomeAtEnd, FillAppend, workVars
<1>6. FuturesTrackWorkers'
  BY DEF IInv, FuturesTrackWorkers, FillAppend, workVars
<1>7. FillInStep'
  BY <1>1, <1>3 DEF IInv, FillInStep, FillAppend, workVars, Points, Processing
<1>8. SlotsExclusive'
  BY DEF IInv, SlotsExclusive, FillAppend
<1>9. SlotTellsTruth'
  <2>1. ASSUME NEW q \in slotFutures
        PROVE  /\ slotOf[q] \in DOMAIN slots'
               /\ slots'[slotOf[q]] = slots[slotOf[q]]
    <3>1. slotOf[q] = q /\ q \in 1..(nextIndex - 1)
      BY <2>1 DEF IInv, FillInStep, FillAppend
    <3> QED
      BY <1>1, <1>3, <3>1 DEF Points
  <2> QED
    BY <2>1 DEF IInv, SlotTellsTruth, FillAppend, workVars, Processing, Retrying
<1> QED
  BY <1>4, <1>5, <1>6, <1>7, <1>8, <1>9 DEF IInv

LEMMA FillSubmitStep == ASSUME IInv, FillSubmit PROVE IInv'
<1>0. Cardinality(slotFutures) = nextIndex - 1
  BY FillCount DEF FillSubmit
<1>1. /\ nextIndex \in Points
      /\ nextIndex \in 1..W
      /\ Len(slots) = nextIndex
      /\ slots[nextIndex] = Processing(nextIndex)
      /\ slotFutures = 1..(nextIndex - 1)
      /\ Cardinality(slotFutures) + 1 = nextIndex
  BY <1>0, BatchAssumption DEF IInv, TypeOK, FillInStep, FillSubmit, Points
<1>2. /\ worker[nextIndex] = "none"
      /\ worker' = [worker EXCEPT ![nextIndex] = "queued"]
      /\ slotOf' = [slotOf EXCEPT ![nextIndex] = nextIndex]
      /\ nextIndex' = nextIndex + 1
      /\ slotFutures' = slotFutures \cup {nextIndex}
      /\ UNCHANGED <<slots, done, attempt, outcome>>
      /\ mainPc' = "append"
  <2>1. worker[nextIndex] = "none"
    BY <1>1 DEF IInv, SubmittedInOrder, Points
  <2>2. slotOf' = [slotOf EXCEPT ![nextIndex] = nextIndex]
    BY <1>1 DEF FillSubmit, Submit
  <2> QED
    BY <2>1, <2>2 DEF FillSubmit, Submit, termVars
<1>3. TypeOK'
  <2>1. worker' \in [Points -> WorkerStates]
    BY <1>2 DEF IInv, TypeOK, WorkerStates
  <2>2. slotOf' \in [Points -> 0..W] /\ nextIndex' \in 1..(N + 1)
    BY <1>1, <1>2, BatchAssumption DEF IInv, TypeOK, Points
  <2>3. slotFutures' \in SUBSET Points /\ done' \in SUBSET slotFutures'
    BY <1>1, <1>2 DEF IInv, TypeOK
  <2> QED
    BY <2>1, <2>2, <2>3 DEF IInv, TypeOK, FillSubmit, termVars
<1>4. SubmittedInOrder'
  BY <1>1, <1>2 DEF IInv, TypeOK, SubmittedInOrder, Points
<1>5. AttemptsFit' /\ OutcomeAtEnd'
  BY <1>1, <1>2 DEF IInv, TypeOK, AttemptsFit, OutcomeAtEnd
<1>6. FuturesTrackWorkers'
  BY <1>1, <1>2 DEF IInv, TypeOK, FuturesTrackWorkers, FillInStep, FillSubmit
<1>7. FillInStep'
  BY <1>1, <1>2, BatchAssumption DEF IInv, TypeOK, FillInStep, FillSubmit, Points
<1>8. SlotsExclusive'
  BY <1>7 DEF SlotsExclusive, FillInStep, FillSubmit
<1>9. SlotTellsTruth'
  <2>1. ASSUME NEW q \in slotFutures
        PROVE  worker'[q] = worker[q] /\ slotOf'[q] = slotOf[q]
    BY <1>1, <1>2, <2>1 DEF IInv, TypeOK, Points
  <2>2. attempt[nextIndex] = 0 /\ slotOf'[nextIndex] = nextIndex
    BY <1>1, <1>2 DEF IInv, TypeOK, AttemptsFit
  <2>3. nextIndex \in DOMAIN slots
    BY <1>1 DEF IInv, TypeOK
  <2> SUFFICES ASSUME NEW q \in slotFutures'
               PROVE  /\ slotOf'[q] \in DOMAIN slots
                      /\ slots[slotOf'[q]].point = q
                      /\ worker'[q] # "report" =>
                           slots[slotOf'[q]] =
                             IF attempt[q] = 0 THEN Processing(q)
                             ELSE Retrying(q, attempt[q])
    BY <1>2 DEF SlotTellsTruth, Processing, Retrying
  <2>4. CASE q \in slotFutures
    BY <2>1, <2>4 DEF IInv, SlotTellsTruth
  <2>5. CASE q = nextIndex
    BY <1>1, <2>2, <2>3, <2>5 DEF Processing
  <2> QED
    BY <1>2, <2>4, <2>5
<1> QED
  BY <1>3, <1>4, <1>5, <1>6, <1>7, <1>8, <1>9 DEF IInv

LEMMA FillDoneStep == ASSUME IInv, FillDone PROVE IInv'
<1>1. TypeOK'
  BY DEF IInv, TypeOK, FillDone, workVars, termVars
<1>2. SubmittedInOrder' /\ AttemptsFit' /\ OutcomeAtEnd'
  BY DEF IInv, SubmittedInOrder, AttemptsFit, OutcomeAtEnd, FillDone, workVars
<1>3. FuturesTrackWorkers' /\ FillInStep'
  BY DEF IInv, TypeOK, FuturesTrackWorkers, FillInStep, FillDone, workVars, termVars,
         Finished
<1>4. SlotsExclusive' /\ SlotTellsTruth'
  BY DEF IInv, SlotsExclusive, SlotTellsTruth, FillDone, workVars, termVars
<1> QED
  BY <1>1, <1>2, <1>3, <1>4 DEF IInv

LEMMA WaitStep == ASSUME IInv, Wait PROVE IInv'
<1>1. TypeOK'
  BY DEF IInv, TypeOK, Wait, workVars, termVars
<1>2. SubmittedInOrder' /\ AttemptsFit' /\ OutcomeAtEnd'
  BY DEF IInv, SubmittedInOrder, AttemptsFit, OutcomeAtEnd, Wait, workVars
<1>3. FuturesTrackWorkers' /\ FillInStep'
  BY DEF IInv, TypeOK, FuturesTrackWorkers, FillInStep, Wait, workVars, termVars,
         Finished
<1>4. SlotsExclusive' /\ SlotTellsTruth'
  BY DEF IInv, SlotsExclusive, SlotTellsTruth, Wait, workVars, termVars
<1> QED
  BY <1>1, <1>2, <1>3, <1>4 DEF IInv

LEMMA ShutdownDoneStep == ASSUME IInv, ShutdownDone PROVE IInv'
<1>1. TypeOK'
  BY DEF IInv, TypeOK, ShutdownDone, workVars, termVars
<1>2. SubmittedInOrder' /\ AttemptsFit' /\ OutcomeAtEnd'
  BY DEF IInv, SubmittedInOrder, AttemptsFit, OutcomeAtEnd, ShutdownDone, workVars
<1>3. FuturesTrackWorkers' /\ FillInStep'
  BY DEF IInv, TypeOK, FuturesTrackWorkers, FillInStep, ShutdownDone, workVars, termVars,
         Finished
<1>4. SlotsExclusive' /\ SlotTellsTruth'
  BY DEF IInv, SlotsExclusive, SlotTellsTruth, ShutdownDone, workVars, termVars
<1> QED
  BY <1>1, <1>2, <1>3, <1>4 DEF IInv

LEMMA RenderRiseStep == ASSUME IInv, RenderRise PROVE IInv'
<1>1. TypeOK'
  <2>1. row' \in Int /\ blockRendered' \in BOOLEAN
    BY PaintTypes DEF IInv, RenderRise
  <2> QED
    BY <2>1 DEF IInv, TypeOK, RenderRise, workVars
<1>2. SubmittedInOrder' /\ AttemptsFit' /\ OutcomeAtEnd'
  BY DEF IInv, SubmittedInOrder, AttemptsFit, OutcomeAtEnd, RenderRise, workVars
<1>3. FuturesTrackWorkers' /\ FillInStep'
  BY DEF IInv, TypeOK, FuturesTrackWorkers, FillInStep, RenderRise, workVars, termVars,
         Finished
<1>4. SlotsExclusive' /\ SlotTellsTruth'
  BY DEF IInv, SlotsExclusive, SlotTellsTruth, RenderRise, workVars, termVars
<1> QED
  BY <1>1, <1>2, <1>3, <1>4 DEF IInv

LEMMA RenderWriteStep == ASSUME IInv, RenderWrite PROVE IInv'
<1>1. TypeOK'
  <2>1. row' \in Int
    BY PaintTypes DEF IInv, RenderWrite
  <2> QED
    BY <2>1 DEF IInv, TypeOK, RenderWrite, workVars
<1>2. SubmittedInOrder' /\ AttemptsFit' /\ OutcomeAtEnd'
  BY DEF IInv, SubmittedInOrder, AttemptsFit, OutcomeAtEnd, RenderWrite, workVars
<1>3. FuturesTrackWorkers' /\ FillInStep'
  BY DEF IInv, TypeOK, FuturesTrackWorkers, FillInStep, RenderWrite, workVars, termVars,
         Finished
<1>4. SlotsExclusive' /\ SlotTellsTruth'
  BY DEF IInv, SlotsExclusive, SlotTellsTruth, RenderWrite, workVars, termVars
<1> QED
  BY <1>1, <1>2, <1>3, <1>4 DEF IInv

LEMMA LeaveStep == ASSUME IInv, Leave PROVE IInv'
<1>1. TypeOK'
  BY DEF IInv, TypeOK, Leave, workVars, termVars
<1>2. SubmittedInOrder' /\ AttemptsFit' /\ OutcomeAtEnd'
  BY DEF IInv, SubmittedInOrder, AttemptsFit, OutcomeAtEnd, Leave, workVars
<1>3. FuturesTrackWorkers' /\ FillInStep'
  BY DEF IInv, TypeOK, FuturesTrackWorkers, FillInStep, Leave, workVars, termVars,
         Finished
<1>4. SlotsExclusive' /\ SlotTellsTruth'
  BY DEF IInv, SlotsExclusive, SlotTellsTruth, Leave, workVars, termVars
<1> QED
  BY <1>1, <1>2, <1>3, <1>4 DEF IInv

\* Popping a future that is done leaves only facts about fewer futures.
LEMMA RaiseStep == ASSUME IInv, NEW p \in Points, Raise(p) PROVE IInv'
<1>1. worker[p] = "done" /\ p \in slotFutures
  BY DEF IInv, TypeOK, FuturesTrackWorkers, Raise
<1>2. TypeOK'
  BY DEF IInv, TypeOK, Raise, workVars, termVars
<1>3. SubmittedInOrder' /\ AttemptsFit' /\ OutcomeAtEnd'
  BY DEF IInv, SubmittedInOrder, AttemptsFit, OutcomeAtEnd, Raise, workVars
<1>4. FuturesTrackWorkers'
  BY <1>1 DEF IInv, TypeOK, FuturesTrackWorkers, Raise, workVars
<1>5. FillInStep'
  BY DEF FillInStep, Raise
<1>6. SlotsExclusive' /\ SlotTellsTruth'
  BY DEF IInv, SlotsExclusive, SlotTellsTruth, Raise, workVars, termVars
<1> QED
  BY <1>2, <1>3, <1>4, <1>5, <1>6 DEF IInv

\* What a pop leaves behind, whether the slot is passed on or not.
LEMMA CollectCommon ==
  ASSUME IInv, NEW p \in Points, Collect(p)
  PROVE  /\ worker[p] = "done"
         /\ p \in slotFutures
         /\ slotOf[p] \in 1..Len(slots)
         /\ results' \in [Points -> {"none", "text", "failed"}]
         /\ mainPc' \in {"render", "collect"}
<1>1. worker[p] = "done" /\ p \in slotFutures
  BY DEF IInv, TypeOK, FuturesTrackWorkers, Collect
<1>2. slotOf[p] \in 1..Len(slots)
  BY <1>1 DEF IInv, TypeOK, SlotTellsTruth
<1>3. outcome[p] \in {"text", "failed"}
  BY <1>1 DEF IInv, TypeOK, OutcomeAtEnd, Collect
<1>4. results' \in [Points -> {"none", "text", "failed"}]
  BY <1>3 DEF IInv, TypeOK, Collect, Keep
<1> QED
  BY <1>1, <1>2, <1>4 DEF Collect

LEMMA RetireStep ==
  ASSUME IInv, NEW p \in Points, Collect(p), Retire(p) PROVE IInv'
<1>1. /\ worker[p] = "done" /\ p \in slotFutures /\ slotOf[p] \in 1..Len(slots)
      /\ results' \in [Points -> {"none", "text", "failed"}]
      /\ mainPc' \in {"render", "collect"}
  BY CollectCommon
<1>2. /\ slots' \in Seq(Messages)
      /\ Len(slots') = Len(slots)
      /\ DOMAIN slots' = DOMAIN slots
      /\ \A i \in 1..Len(slots) :
           slots'[i] = IF i = slotOf[p] THEN Waiting ELSE slots[i]
  BY <1>1, MessageTypes, ExceptSeq DEF IInv, TypeOK, Retire
<1>3. TypeOK'
  BY <1>1, <1>2 DEF IInv, TypeOK, Collect, Retire
<1>4. SubmittedInOrder' /\ AttemptsFit' /\ OutcomeAtEnd'
  BY DEF IInv, SubmittedInOrder, AttemptsFit, OutcomeAtEnd, Collect, Retire
<1>5. FuturesTrackWorkers'
  BY <1>1 DEF IInv, TypeOK, FuturesTrackWorkers, Collect, Retire
<1>6. FillInStep'
  BY <1>1 DEF FillInStep
<1>7. SlotsExclusive'
  BY DEF IInv, SlotsExclusive, Retire
<1>8. SlotTellsTruth'
  <2>1. ASSUME NEW q \in slotFutures, q # p
        PROVE  /\ slotOf[q] \in DOMAIN slots'
               /\ slots'[slotOf[q]] = slots[slotOf[q]]
    BY <1>1, <1>2, <2>1 DEF IInv, TypeOK, SlotsExclusive, SlotTellsTruth
  <2> QED
    BY <2>1
       DEF IInv, SlotTellsTruth, Collect, Retire, Processing, Retrying
<1> QED
  BY <1>3, <1>4, <1>5, <1>6, <1>7, <1>8 DEF IInv

LEMMA RefillStep ==
  ASSUME IInv, NEW p \in Points, Collect(p), Refill(p) PROVE IInv'
<1>1. /\ worker[p] = "done" /\ p \in slotFutures /\ slotOf[p] \in 1..Len(slots)
      /\ results' \in [Points -> {"none", "text", "failed"}]
      /\ mainPc' \in {"render", "collect"}
  BY CollectCommon
<1>2. nextIndex \in Points
  BY BatchAssumption DEF IInv, TypeOK, Refill, MorePoints, Points
<1>3. worker[nextIndex] = "none" /\ nextIndex # p /\ attempt[nextIndex] = 0
  BY <1>1, <1>2 DEF IInv, SubmittedInOrder, AttemptsFit, Points
<1>4. /\ slots' \in Seq(Messages)
      /\ Len(slots') = Len(slots)
      /\ DOMAIN slots' = DOMAIN slots
      /\ \A i \in 1..Len(slots) :
           slots'[i] = IF i = slotOf[p] THEN Processing(nextIndex) ELSE slots[i]
  BY <1>1, <1>2, MessageTypes, ExceptSeq DEF IInv, TypeOK, Refill
<1>5. /\ worker' = [worker EXCEPT ![nextIndex] = "queued"]
      /\ slotOf' = [slotOf EXCEPT ![nextIndex] = slotOf[p]]
      /\ nextIndex' = nextIndex + 1
      /\ slotFutures' = (slotFutures \ {p}) \cup {nextIndex}
      /\ done' = done \ {p}
      /\ UNCHANGED <<attempt, outcome>>
  BY DEF Collect, Refill, Submit
<1>6. TypeOK'
  <2>1. worker' \in [Points -> WorkerStates]
    BY <1>5 DEF IInv, TypeOK, WorkerStates
  <2>2. slotOf' \in [Points -> 0..W] /\ nextIndex' \in 1..(N + 1)
    BY <1>2, <1>5, BatchAssumption DEF IInv, TypeOK, Points
  <2>3. slotFutures' \in SUBSET Points /\ done' \in SUBSET slotFutures'
    BY <1>2, <1>5 DEF IInv, TypeOK
  <2> QED
    BY <1>1, <1>4, <2>1, <2>2, <2>3 DEF IInv, TypeOK, Collect
<1>7. SubmittedInOrder'
  BY <1>2, <1>5 DEF IInv, TypeOK, SubmittedInOrder, Points
<1>8. AttemptsFit' /\ OutcomeAtEnd'
  BY <1>3, <1>5 DEF IInv, TypeOK, AttemptsFit, OutcomeAtEnd
<1>9. FuturesTrackWorkers'
  BY <1>1, <1>2, <1>3, <1>5 DEF IInv, TypeOK, FuturesTrackWorkers
<1>10. FillInStep'
  BY <1>1 DEF FillInStep
<1>11. nextIndex \notin slotFutures
  BY <1>3 DEF IInv, FuturesTrackWorkers
<1>12. SlotsExclusive'
  BY <1>1, <1>2, <1>5, <1>11 DEF IInv, TypeOK, SlotsExclusive
<1>13. SlotTellsTruth'
  <2> SUFFICES ASSUME NEW q \in slotFutures'
               PROVE  /\ slotOf'[q] \in DOMAIN slots'
                      /\ slots'[slotOf'[q]].point = q
                      /\ worker'[q] # "report" =>
                           slots'[slotOf'[q]] =
                             IF attempt[q] = 0 THEN Processing(q)
                             ELSE Retrying(q, attempt[q])
    BY <1>5 DEF SlotTellsTruth, Processing, Retrying
  <2>1. CASE q = nextIndex
    <3>1. slotOf'[q] = slotOf[p]
      BY <1>2, <1>5, <2>1 DEF IInv, TypeOK
    <3>2. slots'[slotOf'[q]] = Processing(q) /\ slotOf'[q] \in DOMAIN slots'
      BY <1>1, <1>4, <2>1, <3>1
    <3> QED
      BY <1>3, <2>1, <3>2 DEF Processing
  <2>2. CASE q # nextIndex
    <3>1. q \in slotFutures /\ q # p
      BY <1>5, <2>2
    <3>2. slotOf'[q] = slotOf[q] /\ worker'[q] = worker[q]
      BY <1>5, <2>2, <3>1 DEF IInv, TypeOK
    <3>3. slotOf[q] # slotOf[p] /\ slotOf[q] \in 1..Len(slots)
      BY <1>1, <3>1 DEF IInv, TypeOK, SlotsExclusive, SlotTellsTruth
    <3>4. slots'[slotOf[q]] = slots[slotOf[q]] /\ slotOf[q] \in DOMAIN slots'
      BY <1>4, <3>3
    <3> QED
      BY <3>1, <3>2, <3>4 DEF IInv, SlotTellsTruth
  <2> QED
    BY <2>1, <2>2
<1> QED
  BY <1>6, <1>7, <1>8, <1>9, <1>10, <1>12, <1>13 DEF IInv

-----------------------------------------------------------------------------
(* The theorems.                                                           *)

LEMMA StepIInv == IInv /\ [Next]_vars => IInv'
<1> SUFFICES ASSUME IInv, [Next]_vars PROVE IInv'
  OBVIOUS
<1>1. CASE UNCHANGED vars
  BY <1>1 DEF vars, mainVars, termVars, workVars, IInv, TypeOK,
     SubmittedInOrder, FuturesTrackWorkers, FillInStep, AttemptsFit,
     OutcomeAtEnd, SlotsExclusive, SlotTellsTruth
<1>2. ASSUME NEW p \in Points, WorkerNext(p) PROVE IInv'
  BY <1>2, StartStep, AnswerTextStep, AnswerFailStep, AnswerEscapeStep,
     RetryStep, ReportRiseStep, ReportWriteStep, FinishStep DEF WorkerNext
<1>3. CASE MainNext
  <2>1. ASSUME NEW p \in Points, Collect(p) PROVE IInv'
    <3>1. Refill(p) \/ Retire(p)
      BY <2>1 DEF Collect
    <3> QED
      BY <2>1, <3>1, RefillStep, RetireStep
  <2> QED
    BY <1>3, <2>1, FillAppendStep, FillSubmitStep, FillDoneStep,
       RenderRiseStep, RenderWriteStep, WaitStep, RaiseStep,
       ShutdownDoneStep, LeaveStep DEF MainNext
<1>4. CASE Terminated
  BY <1>1, <1>4 DEF Terminated
<1> QED
  BY <1>1, <1>2, <1>3, <1>4 DEF Next

\* The inductive invariant holds in every reachable state.
THEOREM Invariance == Spec => []IInv
BY InitIInv, StepIInv, PTL DEF Spec

\* Every variable stays within its type, for every N, W and R: no slot beyond
\* the W lines, no attempt beyond R (xlsx_change_pilot.py:293-409).
THEOREM TypeCorrect == Spec => []TypeOK
<1>1. IInv => TypeOK
  BY DEF IInv
<1> QED
  BY <1>1, Invariance, PTL

\* No two points that are waited for share a slot, whatever the interleaving
\* of the main thread and the workers (xlsx_change_pilot.py:378-397).
THEOREM SlotsAreExclusive == Spec => []SlotsExclusive
<1>1. IInv => SlotsExclusive
  BY DEF IInv
<1> QED
  BY <1>1, Invariance, PTL

\* A slot's line is about the point that holds it and gives its attempt, so a
\* retry message never lands on another point's line
\* (xlsx_change_pilot.py:361-365).
THEOREM SlotsTellTheTruth == Spec => []SlotTellsTruth
<1>1. IInv => SlotTellsTruth
  BY DEF IInv
<1> QED
  BY <1>1, Invariance, PTL

\* At most W points are in flight: their slots are different numbers of 1..W
\* (xlsx_change_pilot.py:377-397).
THEOREM InFlightIsBounded == Spec => []InFlightBounded
<1>1. IInv => InFlightBounded
  <2> SUFFICES ASSUME IInv PROVE InFlightBounded
    OBVIOUS
  <2> DEFINE Flying == {p \in Points : worker[p] \notin {"none", "done"}}
             f == [p \in Flying |-> slotOf[p]]
  <2>1. \A p \in Flying : p \in slotFutures
    BY DEF IInv, FuturesTrackWorkers
  <2>2. \A p \in Flying : slotOf[p] \in 1..W
    BY <2>1, BatchAssumption DEF IInv, TypeOK, SlotTellsTruth
  <2>3. f \in Injection(Flying, 1..W)
    BY <2>1, <2>2 DEF IInv, SlotsExclusive, Injection, IsInjective
  <2>4. IsFiniteSet(1..W) /\ Cardinality(1..W) = W
    BY FS_Interval, BatchAssumption
  <2>5. Cardinality(Flying) <= W
    BY <2>3, <2>4, FS_Injection
  <2> QED
    BY <2>5 DEF InFlightBounded
<1> QED
  BY <1>1, Invariance, PTL

-----------------------------------------------------------------------------
(* What the invariant of BatchClient_proofs leaves open, in parts.         *)

\* From the fill on, a free slot means that no point is left.
SlotsFull ==
  mainPc \in {"render", "paint", "wait", "collect"} /\ nextIndex <= N =>
    Cardinality(slotFutures) = W

\* A result is the outcome of a point that main no longer waits for, and unless
\* an exception got in between, each such point has one.
ResultsKept ==
  /\ \A p \in Kept : /\ worker[p] = "done"
                     /\ results[p] = outcome[p]
                     /\ p \notin slotFutures
  /\ mainPc \notin {"shutdown", "raised"} =>
       \A p \in Points : worker[p] # "none" /\ p \notin slotFutures => p \in Kept

\* main returns with nothing left to submit or to wait for.
AllCollected ==
  mainPc \in {"leave", "returned"} => slotFutures = {} /\ nextIndex = N + 1

\* main raises because a request escaped, and only after the pool is idle.
EscapeSeen ==
  /\ mainPc \in {"shutdown", "raised"} =>
       \E p \in Points : worker[p] = "done" /\ outcome[p] = "escaped"
  /\ mainPc = "raised" => Submitted = Finished

PInv == IInv /\ SlotsFull /\ ResultsKept /\ AllCollected /\ EscapeSeen

-----------------------------------------------------------------------------
(* Facts about the steps.                                                  *)

\* A worker moves its own point, between submission and completion, and gives it
\* the outcome before the future is resolved.
LEMMA WorkerMoves ==
  ASSUME IInv, NEW p \in Points, WorkerNext(p)
  PROVE  /\ UNCHANGED mainVars
         /\ worker[p] \notin {"none", "done"} /\ worker'[p] # "none"
         /\ \A q \in Points : q # p => worker'[q] = worker[q]
                                       /\ outcome'[q] = outcome[q]
         /\ worker'[p] = "done" =>
              outcome'[p] = outcome[p] /\ outcome[p] \in {"text", "failed", "escaped"}
<1>1. /\ worker \in [Points -> WorkerStates]
      /\ outcome \in [Points -> {"none", "text", "failed", "escaped"}]
  BY DEF IInv, TypeOK
<1>2. CASE Start(p)
  BY <1>1, <1>2 DEF Start
<1>3. CASE AnswerText(p)
  BY <1>1, <1>3 DEF AnswerText
<1>4. CASE AnswerFail(p)
  BY <1>1, <1>4 DEF AnswerFail
<1>5. CASE AnswerEscape(p)
  BY <1>1, <1>5 DEF AnswerEscape
<1>6. CASE Retry(p)
  BY <1>1, <1>6 DEF Retry
<1>7. CASE ReportRise(p)
  BY <1>1, <1>7 DEF ReportRise
<1>8. CASE ReportWrite(p)
  BY <1>1, <1>8 DEF ReportWrite
<1>9. CASE Finish(p)
  BY <1>1, <1>9 DEF Finish, IInv, OutcomeAtEnd
<1> QED
  BY <1>2, <1>3, <1>4, <1>5, <1>6, <1>7, <1>8, <1>9 DEF WorkerNext

\* The slots number the points that main waits for.
LEMMA FuturesBounded ==
  ASSUME IInv
  PROVE  /\ IsFiniteSet(slotFutures)
         /\ Cardinality(slotFutures) \in Nat
         /\ Cardinality(slotFutures) <= W
<1> DEFINE f == [p \in slotFutures |-> slotOf[p]]
<1>1. \A p \in slotFutures : slotOf[p] \in 1..W
  BY BatchAssumption DEF IInv, TypeOK, SlotTellsTruth
<1>2. f \in Injection(slotFutures, 1..W)
  BY <1>1 DEF IInv, SlotsExclusive, Injection, IsInjective
<1>3. IsFiniteSet(1..W) /\ Cardinality(1..W) = W
  BY FS_Interval, BatchAssumption
<1>4. IsFiniteSet(slotFutures) /\ Cardinality(slotFutures) <= W
  BY <1>2, <1>3, FS_Injection
<1> QED BY <1>4, FS_CardinalityType

\* What is in flight is waited for.
LEMMA FlyingBounded ==
  ASSUME IInv, NEW F \in SUBSET slotFutures,
         \A p \in F : worker[p] \notin {"none", "done"}
  PROVE  /\ IsFiniteSet(F) /\ Cardinality(F) \in Nat
         /\ Cardinality(F) <= Cardinality(slotFutures)
         /\ (\E p \in slotFutures : worker[p] = "done") =>
              Cardinality(F) < Cardinality(slotFutures)
<1>1. IsFiniteSet(slotFutures) /\ Cardinality(slotFutures) \in Nat
  BY FuturesBounded
<1>2. IsFiniteSet(F) /\ Cardinality(F) <= Cardinality(slotFutures)
  BY <1>1, FS_Subset
<1>3. Cardinality(F) \in Nat
  BY <1>2, FS_CardinalityType
<1>4. ASSUME NEW p \in slotFutures, worker[p] = "done"
      PROVE  Cardinality(F) < Cardinality(slotFutures)
  <2>1. Cardinality(slotFutures) # Cardinality(F)
    BY <1>1, <1>4, FS_Subset
  <2> QED BY <1>1, <1>2, <1>3, <2>1
<1> QED BY <1>2, <1>3, <1>4

-----------------------------------------------------------------------------
(* The parts are invariant.                                                *)

LEMMA InitPInv == Init => PInv
<1> SUFFICES ASSUME Init PROVE PInv
  OBVIOUS
<1>1. IInv
  BY InitIInv
<1>2. SlotsFull /\ AllCollected /\ EscapeSeen
  BY DEF Init, SlotsFull, AllCollected, EscapeSeen
<1>3. ResultsKept
  BY DEF Init, ResultsKept, Kept
<1> QED BY <1>1, <1>2, <1>3 DEF PInv

LEMMA PoolStep ==
  ASSUME PInv, NEW p \in Points, WorkerNext(p)
  PROVE  SlotsFull' /\ ResultsKept' /\ AllCollected' /\ EscapeSeen'
<1>1. /\ UNCHANGED mainVars
      /\ worker[p] \notin {"none", "done"} /\ worker'[p] # "none"
      /\ \A q \in Points : q # p => worker'[q] = worker[q]
                                    /\ outcome'[q] = outcome[q]
  BY WorkerMoves DEF PInv
<1>2. UNCHANGED <<mainPc, nextIndex, slotFutures, results>>
  BY <1>1 DEF mainVars
<1>3. SlotsFull' /\ AllCollected'
  BY <1>2 DEF PInv, SlotsFull, AllCollected
<1>4. ResultsKept'
  <2>1. Kept' = Kept /\ p \notin Kept
    BY <1>1, <1>2 DEF Kept, PInv, ResultsKept
  <2>2. p \in slotFutures
    BY <1>1 DEF PInv, IInv, FuturesTrackWorkers
  <2> QED BY <1>1, <1>2, <2>1, <2>2 DEF PInv, ResultsKept, Kept
<1>5. EscapeSeen'
  <2>1. mainPc # "raised"
    BY <1>1 DEF PInv, EscapeSeen, Submitted, Finished
  <2> QED BY <1>1, <1>2, <2>1 DEF PInv, EscapeSeen
<1> QED BY <1>3, <1>4, <1>5

LEMMA FillStep ==
  ASSUME PInv, FillAppend \/ FillSubmit \/ FillDone
  PROVE  SlotsFull' /\ ResultsKept' /\ AllCollected' /\ EscapeSeen'
<1>1. AllCollected' /\ EscapeSeen'
  BY DEF AllCollected, EscapeSeen, FillAppend, FillSubmit, FillDone
<1>2. ResultsKept'
  <2>1. CASE FillAppend \/ FillDone
    BY <2>1 DEF PInv, ResultsKept, Kept, FillAppend, FillDone, workVars
  <2>2. CASE FillSubmit
    <3>1. /\ nextIndex \in Points /\ worker[nextIndex] = "none"
      BY <2>2, BatchAssumption
         DEF PInv, IInv, TypeOK, FillInStep, SubmittedInOrder, FillSubmit, Points
    <3>2. /\ worker' = [worker EXCEPT ![nextIndex] = "queued"]
          /\ slotFutures' = slotFutures \cup {nextIndex}
          /\ UNCHANGED <<results, outcome>>
          /\ mainPc = "submit" /\ mainPc' = "append"
      BY <2>2 DEF FillSubmit, Submit
    <3>3. worker \in [Points -> WorkerStates]
      BY DEF PInv, IInv, TypeOK
    <3>4. nextIndex \notin Kept /\ Kept' = Kept
      BY <3>1, <3>2 DEF PInv, ResultsKept, Kept
    <3> QED BY <3>1, <3>2, <3>3, <3>4 DEF PInv, ResultsKept, Kept
  <2> QED BY <2>1, <2>2
<1>3. SlotsFull'
  <2>1. CASE FillAppend \/ FillSubmit
    BY <2>1 DEF SlotsFull, FillAppend, FillSubmit
  <2>2. CASE FillDone
    BY <2>2, FuturesBounded, BatchAssumption
       DEF SlotsFull, FillDone, FillMore, MorePoints, PInv, IInv, TypeOK
  <2> QED BY <2>1, <2>2
<1> QED BY <1>1, <1>2, <1>3

LEMMA QuietMainStep ==
  ASSUME PInv, RenderRise \/ RenderWrite \/ Wait \/ Leave \/ ShutdownDone
  PROVE  SlotsFull' /\ ResultsKept' /\ AllCollected' /\ EscapeSeen'
<1>1. UNCHANGED <<nextIndex, slotFutures, results, worker, outcome>>
  BY DEF RenderRise, RenderWrite, Wait, Leave, ShutdownDone, workVars
<1>2. SlotsFull'
  BY <1>1 DEF PInv, SlotsFull, RenderRise, RenderWrite, Wait, Leave, ShutdownDone
<1>3. ResultsKept'
  BY <1>1 DEF PInv, ResultsKept, Kept, RenderRise, RenderWrite, Wait, Leave,
              ShutdownDone
<1>4. EscapeSeen'
  BY <1>1 DEF PInv, EscapeSeen, Submitted, Finished, RenderRise, RenderWrite,
              Wait, Leave, ShutdownDone
<1>5. AllCollected'
  <2>1. CASE RenderWrite
    <3> SUFFICES ASSUME slotFutures = {} PROVE nextIndex = N + 1
      BY <1>1, <2>1 DEF AllCollected, RenderWrite
    <3>1. Cardinality(slotFutures) = 0
      BY FS_EmptySet
    <3> QED BY <2>1, <3>1, BatchAssumption
            DEF RenderWrite, PInv, SlotsFull, IInv, TypeOK
  <2>2. CASE ~RenderWrite
    BY <1>1, <2>2 DEF PInv, AllCollected, RenderRise, Wait, Leave, ShutdownDone
  <2> QED BY <2>1, <2>2
<1> QED BY <1>2, <1>3, <1>4, <1>5

LEMMA RaiseStepP ==
  ASSUME PInv, NEW p \in Points, Raise(p)
  PROVE  SlotsFull' /\ ResultsKept' /\ AllCollected' /\ EscapeSeen'
<1>1. /\ mainPc' = "shutdown" /\ slotFutures' = slotFutures \ {p}
      /\ UNCHANGED <<results, worker, outcome>>
      /\ outcome[p] = "escaped" /\ worker[p] = "done"
  BY DEF Raise, workVars, PInv, IInv, FuturesTrackWorkers
<1> QED BY <1>1 DEF PInv, SlotsFull, ResultsKept, Kept, AllCollected, EscapeSeen

LEMMA CollectStep ==
  ASSUME PInv, NEW p \in Points, Collect(p)
  PROVE  SlotsFull' /\ ResultsKept' /\ AllCollected' /\ EscapeSeen'
<1>1. /\ p \in slotFutures /\ worker[p] = "done" /\ outcome[p] \in {"text", "failed"}
      /\ results' = [results EXCEPT ![p] = outcome[p]]
      /\ mainPc = "collect" /\ mainPc' \in {"render", "collect"}
      /\ UNCHANGED outcome
  BY CollectCommon DEF PInv, IInv, TypeOK, OutcomeAtEnd, Collect, Keep
<1>2. AllCollected' /\ EscapeSeen'
  BY <1>1 DEF AllCollected, EscapeSeen
<1>3. results \in [Points -> {"none", "text", "failed"}]
      /\ worker \in [Points -> WorkerStates]
  BY DEF PInv, IInv, TypeOK
<1>4. Kept' = Kept \cup {p}
  BY <1>1, <1>3 DEF Kept
<1>5. CASE Retire(p)
  <2>1. /\ slotFutures' = slotFutures \ {p} /\ UNCHANGED <<worker, nextIndex>>
        /\ ~(nextIndex <= N)
    BY <1>5 DEF Retire, MorePoints
  <2>2. SlotsFull'
    BY <2>1 DEF SlotsFull
  <2>3. ResultsKept'
    BY <1>1, <1>3, <1>4, <2>1 DEF PInv, ResultsKept, Kept
  <2> QED BY <1>2, <2>2, <2>3
<1>6. CASE Refill(p)
  <2>1. /\ slotFutures' = (slotFutures \ {p}) \cup {nextIndex}
        /\ worker' = [worker EXCEPT ![nextIndex] = "queued"]
        /\ nextIndex <= N /\ nextIndex' = nextIndex + 1
    BY <1>6 DEF Refill, MorePoints, Submit
  <2>2. nextIndex \in Points /\ worker[nextIndex] = "none" /\ nextIndex # p
        /\ nextIndex \notin slotFutures
    BY <1>1, <2>1, BatchAssumption
       DEF PInv, IInv, TypeOK, SubmittedInOrder, FuturesTrackWorkers, Points
  <2>3. Cardinality(slotFutures') = Cardinality(slotFutures)
    <3>1. IsFiniteSet(slotFutures) /\ Cardinality(slotFutures) \in Nat
      BY FuturesBounded DEF PInv
    <3>2. IsFiniteSet(slotFutures \ {p})
          /\ Cardinality(slotFutures \ {p}) = Cardinality(slotFutures) - 1
      BY <1>1, <3>1, FS_RemoveElement
    <3>3. nextIndex \notin slotFutures \ {p}
      BY <2>2
    <3>4. Cardinality((slotFutures \ {p}) \cup {nextIndex}) =
            Cardinality(slotFutures \ {p}) + 1
      BY <3>2, <3>3, FS_AddElement
    <3> QED BY <2>1, <3>1, <3>2, <3>4
  <2>4. SlotsFull'
    BY <1>1, <2>1, <2>3 DEF PInv, SlotsFull
  <2>5. nextIndex \notin Kept
    BY <2>2 DEF PInv, ResultsKept
  <2>6. ResultsKept'
    BY <1>1, <1>3, <1>4, <2>1, <2>2, <2>5 DEF PInv, ResultsKept, Kept
  <2> QED BY <1>2, <2>4, <2>6
<1> QED BY <1>5, <1>6 DEF Collect

LEMMA StepPInv == PInv /\ [Next]_vars => PInv'
<1> SUFFICES ASSUME PInv, [Next]_vars PROVE PInv'
  OBVIOUS
<1>1. IInv'
  BY StepIInv DEF PInv
<1>2. CASE UNCHANGED vars
  BY <1>1, <1>2 DEF vars, mainVars, workVars, PInv, SlotsFull, ResultsKept,
     Kept, AllCollected, EscapeSeen, Submitted, Finished
<1>3. ASSUME NEW p \in Points, WorkerNext(p) PROVE PInv'
  BY <1>1, <1>3, PoolStep DEF PInv
<1>4. CASE MainNext
  <2>1. ASSUME NEW p \in Points, Collect(p) \/ Raise(p) PROVE PInv'
    BY <1>1, <2>1, CollectStep, RaiseStepP DEF PInv
  <2> QED BY <1>1, <1>4, <2>1, FillStep, QuietMainStep DEF MainNext, PInv
<1> QED BY <1>2, <1>3, <1>4 DEF Next, Terminated

\* The parts hold in every reachable state.
THEOREM PInvariance == Spec => []PInv
BY InitPInv, StepPInv, PTL DEF Spec

-----------------------------------------------------------------------------
(* What the caller gets.                                                   *)

\* Returning, main kept the outcome of every point.
LEMMA AllKept ==
  ASSUME PInv, mainPc \in {"leave", "returned"}
  PROVE  /\ Kept = Points
         /\ \A p \in Points : worker[p] = "done" /\ results[p] = outcome[p]
<1>1. slotFutures = {} /\ nextIndex = N + 1
  BY DEF PInv, AllCollected
<1>2. \A p \in Points : worker[p] # "none"
  BY <1>1, BatchAssumption DEF PInv, IInv, SubmittedInOrder, Points
<1>3. Kept = Points
  BY <1>1, <1>2 DEF PInv, ResultsKept, Kept
<1> QED BY <1>3 DEF PInv, ResultsKept

\* The i-th kept result of a full list is that of point i.
LEMMA ReturnedAll ==
  ASSUME Kept = Points
  PROVE  Returned = [p \in Points |-> <<p, results[p]>>]
<1>1. IsFiniteSet(Points) /\ Cardinality(Points) = N
  BY FS_Interval, BatchAssumption DEF Points
<1> DEFINE At(p, i) == Cardinality({q \in Points : q < p}) = i - 1
<1>2. ASSUME NEW p \in Points, NEW i \in Points
      PROVE  At(p, i) <=> p = i
  <2>1. {q \in Points : q < p} = 1..(p - 1) /\ p \in Int /\ i \in Int /\ p >= 1
    BY BatchAssumption DEF Points
  <2>2. Cardinality(1..(p - 1)) = p - 1
    BY <2>1, FS_Interval
  <2>3. Cardinality({q \in Points : q < p}) = p - 1
    BY <2>1, <2>2, Zenon
  <2> QED BY <2>1, <2>3
<1>3. \A i \in Points : KeptAt(i) = CHOOSE p \in Points : At(p, i)
  BY Zenon DEF KeptAt
<1> HIDE DEF At
<1>4. \A i \in Points : KeptAt(i) = i
  BY <1>2, <1>3
<1>5. 1..Cardinality(Kept) = Points
  BY <1>1 DEF Points
<1> QED BY <1>4, <1>5 DEF Returned

\* main waits with a slot idle only when no point is left, however futures end
\* and slots are passed on (xlsx_change_pilot.py:330, 378-400).
THEOREM WorkIsConserved == Spec => []WorkConserving
<1>1. PInv => WorkConserving
  BY DEF PInv, SlotsFull, WorkConserving
<1> QED BY <1>1, PInvariance, PTL

\* The list main() gets has every point once, in order, with what its own
\* process_one returned (xlsx_change_pilot.py:409, 477).
THEOREM ReturnsInOrder == Spec => []ReturnedInOrder
<1>1. PInv => ReturnedInOrder
  <2> SUFFICES ASSUME PInv, mainPc = "returned"
               PROVE  Returned = [p \in Points |-> <<p, outcome[p]>>]
    BY DEF ReturnedInOrder
  <2>1. Kept = Points /\ \A p \in Points : results[p] = outcome[p]
    BY AllKept
  <2>2. Returned = [p \in Points |-> <<p, results[p]>>]
    BY <2>1, ReturnedAll
  <2> QED BY <2>1, <2>2
<1> QED BY <1>1, PInvariance, PTL

-----------------------------------------------------------------------------
(* The refinement: every step is one of the promise, or none.              *)

Flying == {p \in Points : worker[p] \notin {"none", "done"}}

\* What the promise sees of a point.
LEMMA Phases ==
  ASSUME PInv
  PROVE  /\ \A p \in Points :
              /\ phaseBar[p] = "waiting" <=> worker[p] = "none"
              /\ phaseBar[p] = "inflight" <=> p \in Flying
              /\ worker[p] = "done" => phaseBar[p] = outcome[p]
                                       /\ outcome[p] \in {"text", "failed", "escaped"}
         /\ Promise!InFlight = Flying
<1>1. /\ worker \in [Points -> WorkerStates]
      /\ outcome \in [Points -> {"none", "text", "failed", "escaped"}]
      /\ \A p \in Points : worker[p] = "done" => outcome[p] # "none"
  BY DEF PInv, IInv, TypeOK, OutcomeAtEnd
<1>2. \A p \in Points :
        /\ phaseBar[p] = "waiting" <=> worker[p] = "none"
        /\ phaseBar[p] = "inflight" <=> p \in Flying
        /\ worker[p] = "done" => phaseBar[p] = outcome[p]
                                 /\ outcome[p] \in {"text", "failed", "escaped"}
  BY <1>1 DEF phaseBar, Flying
<1>3. Promise!InFlight = Flying
  BY <1>2 DEF Promise!InFlight, Flying, Points
<1> QED BY <1>2, <1>3

\* The promise counts as its implementation does.
LEMMA SameCardinality ==
  ASSUME NEW S PROVE Promise!Cardinality(S) = Cardinality(S)
BY DEF Promise!Cardinality, Cardinality

LEMMA InitPromise == Init => Promise!Init
BY DEF Init, Promise!Init, phaseBar, answerBar, listBar, Points

\* A point that is submitted while fewer than W are in flight is taken.
LEMMA SubmitTakes ==
  ASSUME PInv, nextIndex \in Points, Cardinality(Flying) < W,
         worker' = [worker EXCEPT ![nextIndex] = "queued"], UNCHANGED outcome,
         mainPc \notin {"returned", "raised"}, mainPc' \notin {"returned", "raised"}
  PROVE  Promise!Next
<1>1. worker \in [Points -> WorkerStates]
  BY DEF PInv, IInv, TypeOK
<1>2. \A p \in Points : worker[p] = "none" <=> p >= nextIndex
  BY DEF PInv, IInv, SubmittedInOrder
<1>3. phaseBar[nextIndex] = "waiting"
  BY <1>2, Phases, BatchAssumption DEF Points
<1>4. \A q \in 1..(nextIndex - 1) : phaseBar[q] # "waiting"
  BY <1>2, Phases, BatchAssumption DEF Points
<1>5. Cardinality(Promise!InFlight) < W
  BY Phases
<1>6. phaseBar' = [phaseBar EXCEPT ![nextIndex] = "inflight"]
  BY <1>1 DEF phaseBar
<1>7. UNCHANGED <<answerBar, listBar>>
  BY DEF answerBar, listBar
<1>8. Promise!Take(nextIndex)
  BY <1>3, <1>4, <1>5, <1>6, <1>7, SameCardinality DEF Promise!Take
<1> QED BY <1>8 DEF Promise!Next, Points

LEMMA FillSubmitPromise == ASSUME PInv, FillSubmit PROVE Promise!Next
<1>1. /\ nextIndex \in Points /\ mainPc = "submit" /\ mainPc' = "append"
      /\ worker' = [worker EXCEPT ![nextIndex] = "queued"] /\ UNCHANGED outcome
  BY BatchAssumption DEF FillSubmit, Submit, PInv, IInv, TypeOK, FillInStep, Points
<1>2. Cardinality(slotFutures) = nextIndex - 1 /\ nextIndex <= W
  BY FillCount DEF FillSubmit, PInv, IInv, TypeOK, FillInStep
<1>3. Flying \in SUBSET slotFutures
  BY DEF Flying, PInv, IInv, FuturesTrackWorkers
<1>4. Cardinality(Flying) <= Cardinality(slotFutures) /\ Cardinality(Flying) \in Nat
  BY <1>3, FlyingBounded DEF Flying, PInv
<1>5. Cardinality(Flying) < W
  BY <1>2, <1>4, BatchAssumption DEF PInv, IInv, TypeOK
<1> QED BY <1>1, <1>5, SubmitTakes

LEMMA CollectPromise ==
  ASSUME PInv, NEW p \in Points, Collect(p)
  PROVE  [Promise!Next]_(Promise!vars)
<1>1. /\ p \in slotFutures /\ worker[p] = "done" /\ UNCHANGED outcome
      /\ mainPc = "collect" /\ mainPc' \in {"render", "collect"}
  BY CollectCommon DEF PInv, Collect
<1>2. CASE Retire(p)
  BY <1>1, <1>2 DEF Retire, Promise!vars, phaseBar, answerBar, listBar
<1>3. CASE Refill(p)
  <2>1. nextIndex \in Points /\ worker' = [worker EXCEPT ![nextIndex] = "queued"]
    BY <1>3, BatchAssumption DEF Refill, MorePoints, Submit, PInv, IInv, TypeOK, Points
  <2>2. Flying \in SUBSET slotFutures
    BY DEF Flying, PInv, IInv, FuturesTrackWorkers
  <2>3. Cardinality(Flying) < Cardinality(slotFutures) /\ Cardinality(Flying) \in Nat
    BY <1>1, <2>2, FlyingBounded DEF Flying, PInv
  <2>4. Cardinality(Flying) < W
    BY <2>3, FuturesBounded, BatchAssumption DEF PInv
  <2> QED BY <1>1, <2>1, <2>4, SubmitTakes
<1> QED BY <1>2, <1>3 DEF Collect

\* A future that is resolved decides its point; no other step of a worker shows.
LEMMA WorkerPromise ==
  ASSUME PInv, NEW p \in Points, WorkerNext(p)
  PROVE  [Promise!Next]_(Promise!vars)
<1>1. /\ UNCHANGED <<mainPc, results>>
      /\ worker[p] \notin {"none", "done"} /\ worker'[p] # "none"
      /\ \A q \in Points : q # p => worker'[q] = worker[q]
                                    /\ outcome'[q] = outcome[q]
      /\ worker'[p] = "done" =>
           outcome'[p] = outcome[p] /\ outcome[p] \in {"text", "failed", "escaped"}
  BY WorkerMoves DEF PInv, mainVars
<1>2. UNCHANGED <<answerBar, listBar>>
  BY <1>1 DEF answerBar, listBar, Returned, KeptAt, Kept
<1>3. CASE worker'[p] = "done"
  <2>1. phaseBar[p] = "inflight"
    BY <1>1 DEF phaseBar
  <2>2. phaseBar' = [phaseBar EXCEPT ![p] = outcome[p]]
    BY <1>1, <1>3 DEF phaseBar
  <2>3. Promise!Decide(p)
    BY <1>1, <1>2, <1>3, <2>1, <2>2 DEF Promise!Decide
  <2> QED BY <2>3 DEF Promise!Next, Points
<1>4. CASE worker'[p] # "done"
  <2>1. phaseBar' = phaseBar
    BY <1>1, <1>4 DEF phaseBar
  <2> QED BY <1>2, <2>1 DEF Promise!vars
<1> QED BY <1>3, <1>4

LEMMA LeavePromise == ASSUME PInv, Leave PROVE Promise!Next
<1>1. /\ Kept = Points
      /\ \A p \in Points : worker[p] = "done" /\ results[p] = outcome[p]
  BY AllKept DEF Leave
<1>2. \A p \in Points : phaseBar[p] = results[p] /\ results[p] \in {"text", "failed"}
  BY <1>1, Phases DEF PInv, IInv, TypeOK
<1>3. /\ mainPc = "leave" /\ mainPc' = "returned"
      /\ UNCHANGED <<results, worker, outcome>>
  BY DEF Leave, workVars
<1>4. phaseBar' = phaseBar
  BY <1>3 DEF phaseBar
<1>5. answerBar = "none" /\ answerBar' = "returned"
  BY <1>3 DEF answerBar
<1>6. listBar' = [p \in 1..N |-> <<p, phaseBar[p]>>]
  <2>1. Returned = [p \in Points |-> <<p, results[p]>>]
    BY <1>1, ReturnedAll
  <2>2. Returned' = Returned
    BY <1>3 DEF Returned, KeptAt, Kept
  <2>3. listBar' = Returned'
    BY <1>3 DEF listBar
  <2> QED BY <1>2, <2>1, <2>2, <2>3 DEF Points
<1>7. Promise!Return
  BY <1>2, <1>4, <1>5, <1>6 DEF Promise!Return, Points
<1> QED BY <1>7 DEF Promise!Next

LEMMA ShutdownPromise == ASSUME PInv, ShutdownDone PROVE Promise!Next
<1>1. /\ mainPc = "shutdown" /\ mainPc' = "raised" /\ Submitted = Finished
      /\ UNCHANGED <<results, worker, outcome>>
  BY DEF ShutdownDone, workVars
<1>2. Promise!InFlight = {}
  <2>1. Flying = {}
    BY <1>1 DEF Flying, Submitted, Finished
  <2> QED BY <2>1, Phases
<1>3. \E p \in 1..N : phaseBar[p] = "escaped"
  BY <1>1, Phases DEF PInv, EscapeSeen, Points
<1>4. UNCHANGED <<phaseBar, listBar>> /\ answerBar = "none" /\ answerBar' = "raised"
  BY <1>1 DEF phaseBar, listBar, answerBar
<1>5. Promise!Raise
  BY <1>2, <1>3, <1>4 DEF Promise!Raise
<1> QED BY <1>5 DEF Promise!Next

\* The other steps of main do not show.
LEMMA QuietPromise ==
  ASSUME FillAppend \/ FillDone \/ RenderRise \/ RenderWrite \/ Wait
         \/ \E p \in Points : Raise(p)
  PROVE  UNCHANGED Promise!vars
<1>1. /\ UNCHANGED <<worker, outcome>>
      /\ mainPc \notin {"returned", "raised"} /\ mainPc' \notin {"returned", "raised"}
  BY DEF FillAppend, FillDone, RenderRise, RenderWrite, Wait, Raise, workVars
<1> QED BY <1>1 DEF Promise!vars, phaseBar, answerBar, listBar

LEMMA StepPromise == PInv /\ [Next]_vars => [Promise!Next]_(Promise!vars)
<1> SUFFICES ASSUME PInv, [Next]_vars PROVE [Promise!Next]_(Promise!vars)
  OBVIOUS
<1>1. CASE UNCHANGED vars
  BY <1>1 DEF vars, mainVars, workVars, Promise!vars, phaseBar, answerBar,
     listBar, Returned, KeptAt, Kept
<1>2. ASSUME NEW p \in Points, WorkerNext(p) PROVE [Promise!Next]_(Promise!vars)
  BY <1>2, WorkerPromise
<1>3. CASE MainNext
  <2>1. ASSUME NEW p \in Points, Collect(p) PROVE [Promise!Next]_(Promise!vars)
    BY <2>1, CollectPromise
  <2> QED BY <1>3, <2>1, FillSubmitPromise, LeavePromise, ShutdownPromise,
             QuietPromise DEF MainNext
<1> QED BY <1>1, <1>2, <1>3 DEF Next, Terminated

\* The client implements its promise: points are taken up in order, at most W
\* at a time, each gets one outcome, and the caller gets all of them in order,
\* or an exception once nothing is in flight (xlsx_change_pilot.py:293-409).
THEOREM PromiseIsKept == Spec => KeepsPromise
BY InitPromise, StepPromise, PInvariance, PTL DEF Spec, KeepsPromise, Promise!Spec

-----------------------------------------------------------------------------
(* The counters.                                                           *)

Texts == {p \in Points : outcome[p] = "text"}

\* The attempts that failed: those before the one the worker is in, and that
\* one, if the worker backs off after it or has given up.
FailedTry(p, a) ==
  \/ a < attempt[p]
  \/ a = attempt[p] /\ (worker[p] = "backoff" \/ outcome[p] = "failed")

FailedTries == {t \in Points \X (0..R) : FailedTry(t[1], t[2])}

\* Every request but the escaped ones is counted once, as a text or a failure.
CountsFit ==
  /\ stats.total - stats.failed = Cardinality(Texts)
  /\ stats.failed = Cardinality(FailedTries)

LEMMA SetsAreFinite ==
  /\ IsFiniteSet(Texts) /\ Cardinality(Texts) \in Nat
  /\ IsFiniteSet(FailedTries) /\ Cardinality(FailedTries) \in Nat
  /\ Cardinality(FailedTries) <= N * (R + 1)
<1>1. IsFiniteSet(Points) /\ Cardinality(Points) = N
  BY FS_Interval, BatchAssumption DEF Points
<1>2. IsFiniteSet(0..R) /\ Cardinality(0..R) = R + 1
  BY FS_Interval, BatchAssumption
<1>3. IsFiniteSet(Points \X (0..R)) /\ Cardinality(Points \X (0..R)) = N * (R + 1)
  BY <1>1, <1>2, FS_Product
<1>4. FailedTries \in SUBSET (Points \X (0..R)) /\ Texts \in SUBSET Points
  BY DEF FailedTries, Texts
<1>5. /\ IsFiniteSet(FailedTries) /\ IsFiniteSet(Texts)
      /\ Cardinality(FailedTries) <= N * (R + 1)
  BY <1>1, <1>3, <1>4, FS_Subset
<1> QED BY <1>5, FS_CardinalityType

LEMMA InitCounts == Init => CountsFit
<1> SUFFICES ASSUME Init PROVE CountsFit
  OBVIOUS
<1>1. Texts = {}
  BY DEF Init, Texts
<1>2. FailedTries = {}
  <2> SUFFICES ASSUME NEW p \in Points, NEW a \in 0..R PROVE ~FailedTry(p, a)
    BY DEF FailedTries
  <2> QED BY BatchAssumption DEF Init, FailedTry
<1> QED BY <1>1, <1>2, FS_EmptySet DEF Init, CountsFit

\* A step that neither answers nor changes which attempts failed.
LEMMA QuietCounts ==
  ASSUME CountsFit, UNCHANGED <<outcome, stats>>,
         \A p \in Points : \A a \in 0..R : FailedTry(p, a)' <=> FailedTry(p, a)
  PROVE  CountsFit'
<1>1. FailedTries' = FailedTries
  BY DEF FailedTries
<1>2. Texts' = Texts
  BY DEF Texts
<1> QED BY <1>1, <1>2 DEF CountsFit

LEMMA MainCounts == ASSUME PInv, CountsFit, MainNext PROVE CountsFit'
<1>1. worker \in [Points -> WorkerStates]
  BY DEF PInv, IInv, TypeOK
<1>2. UNCHANGED <<attempt, outcome, stats>>
  BY DEF MainNext, FillAppend, FillSubmit, FillDone, RenderRise, RenderWrite,
     Wait, Collect, Raise, ShutdownDone, Leave, workVars
<1>3. \/ UNCHANGED worker
      \/ nextIndex \in Points /\ worker' = [worker EXCEPT ![nextIndex] = "queued"]
  <2>1. CASE FillSubmit
    BY <2>1, BatchAssumption
       DEF FillSubmit, Submit, PInv, IInv, TypeOK, FillInStep, Points
  <2>2. ASSUME NEW p \in Points, Collect(p)
        PROVE  \/ UNCHANGED worker
               \/ nextIndex \in Points /\ worker' = [worker EXCEPT ![nextIndex] = "queued"]
    BY <2>2, BatchAssumption
       DEF Collect, Refill, Retire, MorePoints, Submit, PInv, IInv, TypeOK, Points
  <2>3. CASE ~FillSubmit /\ ~\E p \in Points : Collect(p)
    BY <2>3 DEF MainNext, FillAppend, FillDone, RenderRise, RenderWrite, Wait,
       Raise, ShutdownDone, Leave, workVars
  <2> QED BY <2>1, <2>2, <2>3
<1>4. CASE UNCHANGED worker
  BY <1>2, <1>4, QuietCounts DEF FailedTry
<1>5. CASE nextIndex \in Points /\ worker' = [worker EXCEPT ![nextIndex] = "queued"]
  <2>1. worker[nextIndex] = "none"
    BY <1>5, BatchAssumption DEF PInv, IInv, SubmittedInOrder, Points
  <2>2. \A p \in Points : worker'[p] = "backoff" <=> worker[p] = "backoff"
    BY <1>1, <1>5, <2>1
  <2> QED BY <1>2, <2>2, QuietCounts DEF FailedTry
<1> QED BY <1>3, <1>4, <1>5

LEMMA WorkerCounts ==
  ASSUME PInv, CountsFit, NEW p \in Points, WorkerNext(p) PROVE CountsFit'
<1>1. /\ worker \in [Points -> WorkerStates] /\ attempt \in [Points -> 0..R]
      /\ outcome \in [Points -> {"none", "text", "failed", "escaped"}]
      /\ stats \in [total : Nat, failed : Nat]
      /\ \A q \in Points : outcome[q] = "none" <=> worker[q] \notin {"finish", "done"}
  BY DEF PInv, IInv, TypeOK, OutcomeAtEnd
<1>2. CASE Start(p) \/ ReportRise(p) \/ ReportWrite(p) \/ Finish(p)
  <2>1. UNCHANGED <<attempt, outcome, stats>>
    BY <1>2 DEF Start, ReportRise, ReportWrite, Finish
  <2>2. \A q \in Points : worker'[q] = "backoff" <=> worker[q] = "backoff"
    BY <1>1, <1>2 DEF Start, ReportRise, ReportWrite, Finish
  <2> QED BY <2>1, <2>2, QuietCounts DEF FailedTry
<1>3. CASE Retry(p)
  <2>1. UNCHANGED <<outcome, stats>>
    BY <1>3 DEF Retry
  <2>2. ASSUME NEW q \in Points, NEW a \in 0..R
        PROVE  FailedTry(q, a)' <=> FailedTry(q, a)
    <3>1. CASE q # p
      BY <1>1, <1>3, <3>1 DEF Retry, FailedTry
    <3>2. CASE q = p
      BY <1>1, <1>3, <3>2, BatchAssumption DEF Retry, FailedTry
    <3> QED BY <3>1, <3>2
  <2> QED BY <2>1, <2>2, QuietCounts
<1>4. CASE AnswerText(p)
  <2>1. Texts' = Texts \cup {p} /\ p \notin Texts
    BY <1>1, <1>4 DEF AnswerText, Texts
  <2>2. Cardinality(Texts') = Cardinality(Texts) + 1
    BY <2>1, SetsAreFinite, FS_AddElement
  <2>3. ASSUME NEW q \in Points, NEW a \in 0..R
        PROVE  FailedTry(q, a)' <=> FailedTry(q, a)
    BY <1>1, <1>4 DEF AnswerText, FailedTry
  <2>4. FailedTries' = FailedTries
    BY <2>3 DEF FailedTries
  <2> QED BY <1>1, <1>4, <2>2, <2>4, SetsAreFinite DEF AnswerText, CountsFit
<1>5. CASE AnswerFail(p)
  <2>1. Texts' = Texts
    BY <1>1, <1>5 DEF AnswerFail, Texts
  <2>2. <<p, attempt[p]>> \in Points \X (0..R) /\ ~FailedTry(p, attempt[p])
    BY <1>1, <1>5, BatchAssumption DEF AnswerFail, FailedTry
  <2>3. ASSUME NEW q \in Points, NEW a \in 0..R
        PROVE  FailedTry(q, a)' <=> FailedTry(q, a) \/ <<q, a>> = <<p, attempt[p]>>
    <3>1. CASE q # p
      BY <1>1, <1>5, <3>1 DEF AnswerFail, FailedTry
    <3>2. CASE q = p
      BY <1>1, <1>5, <3>2, BatchAssumption DEF AnswerFail, FailedTry
    <3> QED BY <3>1, <3>2
  <2>4. FailedTries' = FailedTries \cup {<<p, attempt[p]>>}
        /\ <<p, attempt[p]>> \notin FailedTries
    BY <2>2, <2>3 DEF FailedTries
  <2>5. Cardinality(FailedTries') = Cardinality(FailedTries) + 1
    BY <2>4, SetsAreFinite, FS_AddElement
  <2> QED BY <1>1, <1>5, <2>1, <2>5, SetsAreFinite DEF AnswerFail, CountsFit
<1>6. CASE AnswerEscape(p)
  <2>1. UNCHANGED <<attempt, stats>> /\ Texts' = Texts
    BY <1>1, <1>6 DEF AnswerEscape, Texts
  <2>2. ASSUME NEW q \in Points, NEW a \in 0..R
        PROVE  FailedTry(q, a)' <=> FailedTry(q, a)
    BY <1>1, <1>6 DEF AnswerEscape, FailedTry
  <2>3. FailedTries' = FailedTries
    BY <2>2 DEF FailedTries
  <2> QED BY <2>1, <2>3 DEF CountsFit
<1> QED BY <1>2, <1>3, <1>4, <1>5, <1>6 DEF WorkerNext

LEMMA StepCounts == PInv /\ CountsFit /\ [Next]_vars => CountsFit'
<1> SUFFICES ASSUME PInv, CountsFit, [Next]_vars PROVE CountsFit'
  OBVIOUS
<1>1. CASE UNCHANGED vars
  BY <1>1, QuietCounts DEF vars, workVars, FailedTry
<1> QED BY <1>1, MainCounts, WorkerCounts DEF Next, Terminated

\* The counters that main() prints agree with the successes it counts: though
\* threads count attempts and main counts points, each attempt that did not
\* fail gave one point its text (xlsx_change_pilot.py:57-62, 305-316, 476-486).
THEOREM CountersAddUp == Spec => []ReportAddsUp
<1>1. Spec => []CountsFit
  BY InitCounts, StepCounts, PInvariance, PTL DEF Spec
<1>2. PInv /\ CountsFit => ReportAddsUp
  <2> SUFFICES ASSUME PInv, CountsFit, mainPc = "returned"
               PROVE  /\ stats.total - stats.failed = SuccessCount
                      /\ stats.failed <= N * (R + 1)
    BY DEF ReportAddsUp
  <2>1. Texts = {p \in Points : results[p] = "text"}
    BY AllKept DEF Texts
  <2> QED BY <2>1, SetsAreFinite DEF SuccessCount, CountsFit
<1> QED BY <1>1, <1>2, PInvariance, PTL

-----------------------------------------------------------------------------
(* The cursor.                                                             *)

\* Who paints holds the lock, and who holds it paints.
PaintersLock ==
  /\ mainPc = "paint" <=> terminalLock = Main
  /\ \A p \in Points : worker[p] = "paint" <=> terminalLock = p

\* The first line is there before anyone renders.
FirstLine == mainPc \notin {"append", "submit"} => Len(slots) > 0

\* Between two paints the cursor is below the first line of the block; a paint
\* starts it no higher than the present block is long, since what the fill
\* appended after a paint has risen over is written by that same paint.
CursorFits ==
  /\ ~Interactive => row = 0
  /\ Interactive /\ ~blockRendered => row >= 0 /\ terminalLock = Free
  /\ Interactive /\ blockRendered =>
       row >= IF terminalLock = Free THEN 1 ELSE 1 - Len(slots)

CursorInv == PaintersLock /\ FirstLine /\ CursorFits

LEMMA InitCursor == Init => CursorInv
BY DEF Init, CursorInv, PaintersLock, FirstLine, CursorFits, Points, Free, Main

\* A step that leaves the terminal alone, and does not start or end a paint.
LEMMA QuietCursor ==
  ASSUME CursorInv, UNCHANGED <<row, terminalLock, blockRendered>>,
         Len(slots) \in Nat, Len(slots') \in Nat, row \in Int,
         Len(slots') >= Len(slots),
         mainPc' = "paint" <=> mainPc = "paint",
         \A p \in Points : worker'[p] = "paint" <=> worker[p] = "paint",
         FirstLine'
  PROVE  CursorInv'
<1>1. PaintersLock'
  BY DEF CursorInv, PaintersLock
<1>2. CursorFits'
  BY DEF CursorInv, CursorFits
<1> QED BY <1>1, <1>2 DEF CursorInv

\* A paint that starts: the block is not empty, and the lock was free.
LEMMA RiseCursor ==
  ASSUME CursorInv, PaintRise, row \in Int, Len(slots) \in Nat, Len(slots) > 0,
         terminalLock = Free, terminalLock' # Free, Len(slots') = Len(slots),
         blockRendered \in BOOLEAN
  PROVE  CursorFits'
<1>1. CASE ~Interactive
  BY <1>1 DEF PaintRise, CursorInv, CursorFits
<1>2. CASE Interactive /\ blockRendered
  <2>1. row >= 1 /\ row' = row - Len(slots)
    BY <1>2 DEF PaintRise, CursorInv, CursorFits
  <2>2. blockRendered'
    BY <1>2 DEF PaintRise
  <2> QED BY <1>2, <2>1, <2>2 DEF CursorFits
<1>3. CASE Interactive /\ ~blockRendered
  <2>1. row >= 0 /\ row' = row
    BY <1>3 DEF PaintRise, CursorInv, CursorFits
  <2>2. blockRendered'
    BY <1>3 DEF PaintRise
  <2> QED BY <1>3, <2>1, <2>2 DEF CursorFits
<1> QED BY <1>1, <1>2, <1>3

\* A paint that ends: the whole block was written.
LEMMA WriteCursor ==
  ASSUME CursorInv, PaintWrite, row \in Int, Len(slots) \in Nat,
         terminalLock # Free, terminalLock' = Free, UNCHANGED blockRendered
  PROVE  CursorFits'
BY DEF PaintWrite, CursorInv, CursorFits

LEMMA Lengths ==
  ASSUME IInv
  PROVE  /\ slots \in Seq(Messages) /\ Len(slots) \in Nat /\ row \in Int
         /\ worker \in [Points -> WorkerStates] /\ blockRendered \in BOOLEAN
BY DEF IInv, TypeOK

LEMMA WorkerCursor ==
  ASSUME IInv, IInv', CursorInv, NEW p \in Points, WorkerNext(p) PROVE CursorInv'
<1>1. /\ slots \in Seq(Messages) /\ Len(slots) \in Nat /\ row \in Int
      /\ worker \in [Points -> WorkerStates] /\ blockRendered \in BOOLEAN
      /\ Len(slots') \in Nat
  BY Lengths DEF IInv, TypeOK
<1>2. UNCHANGED mainPc
  BY WorkerMoves DEF mainVars
<1>3. \A q \in Points : q # Free /\ q # Main
  BY DEF Points, Free, Main
<1>4. CASE Start(p) \/ AnswerText(p) \/ AnswerFail(p) \/ AnswerEscape(p)
           \/ Retry(p) \/ Finish(p)
  <2>1. UNCHANGED termVars
    BY <1>4 DEF Start, AnswerText, AnswerFail, AnswerEscape, Retry, Finish
  <2>2. \A q \in Points : worker'[q] = "paint" <=> worker[q] = "paint"
    BY <1>1, <1>4 DEF Start, AnswerText, AnswerFail, AnswerEscape, Retry, Finish
  <2>3. FirstLine'
    BY <1>2, <2>1 DEF termVars, FirstLine, CursorInv
  <2> QED BY <1>1, <1>2, <2>1, <2>2, <2>3, QuietCursor DEF termVars
<1>5. CASE ReportRise(p)
  <2>0. p \in slotFutures
    BY <1>5 DEF ReportRise, IInv, FuturesTrackWorkers
  <2>1. slotOf[p] \in 1..Len(slots)
    BY <1>1, <2>0 DEF IInv, SlotTellsTruth
  <2>2. Len(slots') = Len(slots) /\ Len(slots) > 0
    BY <1>1, <1>5, <2>1 DEF ReportRise
  <2>3. PaintersLock'
    BY <1>1, <1>2, <1>3, <1>5 DEF ReportRise, CursorInv, PaintersLock, Free, Main
  <2>4. CursorFits'
    BY <1>1, <1>3, <1>5, <2>2, RiseCursor DEF ReportRise
  <2>5. FirstLine'
    BY <2>2 DEF FirstLine
  <2> QED BY <2>3, <2>4, <2>5 DEF CursorInv
<1>6. CASE ReportWrite(p)
  <2>1. terminalLock = p
    BY <1>6 DEF ReportWrite, CursorInv, PaintersLock
  <2>2. PaintersLock'
    BY <1>1, <1>2, <1>3, <1>6, <2>1 DEF ReportWrite, CursorInv, PaintersLock, Free, Main
  <2>3. CursorFits'
    BY <1>1, <1>3, <1>6, <2>1, WriteCursor DEF ReportWrite
  <2>4. FirstLine'
    BY <1>2, <1>6 DEF ReportWrite, CursorInv, FirstLine
  <2> QED BY <2>2, <2>3, <2>4 DEF CursorInv
<1> QED BY <1>4, <1>5, <1>6 DEF WorkerNext

LEMMA MainCursor == ASSUME IInv, IInv', CursorInv, MainNext PROVE CursorInv'
<1>1. /\ slots \in Seq(Messages) /\ Len(slots) \in Nat /\ row \in Int
      /\ worker \in [Points -> WorkerStates] /\ blockRendered \in BOOLEAN
      /\ Len(slots') \in Nat
  BY Lengths DEF IInv, TypeOK
<1>2. \A q \in Points : q # Free /\ q # Main
  BY DEF Points, Free, Main
<1>3. CASE FillAppend
  <2>1. Len(slots') = Len(slots) + 1
    BY <1>1, <1>3 DEF FillAppend
  <2> QED BY <1>1, <1>3, <2>1, QuietCursor DEF FillAppend, FirstLine, workVars
<1>4. CASE FillSubmit
  <2>1. \A q \in Points : worker'[q] = "paint" <=> worker[q] = "paint"
    <3>1. nextIndex \in Points /\ worker[nextIndex] = "none"
      BY <1>4, BatchAssumption
         DEF FillSubmit, IInv, TypeOK, FillInStep, SubmittedInOrder, Points
    <3> QED BY <1>1, <1>4, <3>1 DEF FillSubmit, Submit
  <2> QED BY <1>1, <1>4, <2>1, QuietCursor DEF FillSubmit, termVars, FirstLine
<1>5. CASE FillDone
  <2>1. Len(slots) > 0
    <3>1. Len(slots) = nextIndex - 1 /\ Cardinality(slotFutures) = nextIndex - 1
      BY <1>5, FillCount DEF FillDone, IInv, FillInStep
    <3> QED BY <1>5, <3>1, BatchAssumption
            DEF FillDone, FillMore, MorePoints, IInv, TypeOK
  <2>2. UNCHANGED <<slots, row, terminalLock, blockRendered, worker>>
        /\ mainPc = "append" /\ mainPc' = "render"
    BY <1>5 DEF FillDone, termVars, workVars
  <2> QED BY <1>1, <2>1, <2>2, QuietCursor DEF FirstLine
<1>6. CASE RenderRise
  <2>1. Len(slots) > 0 /\ UNCHANGED <<slots, worker>>
    BY <1>6 DEF RenderRise, CursorInv, FirstLine, workVars
  <2>2. PaintersLock'
    BY <1>2, <1>6, <2>1 DEF RenderRise, CursorInv, PaintersLock, Free, Main
  <2>3. CursorFits'
    BY <1>1, <1>6, <2>1, RiseCursor DEF RenderRise, Free, Main
  <2> QED BY <2>1, <2>2, <2>3 DEF CursorInv, FirstLine
<1>7. CASE RenderWrite
  <2>1. terminalLock = Main /\ UNCHANGED <<slots, worker>>
    BY <1>7 DEF RenderWrite, CursorInv, PaintersLock, workVars
  <2>2. PaintersLock'
    BY <1>2, <1>7, <2>1 DEF RenderWrite, CursorInv, PaintersLock, Free, Main
  <2>3. CursorFits'
    BY <1>1, <1>7, <2>1, WriteCursor DEF RenderWrite, Free, Main
  <2>4. FirstLine'
    BY <1>7, <2>1 DEF RenderWrite, CursorInv, FirstLine
  <2> QED BY <2>2, <2>3, <2>4 DEF CursorInv
<1>8. CASE Wait \/ ShutdownDone \/ \E p \in Points : Raise(p)
  <2>1. UNCHANGED <<slots, row, terminalLock, blockRendered, worker>>
        /\ mainPc \notin {"append", "submit", "paint"}
        /\ mainPc' \notin {"append", "submit", "paint"}
    BY <1>8 DEF Wait, ShutdownDone, Raise, termVars, workVars
  <2> QED BY <1>1, <2>1, QuietCursor DEF CursorInv, FirstLine
<1>9. CASE Leave
  <2>1. /\ UNCHANGED <<slots, terminalLock, blockRendered, worker>>
        /\ mainPc = "leave" /\ mainPc' = "returned" /\ terminalLock = Free
        /\ row' = IF Interactive THEN row + 1 ELSE row
    BY <1>9 DEF Leave, workVars
  <2>2. CursorFits'
    BY <1>1, <2>1 DEF CursorInv, CursorFits
  <2> QED BY <2>1, <2>2 DEF CursorInv, PaintersLock, FirstLine
<1>10. ASSUME NEW p \in Points, Collect(p) PROVE CursorInv'
  <2>1. /\ UNCHANGED <<terminalLock, blockRendered, row>>
        /\ mainPc = "collect" /\ mainPc' \in {"render", "collect"}
    BY <1>10, CollectCommon DEF Collect
  <2>2. Len(slots') = Len(slots)
    BY <1>1, <1>10 DEF Collect, Refill, Retire
  <2>3. \A q \in Points : worker'[q] = "paint" <=> worker[q] = "paint"
    <3>1. CASE Retire(p)
      BY <3>1 DEF Retire
    <3>2. CASE Refill(p)
      <4>1. nextIndex \in Points /\ worker[nextIndex] = "none"
        BY <3>2, BatchAssumption
           DEF Refill, MorePoints, IInv, TypeOK, SubmittedInOrder, Points
      <4> QED BY <1>1, <3>2, <4>1 DEF Refill, Submit
    <3> QED BY <1>10, <3>1, <3>2 DEF Collect
  <2> QED BY <1>1, <2>1, <2>2, <2>3, QuietCursor DEF CursorInv, FirstLine
<1> QED BY <1>3, <1>4, <1>5, <1>6, <1>7, <1>8, <1>9, <1>10 DEF MainNext

LEMMA StepCursor == IInv /\ IInv' /\ CursorInv /\ [Next]_vars => CursorInv'
<1> SUFFICES ASSUME IInv, IInv', CursorInv, [Next]_vars PROVE CursorInv'
  OBVIOUS
<1>1. CASE UNCHANGED vars
  BY <1>1 DEF vars, mainVars, termVars, workVars, CursorInv, PaintersLock,
     FirstLine, CursorFits
<1> QED BY <1>1, MainCursor, WorkerCursor DEF Next, Terminated

\* However retries interleave with the fill, the cursor rises at most W - 1
\* lines above the block (xlsx_change_pilot.py:339-365, 378-383).
THEOREM CursorIsNear == Spec => []CursorStaysNear
<1>1. Spec => []CursorInv
  BY InitCursor, StepCursor, Invariance, PTL DEF Spec
<1>2. IInv /\ CursorInv => CursorStaysNear
  BY BatchAssumption
     DEF IInv, TypeOK, CursorInv, CursorFits, CursorStaysNear
<1> QED BY <1>1, <1>2, Invariance, PTL

=============================================================================
