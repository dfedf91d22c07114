--------------------------- MODULE EndToEnd_proofs ---------------------------
(***************************************************************************)
(* Proofs about the batch client and the server together, for any numbers  *)
(* of points, slots, retries and permits.  Each side only takes steps of   *)
(* its own specification, so that what is proved of it holds here too; the *)
(* two inductive invariants then carry what relates the sides.             *)
(***************************************************************************)
EXTENDS EndToEnd, BatchClient_proofs

Attempts == Points \X (0..R)

SP == INSTANCE ChangePilotServer_proofs WITH
        Requests <- Attempts, Kinds <- {Good}

-----------------------------------------------------------------------------
(* The client's side.                                                      *)

\* A step of the whole is one of the client or leaves the client alone.
LEMMA ClientStep == [AllNext]_allVars => [Next]_vars
<1> SUFFICES ASSUME [AllNext]_allVars PROVE [Next]_vars
  OBVIOUS
<1>1. CASE UNCHANGED allVars
  BY <1>1 DEF allVars
<1>2. CASE MainStep
  BY <1>2 DEF MainStep, Next
<1>3. ASSUME NEW p \in Points, WorkerStep(p) PROVE [Next]_vars
  <2>1. CASE Start(p) \/ Retry(p) \/ ReportRise(p) \/ ReportWrite(p) \/ Finish(p)
    BY <2>1 DEF WorkerNext, Next
  <2>2. CASE Send(p)
    BY <2>2 DEF Send
  <2>3. CASE Deliver(p) \/ CutOff(p) \/ GiveUp(p)
    BY <2>3 DEF Deliver, CutOff, GiveUp, WorkerNext, Next
  <2> QED
    BY <1>3, <2>1, <2>2, <2>3 DEF WorkerStep
<1>4. ASSUME NEW r \in Attempts, ServerStep(r) PROVE [Next]_vars
  BY <1>4 DEF ServerStep
<1>5. CASE Terminated
  BY <1>5 DEF Next
<1> QED
  BY <1>1, <1>2, <1>3, <1>4, <1>5 DEF AllNext, Attempts

\* The client that talks to this server is the one that BatchClient specifies
\* for any server: the composition adds no step to process_in_batches
\* (xlsx_change_pilot.py:293-409).
THEOREM ClientImplementsItsSpec == AllSpec => Spec
<1>1. AllInit => Init
  BY DEF AllInit
<1> QED
  BY <1>1, ClientStep, PTL DEF AllSpec, Spec

LEMMA ClientInvariant == AllSpec => []IInv
BY ClientImplementsItsSpec, Invariance, PTL

-----------------------------------------------------------------------------
(* The server's side.                                                      *)

LEMMA CurrentIsAttempt == ASSUME TypeOK, NEW p \in Points PROVE Current(p) \in Attempts
BY DEF TypeOK, Current, Attempts

LEMMA QuietServer == UNCHANGED serverVars => UNCHANGED S!vars
BY DEF serverVars, S!vars, S!semVars

\* A step of the whole is one of the server or leaves the server alone.
LEMMA ServerStepIs == IInv /\ [AllNext]_allVars => [S!Next]_(S!vars)
<1> SUFFICES ASSUME IInv, [AllNext]_allVars PROVE [S!Next]_(S!vars)
  OBVIOUS
<1>1. CASE UNCHANGED allVars
  BY <1>1, QuietServer DEF allVars
<1>2. CASE MainStep
  BY <1>2, QuietServer DEF MainStep
<1>3. ASSUME NEW p \in Points, WorkerStep(p) PROVE [S!Next]_(S!vars)
  <2>0. Current(p) \in Points \X (0..R)
    BY CurrentIsAttempt DEF IInv, Attempts
  <2>1. CASE UNCHANGED serverVars
    BY <2>1, QuietServer
  <2>2. CASE Send(p)
    BY <2>0, <2>2 DEF Send, S!Next
  <2>3. CASE S!Disconnect(Current(p))
    BY <2>0, <2>3 DEF S!Next
  <2> QED
    BY <1>3, <2>1, <2>2, <2>3 DEF WorkerStep, Deliver, CutOff, GiveUp
<1>4. ASSUME NEW r \in Points \X (0..R), ServerStep(r) PROVE [S!Next]_(S!vars)
  BY <1>4 DEF ServerStep, S!Next
<1>5. CASE Terminated /\ UNCHANGED serverVars
  BY <1>5, QuietServer
<1> QED
  BY <1>1, <1>2, <1>3, <1>4, <1>5 DEF AllNext

\* Retries and abandoned requests drive the server through nothing that
\* ChangePilotServer does not allow (xlsx_change_pilot.py:240-260,
\* runtime/runtime.py:37-49).
THEOREM ServerImplementsItsSpec == AllSpec => S!Spec
<1>1. AllInit => S!Init
  BY DEF AllInit
<1> QED
  BY <1>1, ServerStepIs, ClientInvariant, PTL DEF AllSpec, S!Spec

\* The assumptions of ChangePilotServer hold of the constants given to it.
LEMMA ServerAssumptionHolds ==
  /\ SP!IsFiniteSet(Attempts)
  /\ {Good} \subseteq SP!Request
  /\ Replies \subseteq SP!ReplyKinds
  /\ NoKind \notin SP!Request
  /\ M \in Nat \ {0}
  /\ K \in Nat
<1>1. IsFiniteSet(Points) /\ IsFiniteSet(0..R)
  BY BatchAssumption, FS_Interval DEF Points
<1>2. IsFiniteSet(Attempts)
  BY <1>1, FS_Product DEF Attempts
<1>5. SP!IsFiniteSet(Attempts)
  BY <1>2 DEF IsFiniteSet, SP!IsFiniteSet
<1>3. S!Request = SP!Request /\ S!ReplyKinds = SP!ReplyKinds
  BY DEF S!Request, SP!Request, S!ReplyKinds, SP!ReplyKinds
<1>4. Good \in SP!Request
  BY DEF Good, SP!Request
<1> QED
  BY <1>3, <1>4, <1>5, EndToEndAssumption

\* The two instances of the server are one: unfolded, the same formulas.
LEMMA SameServer ==
  /\ S!Init => SP!Init
  /\ [S!Next]_(S!vars) => [SP!Next]_(SP!vars)
<1>1. S!Init => SP!Init
  BY DEF S!Init, SP!Init, Attempts
<1>2. UNCHANGED S!vars => UNCHANGED SP!vars
  BY DEF S!vars, SP!vars, S!semVars, SP!semVars
<1>3. S!Next => SP!Next
  BY DEF S!Next, SP!Next, S!Serve, SP!Serve, S!Receive, SP!Receive,
         S!Reject, SP!Reject, S!Unavailable, SP!Unavailable,
         S!Acquire, SP!Acquire, S!Enqueue, SP!Enqueue, S!Resume, SP!Resume,
         S!ProviderRetry, SP!ProviderRetry, S!ProviderTimeout, SP!ProviderTimeout,
         S!ProviderFailure, SP!ProviderFailure, S!ReplyMalformed, SP!ReplyMalformed,
         S!ReplyInvalid, SP!ReplyInvalid, S!ReplyValid, SP!ReplyValid,
         S!Conclude, SP!Conclude, S!Release, SP!Release, S!WakeNext, SP!WakeNext,
         S!Disconnect, SP!Disconnect, S!Locked, SP!Locked, S!At, SP!At,
         S!Screen, SP!Screen, S!FramingVerdict, SP!FramingVerdict,
         S!RouteVerdict, SP!RouteVerdict, S!BodyVerdict, SP!BodyVerdict,
         S!semVars, SP!semVars, Attempts
<1> QED
  BY <1>1, <1>2, <1>3

LEMMA ServerInit == SP!Init => SP!IInv
BY SP!InitIInv, ServerAssumptionHolds

LEMMA ServerStepKeeps == SP!IInv /\ [SP!Next]_(SP!vars) => (SP!IInv)'
BY SP!StepIInv, ServerAssumptionHolds

LEMMA ServerInvariant == AllSpec => []SP!IInv
BY ServerImplementsItsSpec, SameServer, ServerInit, ServerStepKeeps, PTL
   DEF S!Spec

-----------------------------------------------------------------------------
(* What relates the sides.                                                 *)

Live(r) == stage[r] \notin {"none", "answered"}

\* Whatever the server does for one request, it brings none to life.
LEMMA ServeMoves ==
  ASSUME SP!IInv, NEW r \in Attempts, S!Serve(r), NEW q \in Attempts
  PROVE  /\ gone' = gone
         /\ Live(q)' => Live(q)
<1>1. /\ stage \in [Attempts -> SP!Stages]
      /\ answer \in [Attempts -> SP!Codes \cup {"none"}]
      /\ waiters \in Seq(Attempts)
      /\ \A i \in 1..Len(waiters) : stage[waiters[i]] = "waiting"
  BY DEF SP!IInv, SP!TypeOK, SP!WaitersWait
<1>2. waiters # <<>> => Head(waiters) \in Attempts /\ stage[Head(waiters)] = "waiting"
  BY <1>1
<1>3. ASSUME NEW value, NEW s \in {"calling", "answered"}, Live(r),
             S!WakeNext(value, [stage EXCEPT ![r] = s])
      PROVE  Live(q)' => Live(q)
  BY <1>1, <1>2, <1>3 DEF S!WakeNext, Live
<1>4. CASE S!Reject(r)
  BY <1>1, <1>4 DEF S!Reject, Live
<1>5. CASE S!Unavailable(r)
  BY <1>1, <1>5 DEF S!Unavailable, Live
<1>6. CASE S!Acquire(r) \/ S!Enqueue(r)
  BY <1>1, <1>6 DEF S!Acquire, S!Enqueue, Live
<1>7. CASE S!Resume(r)
  BY <1>1, <1>3, <1>7 DEF S!Resume, Live
<1>8. CASE S!ProviderRetry(r)
  BY <1>1, <1>8 DEF S!ProviderRetry, Live
<1>9. ASSUME NEW reply, NEW code, S!Conclude(r, reply, code)
      PROVE  /\ gone' = gone
             /\ Live(q)' => Live(q)
  BY <1>1, <1>3, <1>9 DEF S!Conclude, S!Release, Live
<1>10. CASE \/ S!ProviderTimeout(r) \/ S!ProviderFailure(r) \/ S!ReplyMalformed(r)
            \/ S!ReplyInvalid(r) \/ S!ReplyValid(r)
  BY <1>9, <1>10 DEF S!ProviderTimeout, S!ProviderFailure, S!ReplyMalformed,
                     S!ReplyInvalid, S!ReplyValid
<1> QED
  BY <1>4, <1>5, <1>6, <1>7, <1>8, <1>10 DEF S!Serve

LEMMA InitAwaited == AllInit => LiveIsAwaited
BY DEF AllInit, Init, S!Init, LiveIsAwaited, Points

\* A step of the client that is not about its request: no call ends, and
\* attempts stay.
LEMMA ClientAlone ==
  ASSUME LiveIsAwaited, IInv, UNCHANGED <<serverVars, attempt>>,
         \A p \in Points : worker[p] = "call" => worker'[p] = "call"
  PROVE  LiveIsAwaited'
BY DEF LiveIsAwaited, Current, serverVars

LEMMA MainKeeps == ASSUME LiveIsAwaited, IInv, MainStep PROVE LiveIsAwaited'
<1>1. UNCHANGED <<serverVars, attempt>>
  BY DEF MainStep, MainNext, FillAppend, FillSubmit, FillDone, RenderRise, RenderWrite,
         Wait, Collect, Raise, ShutdownDone, Leave, workVars
<1>2. ASSUME NEW p \in Points, worker[p] = "call" PROVE worker'[p] = "call"
  <2>1. worker \in [Points -> WorkerStates] /\ p # nextIndex
    BY <1>2, BatchAssumption DEF IInv, TypeOK, SubmittedInOrder, Points
  <2> QED
    BY <1>2, <2>1
       DEF MainStep, MainNext, FillAppend, FillSubmit, FillDone, RenderRise, RenderWrite,
           Wait, Collect, Raise, ShutdownDone, Leave, workVars, Refill, Retire, Submit
<1> QED
  BY <1>1, <1>2, ClientAlone

\* A worker that is about to begin a call, or between two, has no live request.
LEMMA BetweenCalls ==
  ASSUME LiveIsAwaited, IInv, NEW p \in Points, UNCHANGED serverVars,
         worker[p] # "call",
         NEW s, worker' = [worker EXCEPT ![p] = s],
         NEW a, attempt' = [attempt EXCEPT ![p] = a]
  PROVE  LiveIsAwaited'
<1>1. worker \in [Points -> WorkerStates] /\ attempt \in [Points -> 0..R]
  BY DEF IInv, TypeOK
<1> QED
  BY <1>1 DEF LiveIsAwaited, Current, serverVars

\* A call that ends when its request is not live, or not any more.
LEMMA CallEnds ==
  ASSUME LiveIsAwaited, IInv, NEW p \in Points, worker[p] = "call",
         UNCHANGED <<stage, attempt>>, gone \subseteq gone',
         ~Live(Current(p)) \/ Current(p) \in gone',
         NEW s, worker' = [worker EXCEPT ![p] = s]
  PROVE  LiveIsAwaited'
<1>1. worker \in [Points -> WorkerStates] /\ attempt \in [Points -> 0..R]
  BY DEF IInv, TypeOK
<1> QED
  BY <1>1 DEF LiveIsAwaited, Live, Current

LEMMA SendKeeps ==
  ASSUME LiveIsAwaited, IInv, SP!IInv, NEW p \in Points, Send(p)
  PROVE  LiveIsAwaited'
<1>1. /\ stage \in [Attempts -> SP!Stages]
      /\ Current(p) \in Attempts
      /\ UNCHANGED <<answer, gone, worker, outcome, attempt>>
      /\ stage' = [stage EXCEPT ![Current(p)] = "received"]
      /\ stage[Current(p)] = "none" /\ worker[p] = "call"
  BY CurrentIsAttempt DEF SP!IInv, SP!TypeOK, IInv, Send, S!Receive, vars, workVars
<1>2. \A q \in Points : Current(q) \in Attempts /\ Current(q)' = Current(q)
  BY <1>1, CurrentIsAttempt DEF Current, IInv
<1>3. Current(p)[1] = p
  BY DEF Current
<1> QED
  BY <1>1, <1>2, <1>3 DEF LiveIsAwaited, Attempts

LEMMA EndOfCallKeeps ==
  ASSUME LiveIsAwaited, IInv, NEW p \in Points, Deliver(p) \/ CutOff(p) \/ GiveUp(p)
  PROVE  LiveIsAwaited'
<1>1. worker[p] = "call"
  BY DEF Deliver, CutOff, GiveUp, AnswerText, AnswerFail, AnswerEscape
<1>2. CASE Deliver(p)
  BY <1>1, <1>2, CallEnds DEF Deliver, AnswerText, AnswerFail, serverVars, Live
<1>3. CASE CutOff(p)
  BY <1>1, <1>3, CallEnds DEF CutOff, AnswerEscape, serverVars, Live
<1>4. CASE GiveUp(p)
  <2>1. /\ UNCHANGED <<stage, attempt>>
        /\ gone \subseteq gone'
        /\ ~Live(Current(p)) \/ Current(p) \in gone'
    BY <1>4 DEF GiveUp, AnswerFail, S!Disconnect, serverVars, S!semVars, Live
  <2> QED
    BY <1>1, <1>4, <2>1, CallEnds DEF GiveUp, AnswerFail
<1> QED
  BY <1>2, <1>3, <1>4

LEMMA WorkerKeeps ==
  ASSUME LiveIsAwaited, IInv, SP!IInv, NEW p \in Points, WorkerStep(p) PROVE LiveIsAwaited'
<1>1. CASE \/ Start(p) /\ UNCHANGED serverVars
           \/ Retry(p) /\ UNCHANGED serverVars
           \/ ReportRise(p) /\ UNCHANGED serverVars
           \/ ReportWrite(p) /\ UNCHANGED serverVars
  <2>1. attempt = [attempt EXCEPT ![p] = attempt[p]]
    BY DEF IInv, TypeOK
  <2>2. /\ UNCHANGED serverVars
        /\ worker[p] # "call"
        /\ \E s : worker' = [worker EXCEPT ![p] = s]
        /\ \E a : attempt' = [attempt EXCEPT ![p] = a]
    BY <1>1, <2>1 DEF Start, Retry, ReportRise, ReportWrite
  <2> QED
    BY <2>2, BetweenCalls
<1>2. CASE Finish(p) /\ UNCHANGED serverVars
  BY <1>2, ClientAlone DEF Finish, IInv, TypeOK
<1>3. CASE Send(p)
  BY <1>3, SendKeeps
<1>4. CASE Deliver(p) \/ CutOff(p) \/ GiveUp(p)
  BY <1>4, EndOfCallKeeps
<1> QED
  BY <1>1, <1>2, <1>3, <1>4 DEF WorkerStep

LEMMA ServerKeeps ==
  ASSUME LiveIsAwaited, IInv, SP!IInv, NEW r \in Attempts, ServerStep(r) PROVE LiveIsAwaited'
<1>1. \A q \in Attempts : gone' = gone /\ (Live(q)' => Live(q))
  BY ServeMoves DEF ServerStep
<1>2. UNCHANGED <<worker, attempt>>
  BY DEF ServerStep, vars, workVars
<1> QED
  BY <1>1, <1>2 DEF LiveIsAwaited, Attempts, Live, Current

LEMMA StepAwaited == LiveIsAwaited /\ IInv /\ SP!IInv /\ [AllNext]_allVars => LiveIsAwaited'
<1> SUFFICES ASSUME LiveIsAwaited, IInv, SP!IInv, [AllNext]_allVars PROVE LiveIsAwaited'
  OBVIOUS
<1>1. CASE UNCHANGED allVars \/ (Terminated /\ UNCHANGED serverVars)
  <2>1. UNCHANGED <<serverVars, attempt, worker>>
    BY <1>1 DEF allVars, Terminated, vars, workVars
  <2> QED
    BY <2>1, ClientAlone
<1>2. CASE MainStep
  BY <1>2, MainKeeps
<1>3. CASE \E p \in Points : WorkerStep(p)
  BY <1>3, WorkerKeeps
<1>4. CASE \E r \in Attempts : ServerStep(r)
  BY <1>4, ServerKeeps
<1> QED
  BY <1>1, <1>2, <1>3, <1>4 DEF AllNext, Attempts

-----------------------------------------------------------------------------
(* Theorems.                                                               *)

\* What the server works on is awaited by its own worker, or known to be
\* abandoned, for any numbers of points, retries and permits
\* (xlsx_change_pilot.py:251, 307-318).
THEOREM LiveRequestsAreAwaited == AllSpec => []LiveIsAwaited
BY InitAwaited, StepAwaited, ClientInvariant, ServerInvariant, PTL DEF AllSpec

\* However often the client gives up and retries, no permit of the server is
\* lost or made up, and none lies idle while a request waits
\* (runtime/runtime.py:42-44).
THEOREM PermitsSurviveRetries == AllSpec => [](SP!PermitsConserved /\ SP!NoLostWakeup)
<1>1. SP!IInv => SP!PermitsConserved /\ SP!NoLostWakeup
  BY DEF SP!IInv
<1> QED
  BY <1>1, ServerInvariant, PTL

\* The client's own invariants hold with this server: a slot of the terminal
\* has one point at a time and tells its attempt, and at most W requests are in
\* flight, the retries included (xlsx_change_pilot.py:330, 361-397).
THEOREM ClientStaysSafe ==
  AllSpec => [](TypeOK /\ SlotsExclusive /\ SlotTellsTruth /\ InFlightBounded)
BY ClientImplementsItsSpec, TypeCorrect, SlotsAreExclusive, SlotsTellTheTruth,
   InFlightIsBounded, PTL

=============================================================================
