---------------------- MODULE ChangePilotServer_proofs ----------------------
(***************************************************************************)
(* Proofs about ChangePilotServer, for any finite set of requests, number  *)
(* of permits and number of retries.                                       *)
(***************************************************************************)
EXTENDS ChangePilotServer, TLAPS, FiniteSetTheorems, SequenceTheorems

\* The queue holds requests that wait, each once.
WaitersWait ==
  /\ \A i \in 1..Len(waiters) : stage[waiters[i]] = "waiting"
  /\ \A i, j \in 1..Len(waiters) : waiters[i] = waiters[j] => i = j

\* A request that arrived looks like one, and one that got as far as the
\* semaphore, or to the provider, passed every check.
OnlyScreened ==
  \A r \in Requests :
    /\ stage[r] # "none" => kind[r] \in Kinds
    /\ stage[r] \in {"waiting", "granted", "calling"} \/ attempts[r] > 0 =>
         runtime = "configured" /\ Screen(kind[r]) = "pass" /\ stage[r] # "none"

IInv == TypeOK /\ WaitersWait /\ PermitsConserved /\ NoLostWakeup /\ OnlyScreened

\* Screening ends in a code of an answer, or lets the request pass ...
LEMMA ScreenCodes ==
  ASSUME NEW q \in Request PROVE Screen(q) \in Codes \cup {"pass"}
BY DEF Request, Screen, FramingVerdict, RouteVerdict, BodyVerdict, Codes

\* ... and only a request that is right in every respect passes.
LEMMA ScreenPass ==
  ASSUME NEW q \in Request, Screen(q) = "pass"
  PROVE  q = [framing |-> "length", target |-> "post",
              json |-> TRUE, auth |-> TRUE, fields |-> TRUE]
<1>1. q.framing = "length" /\ q.target = "post"
  BY DEF Request, Screen, FramingVerdict, RouteVerdict, BodyVerdict
<1>2. q.json /\ q.auth /\ q.fields
  BY DEF Request, Screen, FramingVerdict, RouteVerdict, BodyVerdict
<1>3. q.json = TRUE /\ q.auth = TRUE /\ q.fields = TRUE
  BY <1>2 DEF Request
<1> QED
  BY <1>1, <1>3 DEF Request

\* The requests that hold a permit under a stage function.
HoldersOf(next) == {r \in Requests : next[r] \in {"granted", "calling"}}

LEMMA HoldersFinite ==
  ASSUME NEW next
  PROVE  IsFiniteSet(HoldersOf(next)) /\ Cardinality(HoldersOf(next)) \in Nat
<1>1. HoldersOf(next) \in SUBSET Requests
  BY DEF HoldersOf
<1>2. IsFiniteSet(HoldersOf(next))
  BY <1>1, FS_Subset, ServerAssumption
<1> QED
  BY <1>2, FS_CardinalityType

LEMMA HoldersAreHolders ==
  Holders = HoldersOf(stage) /\ Holders' = HoldersOf(stage')
BY DEF Holders, HoldersOf, At

\* Waking the next waiter keeps the sum of free and held permits, keeps the
\* queue in order, and leaves no free permit beside a waiter unannounced.
LEMMA WakeNextKeeps ==
  ASSUME TypeOK, NEW value \in Int, NEW next \in [Requests -> Stages],
         value > 0,
         \A i \in 1..Len(waiters) : next[waiters[i]] = "waiting",
         \A i, j \in 1..Len(waiters) : waiters[i] = waiters[j] => i = j,
         WakeNext(value, next)
  PROVE  /\ stage' \in [Requests -> Stages]
         /\ waiters' \in Seq(Requests)
         /\ permits' \in Int /\ permits' >= 0
         /\ WaitersWait'
         /\ NoLostWakeup'
         /\ permits' + Cardinality(HoldersOf(stage'))
              = value + Cardinality(HoldersOf(next))
<1>1. CASE waiters = <<>>
  <2>1. permits' = value /\ stage' = next /\ waiters' = <<>>
    BY <1>1 DEF WakeNext
  <2> QED
    BY <2>1 DEF WaitersWait, NoLostWakeup
<1>2. CASE waiters # <<>>
  <2> DEFINE h == Head(waiters)
  <2>1. waiters \in Seq(Requests) /\ Len(waiters) \in Nat \ {0}
    BY <1>2, EmptySeq DEF TypeOK
  <2>2. h \in Requests /\ h = waiters[1] /\ next[h] = "waiting"
    BY <1>2, <2>1
  <2>3. /\ permits' = value - 1
        /\ stage' = [next EXCEPT ![h] = "granted"]
        /\ waiters' = Tail(waiters)
    BY <1>2 DEF WakeNext
  <2>4. /\ Tail(waiters) \in Seq(Requests)
        /\ Len(Tail(waiters)) = Len(waiters) - 1
        /\ \A i \in 1..Len(Tail(waiters)) : Tail(waiters)[i] = waiters[i + 1]
    BY <1>2, <2>1, HeadTailProperties
  <2>5. stage' \in [Requests -> Stages]
    BY <2>2, <2>3 DEF Stages
  <2>6. WaitersWait'
    <3>1. ASSUME NEW i \in 1..Len(Tail(waiters))
          PROVE  stage'[waiters[i + 1]] = "waiting"
      <4>1. i + 1 \in 1..Len(waiters) /\ i + 1 # 1 /\ 1 \in 1..Len(waiters)
        BY <2>1, <2>4
      <4>2. waiters[i + 1] # h /\ waiters[i + 1] \in Requests
        BY <2>1, <2>2, <4>1
      <4> QED
        BY <2>3, <4>1, <4>2
    <3>2. ASSUME NEW i \in 1..Len(Tail(waiters)), NEW j \in 1..Len(Tail(waiters)),
                 waiters[i + 1] = waiters[j + 1]
          PROVE  i = j
      <4>1. i + 1 \in 1..Len(waiters) /\ j + 1 \in 1..Len(waiters)
        BY <2>1, <2>4
      <4> QED
        BY <3>2, <4>1
    <3> QED
      BY <2>3, <2>4, <3>1, <3>2 DEF WaitersWait
  <2>7. NoLostWakeup'
    BY <2>2, <2>3 DEF NoLostWakeup, At
  <2>8. HoldersOf(stage') = HoldersOf(next) \cup {h} /\ h \notin HoldersOf(next)
    BY <2>2, <2>3 DEF HoldersOf
  <2>9. Cardinality(HoldersOf(stage')) = Cardinality(HoldersOf(next)) + 1
    BY <2>8, HoldersFinite, FS_AddElement
  <2>10. /\ permits' \in Int /\ permits' >= 0
         /\ permits' + Cardinality(HoldersOf(stage'))
              = value + Cardinality(HoldersOf(next))
    <3>1. Cardinality(HoldersOf(next)) \in Nat
      BY HoldersFinite
    <3> QED
      BY <2>3, <2>9, <3>1
  <2> QED
    BY <2>3, <2>4, <2>5, <2>6, <2>7, <2>10
<1> QED
  BY <1>1, <1>2

-----------------------------------------------------------------------------
(* The steps.                                                              *)

LEMMA InitIInv == Init => IInv
<1> SUFFICES ASSUME Init PROVE IInv
  OBVIOUS
<1>1. TypeOK
  <2>1. waiters \in Seq(Requests) /\ permits \in 0..M
    BY ServerAssumption DEF Init
  <2>2. attempts \in [Requests -> 0..(K + 1)]
    BY ServerAssumption DEF Init
  <2>3. stage \in [Requests -> Stages]
    BY DEF Init, Stages
  <2> QED
    BY <2>1, <2>2, <2>3 DEF Init, TypeOK
<1>2. WaitersWait /\ NoLostWakeup /\ OnlyScreened
  BY DEF Init, WaitersWait, NoLostWakeup, OnlyScreened
<1>3. PermitsConserved
  <2>1. Holders = {}
    BY DEF Init, Holders, At
  <2> QED
    BY <2>1, FS_EmptySet, ServerAssumption DEF Init, PermitsConserved
<1> QED
  BY <1>1, <1>2, <1>3 DEF IInv

\* A step that leaves the semaphore alone and moves a request between stages
\* that have nothing to do with it.
LEMMA Outside ==
  ASSUME IInv, TypeOK', OnlyScreened', UNCHANGED semVars, NEW r \in Requests, NEW s,
         stage' = [stage EXCEPT ![r] = s],
         stage[r] \in {"none", "received"}, s \in {"received", "answered"}
  PROVE  IInv'
<1>1. WaitersWait'
  BY DEF IInv, TypeOK, WaitersWait, semVars
<1>2. At("granted")' = At("granted") /\ Holders' = Holders
  BY DEF IInv, TypeOK, Holders, At
<1>3. PermitsConserved' /\ NoLostWakeup'
  BY <1>2 DEF IInv, PermitsConserved, NoLostWakeup, semVars
<1> QED
  BY <1>1, <1>3 DEF IInv

LEMMA ReceiveStep ==
  ASSUME IInv, NEW r \in Requests, NEW q \in Kinds, Receive(r, q) PROVE IInv'
<1>1. TypeOK'
  BY DEF IInv, TypeOK, Receive, semVars, Stages
<1>2. OnlyScreened'
  BY DEF IInv, TypeOK, OnlyScreened, Receive
<1> QED
  BY <1>1, <1>2, Outside DEF Receive, IInv

LEMMA RejectStep ==
  ASSUME IInv, NEW r \in Requests, Reject(r) PROVE IInv'
<1>1. kind[r] \in Request
  BY ServerAssumption DEF IInv, OnlyScreened, Reject
<1>2. Screen(kind[r]) \in Codes
  BY <1>1, ScreenCodes DEF Reject
<1>3. TypeOK'
  BY <1>2 DEF IInv, TypeOK, Reject, semVars, Stages
<1>4. OnlyScreened'
  BY DEF IInv, TypeOK, OnlyScreened, Reject
<1> QED
  BY <1>3, <1>4, Outside DEF Reject, IInv

LEMMA UnavailableStep ==
  ASSUME IInv, NEW r \in Requests, Unavailable(r) PROVE IInv'
<1>1. TypeOK'
  BY DEF IInv, TypeOK, Unavailable, semVars, Stages, Codes
<1>2. OnlyScreened'
  BY DEF IInv, TypeOK, OnlyScreened, Unavailable
<1> QED
  BY <1>1, <1>2, Outside DEF Unavailable, IInv

\* A permit is taken: one free permit less, one holder more.
LEMMA AcquireStep == ASSUME IInv, NEW r \in Requests, Acquire(r) PROVE IInv'
<1>1. permits \in 1..M /\ waiters = <<>>
  BY ServerAssumption DEF IInv, TypeOK, Acquire, Locked
<1>2. TypeOK'
  <2>1. permits' \in 0..M
    BY <1>1, ServerAssumption DEF Acquire
  <2>2. attempts' \in [Requests -> 0..(K + 1)]
    BY ServerAssumption DEF IInv, TypeOK, Acquire
  <2>3. stage' \in [Requests -> Stages]
    BY DEF IInv, TypeOK, Acquire, Stages
  <2> QED
    BY <2>1, <2>2, <2>3 DEF IInv, TypeOK, Acquire
<1>3. WaitersWait' /\ NoLostWakeup'
  BY <1>1 DEF WaitersWait, NoLostWakeup, Acquire
<1>4. PermitsConserved'
  <2>1. HoldersOf(stage') = HoldersOf(stage) \cup {r} /\ r \notin HoldersOf(stage)
    BY DEF IInv, TypeOK, Acquire, HoldersOf
  <2>2. Cardinality(Holders') = Cardinality(Holders) + 1
    BY <2>1, HoldersFinite, HoldersAreHolders, FS_AddElement
  <2>3. Cardinality(Holders) \in Nat
    BY HoldersFinite, HoldersAreHolders
  <2> QED
    BY <1>1, <2>2, <2>3, ServerAssumption DEF IInv, PermitsConserved, Acquire
<1>5. OnlyScreened'
  BY DEF IInv, TypeOK, OnlyScreened, Acquire
<1> QED
  BY <1>2, <1>3, <1>4, <1>5 DEF IInv

\* The semaphore is locked, so a free permit is already announced.
LEMMA EnqueueStep == ASSUME IInv, NEW r \in Requests, Enqueue(r) PROVE IInv'
<1>1. /\ waiters' \in Seq(Requests)
      /\ Len(waiters') = Len(waiters) + 1
      /\ \A i \in 1..Len(waiters) : waiters'[i] = waiters[i]
      /\ waiters'[Len(waiters) + 1] = r
      /\ Len(waiters) \in Nat
  BY AppendProperties DEF IInv, TypeOK, Enqueue
<1>2. TypeOK'
  BY <1>1 DEF IInv, TypeOK, Enqueue, Stages
<1>3. \A i \in 1..Len(waiters) : waiters[i] # r
  BY DEF IInv, WaitersWait, Enqueue
<1>4. WaitersWait'
  <2>1. ASSUME NEW i \in 1..Len(waiters') PROVE stage'[waiters'[i]] = "waiting"
    <3>1. CASE i = Len(waiters) + 1
      BY <1>1, <3>1 DEF IInv, TypeOK, Enqueue
    <3>2. CASE i # Len(waiters) + 1
      <4>1. i \in 1..Len(waiters) /\ waiters[i] \in Requests
        BY <1>1, <3>2 DEF IInv, TypeOK
      <4> QED
        BY <1>1, <1>3, <4>1 DEF IInv, TypeOK, WaitersWait, Enqueue
    <3> QED
      BY <3>1, <3>2
  <2>2. ASSUME NEW i \in 1..Len(waiters'), NEW j \in 1..Len(waiters'),
               waiters'[i] = waiters'[j]
        PROVE  i = j
    BY <1>1, <1>3, <2>2 DEF IInv, WaitersWait
  <2> QED
    BY <2>1, <2>2 DEF WaitersWait
<1>5. At("granted")' = At("granted") /\ Holders' = Holders
  BY DEF IInv, TypeOK, Holders, At, Enqueue
<1>6. PermitsConserved'
  BY <1>5 DEF IInv, PermitsConserved, Enqueue
<1>7. NoLostWakeup'
  BY <1>5 DEF IInv, TypeOK, NoLostWakeup, Enqueue, Locked
<1>8. OnlyScreened'
  BY DEF IInv, TypeOK, OnlyScreened, Enqueue
<1> QED
  BY <1>2, <1>4, <1>6, <1>7, <1>8 DEF IInv

\* A step that may wake a waiter: the waiter passed every check when it queued.
LEMMA WakingKeepsScreened ==
  ASSUME IInv, NEW r \in Requests, NEW s \in {"calling", "answered"},
         stage[r] \in {"granted", "calling"},
         NEW value, WakeNext(value, [stage EXCEPT ![r] = s]),
         UNCHANGED <<runtime, kind>>,
         \A x \in Requests \ {r} : attempts'[x] = attempts[x]
  PROVE  OnlyScreened'
<1> DEFINE h == Head(waiters)
<1>1. CASE waiters = <<>>
  <2>1. stage' = [stage EXCEPT ![r] = s]
    BY <1>1 DEF WakeNext
  <2> QED
    BY <2>1 DEF IInv, TypeOK, OnlyScreened
<1>2. CASE waiters # <<>>
  <2>1. h \in Requests /\ stage[h] = "waiting"
    <3>1. waiters \in Seq(Requests) /\ Len(waiters) \in Nat \ {0} /\ h = waiters[1]
      BY <1>2, EmptySeq DEF IInv, TypeOK
    <3> QED
      BY <3>1 DEF IInv, WaitersWait
  <2>2. stage' = [stage EXCEPT ![r] = s, ![h] = "granted"]
    BY <1>2 DEF WakeNext
  <2> QED
    BY <2>1, <2>2 DEF IInv, TypeOK, OnlyScreened
<1> QED
  BY <1>1, <1>2

\* The woken request becomes the caller; a permit left over wakes another.
LEMMA ResumeStep == ASSUME IInv, NEW r \in Requests, Resume(r) PROVE IInv'
<1> DEFINE next == [stage EXCEPT ![r] = "calling"]
<1>1. /\ next \in [Requests -> Stages]
      /\ HoldersOf(next) = HoldersOf(stage)
      /\ \A i \in 1..Len(waiters) : next[waiters[i]] = "waiting"
  BY DEF IInv, TypeOK, WaitersWait, HoldersOf, Resume, Stages
<1>2. attempts' \in [Requests -> 0..(K + 1)]
  BY ServerAssumption DEF IInv, TypeOK, Resume
<1>3. permits \in Int /\ Cardinality(HoldersOf(stage)) \in Nat
      /\ permits + Cardinality(HoldersOf(stage)) = M
  BY ServerAssumption, HoldersAreHolders, HoldersFinite
     DEF IInv, TypeOK, PermitsConserved
<1>4. CASE permits > 0
  <2>1. WakeNext(permits, next)
    BY <1>4 DEF Resume
  <2>2. /\ stage' \in [Requests -> Stages]
        /\ waiters' \in Seq(Requests)
        /\ permits' \in Int /\ permits' >= 0
        /\ WaitersWait' /\ NoLostWakeup'
        /\ permits' + Cardinality(HoldersOf(stage')) = M
    <3>1. /\ TypeOK
          /\ \A i, j \in 1..Len(waiters) : waiters[i] = waiters[j] => i = j
      BY DEF IInv, WaitersWait
    <3>2. /\ stage' \in [Requests -> Stages]
          /\ waiters' \in Seq(Requests)
          /\ permits' \in Int /\ permits' >= 0
          /\ WaitersWait' /\ NoLostWakeup'
          /\ permits' + Cardinality(HoldersOf(stage'))
               = permits + Cardinality(HoldersOf(next))
      <4>1. permits \in Int /\ permits > 0
        BY <1>3, <1>4
      <4> HIDE DEF next
      <4> QED
        BY <1>1, <2>1, <3>1, <4>1, WakeNextKeeps
    <3> QED
      BY <1>1, <1>3, <3>2
  <2>3. Cardinality(HoldersOf(stage')) \in Nat
    BY HoldersFinite
  <2>4. permits' \in 0..M /\ PermitsConserved'
    BY <2>2, <2>3, HoldersAreHolders, ServerAssumption DEF PermitsConserved
  <2>5. TypeOK'
    BY <1>2, <2>2, <2>4 DEF IInv, TypeOK, Resume
  <2>6. OnlyScreened'
    BY <2>1, WakingKeepsScreened DEF IInv, TypeOK, Resume
  <2> QED
    BY <2>2, <2>4, <2>5, <2>6 DEF IInv
<1>5. CASE ~(permits > 0)
  <2>1. stage' = next /\ UNCHANGED semVars
    BY <1>5 DEF Resume
  <2>2. TypeOK'
    BY <1>1, <1>2, <2>1 DEF IInv, TypeOK, Resume, semVars
  <2>3. WaitersWait' /\ NoLostWakeup'
    BY <1>1, <1>3, <1>5, <2>1 DEF IInv, WaitersWait, NoLostWakeup, semVars
  <2>4. PermitsConserved'
    BY <1>1, <1>3, <2>1, HoldersAreHolders DEF PermitsConserved, semVars
  <2>5. OnlyScreened'
    BY <2>1 DEF IInv, TypeOK, OnlyScreened, Resume
  <2> QED
    BY <2>2, <2>3, <2>4, <2>5 DEF IInv
<1> QED
  BY <1>4, <1>5

LEMMA ProviderRetryStep ==
  ASSUME IInv, NEW r \in Requests, ProviderRetry(r) PROVE IInv'
<1>1. attempts' \in [Requests -> 0..(K + 1)]
  <2>1. attempts[r] \in 0..(K + 1) /\ attempts[r] + 1 \in 0..(K + 1)
    BY ServerAssumption DEF IInv, TypeOK, ProviderRetry
  <2> QED
    BY <2>1 DEF IInv, TypeOK, ProviderRetry
<1>2. TypeOK'
  BY <1>1 DEF IInv, TypeOK, ProviderRetry, semVars
<1>3. WaitersWait' /\ NoLostWakeup' /\ PermitsConserved'
  BY DEF IInv, WaitersWait, NoLostWakeup, PermitsConserved, Holders, At,
         ProviderRetry, semVars
<1>4. OnlyScreened'
  BY DEF IInv, TypeOK, OnlyScreened, ProviderRetry
<1> QED
  BY <1>2, <1>3, <1>4 DEF IInv

\* A permit comes back: one holder less, and the permit is free or passed on.
LEMMA ConcludeStep ==
  ASSUME IInv, NEW r \in Requests, NEW reply, NEW code \in Codes,
         Conclude(r, reply, code)
  PROVE  IInv'
<1> DEFINE next == [stage EXCEPT ![r] = "answered"]
<1>1. /\ next \in [Requests -> Stages]
      /\ HoldersOf(next) = HoldersOf(stage) \ {r}
      /\ r \in HoldersOf(stage)
      /\ \A i \in 1..Len(waiters) : next[waiters[i]] = "waiting"
  BY DEF IInv, TypeOK, WaitersWait, HoldersOf, Conclude, Stages
<1>2. /\ permits \in Int /\ permits >= 0
      /\ Cardinality(HoldersOf(stage)) \in Nat
      /\ permits + Cardinality(HoldersOf(stage)) = M
  BY ServerAssumption, HoldersAreHolders, HoldersFinite
     DEF IInv, TypeOK, PermitsConserved
<1>3. Cardinality(HoldersOf(next)) = Cardinality(HoldersOf(stage)) - 1
  BY <1>1, HoldersFinite, FS_RemoveElement
<1>4. WakeNext(permits + 1, next)
  BY DEF Conclude, Release
<1>5. /\ stage' \in [Requests -> Stages]
      /\ waiters' \in Seq(Requests)
      /\ permits' \in Int /\ permits' >= 0
      /\ WaitersWait' /\ NoLostWakeup'
      /\ permits' + Cardinality(HoldersOf(stage'))
           = permits + 1 + Cardinality(HoldersOf(next))
  <2>1. permits + 1 \in Int /\ permits + 1 > 0
    BY <1>2
  <2> QED
    BY <1>1, <1>4, <2>1, WakeNextKeeps DEF IInv, WaitersWait
<1>6. permits' + Cardinality(HoldersOf(stage')) = M
  BY <1>2, <1>3, <1>5
<1>7. Cardinality(HoldersOf(stage')) \in Nat
  BY HoldersFinite
<1>8. permits' \in 0..M /\ PermitsConserved'
  BY <1>5, <1>6, <1>7, HoldersAreHolders, ServerAssumption DEF PermitsConserved
<1>9. TypeOK'
  BY <1>5, <1>8 DEF IInv, TypeOK, Conclude
<1>10. OnlyScreened'
  BY <1>4, WakingKeepsScreened DEF Conclude
<1> QED
  BY <1>5, <1>8, <1>9, <1>10 DEF IInv

LEMMA DisconnectStep ==
  ASSUME IInv, NEW r \in Requests, Disconnect(r) PROVE IInv'
<1>1. TypeOK'
  BY DEF IInv, TypeOK, Disconnect, semVars
<1>2. WaitersWait' /\ NoLostWakeup' /\ PermitsConserved'
  BY DEF IInv, WaitersWait, NoLostWakeup, PermitsConserved, Holders, At,
         Disconnect, semVars
<1>3. OnlyScreened'
  BY DEF IInv, OnlyScreened, Disconnect
<1> QED
  BY <1>1, <1>2, <1>3 DEF IInv

LEMMA StepIInv == IInv /\ [Next]_vars => IInv'
<1> SUFFICES ASSUME IInv, [Next]_vars PROVE IInv'
  OBVIOUS
<1>1. CASE UNCHANGED vars
  BY <1>1 DEF vars, semVars, IInv, TypeOK, WaitersWait, PermitsConserved,
     NoLostWakeup, OnlyScreened, Holders, At
<1>2. ASSUME NEW r \in Requests, Serve(r) PROVE IInv'
  <2>1. CASE \E reply \in ReplyKinds, code \in Codes : Conclude(r, reply, code)
    BY <2>1, ConcludeStep
  <2>2. CASE \/ ProviderTimeout(r) \/ ProviderFailure(r) \/ ReplyMalformed(r)
             \/ ReplyInvalid(r) \/ ReplyValid(r)
    BY <2>1, <2>2 DEF ProviderTimeout, ProviderFailure, ReplyMalformed,
       ReplyInvalid, ReplyValid, ReplyKinds, Codes
  <2> QED
    BY <1>2, <2>2, RejectStep, UnavailableStep, AcquireStep, EnqueueStep,
       ResumeStep, ProviderRetryStep DEF Serve
<1> QED
  BY <1>1, <1>2, ReceiveStep, DisconnectStep DEF Next

-----------------------------------------------------------------------------
(* The theorems.                                                           *)

\* The inductive invariant holds in every reachable state.
THEOREM Invariance == Spec => []IInv
BY InitIInv, StepIInv, PTL DEF Spec

\* Every variable stays within its type, for any requests, permits and retries.
THEOREM TypeCorrect == Spec => []TypeOK
<1>1. IInv => TypeOK
  BY DEF IInv
<1> QED
  BY <1>1, Invariance, PTL

\* The M permits are always all accounted for, so the provider never has more
\* than M calls at once and none is ever lost (runtime/runtime.py:42-44).
THEOREM PermitsAreConserved == Spec => []PermitsConserved
<1>1. IInv => PermitsConserved
  BY DEF IInv
<1> QED
  BY <1>1, Invariance, PTL

\* No request waits beside a free permit that nobody was woken for.
THEOREM NoWakeupIsLost == Spec => []NoLostWakeup
<1>1. IInv => NoLostWakeup
  BY DEF IInv
<1> QED
  BY <1>1, Invariance, PTL

\* The provider is called only for requests that passed every check
\* (server/app/main.py:64-95, server/app/api/change_pilot.py:26-45).
THEOREM SpendsOnlyScreened == Spec => []SpendOnlyScreened
<1>1. IInv => SpendOnlyScreened
  BY ScreenPass, ServerAssumption DEF IInv, OnlyScreened, SpendOnlyScreened
<1> QED
  BY <1>1, Invariance, PTL

-----------------------------------------------------------------------------
(* Nobody overtakes.                                                       *)

\* Whoever waits is in the queue.
WaitingQueued ==
  \A r \in Requests : stage[r] = "waiting" => \E i \in 1..Len(waiters) : waiters[i] = r

\* Waking takes the head out of the queue and out of the waiting.
LEMMA WakeNextQueue ==
  ASSUME IInv, WaitingQueued, NEW value, NEW r \in Requests, NEW s \in {"calling", "answered"},
         WakeNext(value, [stage EXCEPT ![r] = s]), stage[r] # "waiting"
  PROVE  /\ WaitingQueued'
         /\ \A q \in Requests : /\ stage'[q] = "calling" => stage[q] = "calling" \/ q = r
                                /\ stage[q] = "waiting" /\ stage'[q] = "granted" =>
                                     q = Head(waiters)
<1>1. stage \in [Requests -> Stages] /\ waiters \in Seq(Requests)
  BY DEF IInv, TypeOK
<1>2. CASE waiters = <<>>
  BY <1>1, <1>2 DEF WakeNext, WaitingQueued
<1>3. CASE waiters # <<>>
  <2>1. /\ stage' = [[stage EXCEPT ![r] = s] EXCEPT ![Head(waiters)] = "granted"]
        /\ waiters' = Tail(waiters)
    BY <1>3 DEF WakeNext
  <2>2. /\ Len(Tail(waiters)) = Len(waiters) - 1
        /\ \A i \in 1..(Len(waiters) - 1) : Tail(waiters)[i] = waiters[i + 1]
        /\ Head(waiters) = waiters[1] /\ Head(waiters) \in Requests
    BY <1>1, <1>3
  <2>3. ASSUME NEW q \in Requests, stage'[q] = "waiting"
        PROVE  \E i \in 1..Len(waiters') : waiters'[i] = q
    <3>1. stage[q] = "waiting" /\ q # Head(waiters)
      BY <1>1, <2>1, <2>2, <2>3
    <3>2. PICK i \in 1..Len(waiters) : waiters[i] = q
      BY <3>1 DEF WaitingQueued
    <3>3. i - 1 \in 1..(Len(waiters) - 1) /\ Tail(waiters)[i - 1] = q
      BY <1>1, <2>2, <3>1, <3>2
    <3> QED
      BY <2>1, <2>2, <3>3
  <2>4. WaitingQueued'
    BY <2>3 DEF WaitingQueued
  <2> QED
    BY <1>1, <2>1, <2>2, <2>4
<1> QED
  BY <1>2, <1>3

\* What one step may do to those who wait, and to those who start calling.
Fair(r) ==
  /\ stage[r] = "received" /\ stage'[r] = "calling" => At("waiting") \cup At("granted") = {}
  /\ stage[r] = "waiting" /\ stage'[r] = "granted" => r = Head(waiters)

LEMMA FairStep ==
  ASSUME IInv, WaitingQueued, [Next]_vars
  PROVE  WaitingQueued' /\ \A q \in Requests : Fair(q)
<1>0. stage \in [Requests -> Stages] /\ waiters \in Seq(Requests)
  BY DEF IInv, TypeOK
<1>1. CASE UNCHANGED vars
  BY <1>1 DEF vars, semVars, WaitingQueued, Fair
<1>2. ASSUME NEW r \in Requests,
             \/ Reject(r) \/ Unavailable(r) \/ ProviderRetry(r) \/ Disconnect(r)
             \/ \E q \in Kinds : Receive(r, q)
      PROVE  WaitingQueued' /\ \A q \in Requests : Fair(q)
  BY <1>0, <1>2 DEF Reject, Unavailable, ProviderRetry, Disconnect, Receive, semVars,
                    WaitingQueued, Fair
<1>3. ASSUME NEW r \in Requests, Acquire(r)
      PROVE  WaitingQueued' /\ \A q \in Requests : Fair(q)
  <2>1. waiters = <<>> /\ At("granted") = {}
    BY <1>3 DEF Acquire, Locked
  <2>2. At("waiting") = {}
    BY <2>1 DEF WaitingQueued, At
  <2> QED
    BY <1>0, <1>3, <2>1, <2>2 DEF Acquire, WaitingQueued, Fair
<1>4. ASSUME NEW r \in Requests, Enqueue(r)
      PROVE  WaitingQueued' /\ \A q \in Requests : Fair(q)
  <2>1. /\ Len(waiters') = Len(waiters) + 1
        /\ \A i \in 1..Len(waiters) : waiters'[i] = waiters[i]
        /\ waiters'[Len(waiters) + 1] = r
        /\ stage' = [stage EXCEPT ![r] = "waiting"]
    BY <1>0, <1>4 DEF Enqueue
  <2>2. ASSUME NEW q \in Requests, stage'[q] = "waiting"
        PROVE  \E i \in 1..Len(waiters') : waiters'[i] = q
    BY <1>0, <2>1, <2>2 DEF WaitingQueued
  <2> QED
    BY <1>0, <2>1, <2>2 DEF WaitingQueued, Fair
<1>5. ASSUME NEW r \in Requests, Resume(r)
      PROVE  WaitingQueued' /\ \A q \in Requests : Fair(q)
  <2>1. CASE permits > 0
    <3>1. WakeNext(permits, [stage EXCEPT ![r] = "calling"]) /\ stage[r] = "granted"
      BY <1>5, <2>1 DEF Resume
    <3>2. /\ WaitingQueued'
          /\ \A q \in Requests : /\ stage'[q] = "calling" => stage[q] = "calling" \/ q = r
                                 /\ stage[q] = "waiting" /\ stage'[q] = "granted" =>
                                      q = Head(waiters)
      BY <3>1, WakeNextQueue, "calling" \in {"calling", "answered"}
    <3>3. ASSUME NEW q \in Requests PROVE Fair(q)
      BY <3>1, <3>2 DEF Fair
    <3> QED
      BY <3>2, <3>3
  <2>2. CASE ~(permits > 0)
    BY <1>0, <1>5, <2>2 DEF Resume, semVars, WaitingQueued, Fair
  <2> QED
    BY <2>1, <2>2
<1>6. ASSUME NEW r \in Requests, NEW reply, NEW code, Conclude(r, reply, code)
      PROVE  WaitingQueued' /\ \A q \in Requests : Fair(q)
  <2>1. WakeNext(permits + 1, [stage EXCEPT ![r] = "answered"]) /\ stage[r] = "calling"
    BY <1>6 DEF Conclude, Release
  <2>2. /\ WaitingQueued'
        /\ \A q \in Requests : /\ stage'[q] = "calling" => stage[q] = "calling" \/ q = r
                               /\ stage[q] = "waiting" /\ stage'[q] = "granted" =>
                                    q = Head(waiters)
    BY <2>1, WakeNextQueue, "answered" \in {"calling", "answered"}
  <2>3. ASSUME NEW q \in Requests PROVE Fair(q)
    BY <2>1, <2>2 DEF Fair
  <2> QED
    BY <2>2, <2>3
<1> QED
  BY <1>1, <1>2, <1>3, <1>4, <1>5, <1>6
     DEF Next, Serve, ProviderTimeout, ProviderFailure, ReplyMalformed, ReplyInvalid, ReplyValid

\* No newcomer calls the provider before a request that waits or was woken, and
\* the waiters are served in the order they came, for any number of permits and
\* whoever hangs up (runtime/runtime.py:42).
THEOREM NobodyBarges == Spec => NoBarging
<1>1. Init => WaitingQueued
  BY DEF Init, WaitingQueued
<1>2. WaitingQueued /\ IInv /\ [Next]_vars => WaitingQueued'
  BY FairStep
<1>3. WaitingQueued /\ IInv /\ [Next]_vars =>
        [\A r \in Requests :
          /\ stage[r] = "received" /\ stage'[r] = "calling" =>
               At("waiting") \cup At("granted") = {}
          /\ stage[r] = "waiting" /\ stage'[r] = "granted" => r = Head(waiters)]_vars
  BY FairStep DEF Fair
<1> QED
  BY <1>1, <1>2, <1>3, Invariance, PTL DEF Spec, NoBarging

=============================================================================
