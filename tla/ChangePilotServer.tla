-------------------------- MODULE ChangePilotServer --------------------------
(***************************************************************************)
(* One uvicorn process serving server/app: a request passes the size       *)
(* middleware, the router, body parsing and the bearer check, and one that *)
(* passes them all asks ChangePilotRuntime.transform_async for a text.     *)
(* That coroutine waits for one of M permits of an asyncio.Semaphore,      *)
(* calls the model provider while it holds the permit, gives the permit    *)
(* back, and turns the reply, or the exception, into the HTTP answer.      *)
(*                                                                         *)
(* The event loop runs one coroutine at a time and changes over only at an *)
(* await, so what a coroutine does between two awaits is one action here.  *)
(* The provider, the SDK's retries and asyncio.Semaphore are external.     *)
(***************************************************************************)
EXTENDS Integers, Sequences, FiniteSets

CONSTANTS Requests,  \* the requests that may reach the server
          Kinds,     \* what they may look like
          M,         \* CHANGE_PILOT_MAX_CONCURRENCY
          K,         \* CHANGE_PILOT_RETRY_COUNT, the SDK's max_retries
          Replies,   \* what a provider call may end in, of ReplyKinds
          NoKind     \* the kind of a request that has not arrived

\* What the server tells apart in a request: how its body is framed, where it
\* goes, and whether its JSON parses, its token matches and its fields fit
\* ChangePilotRequest.
Request == [framing : {"length", "chunked", "oversize", "badlength"},
            target  : {"post", "health", "other"},
            json : BOOLEAN, auth : BOOLEAN, fields : BOOLEAN]

ReplyKinds == {"valid", "invalid", "malformed", "failure", "timeout"}

ASSUME ServerAssumption ==
  /\ IsFiniteSet(Requests)
  /\ Kinds \subseteq Request
  /\ Replies \subseteq ReplyKinds
  /\ NoKind \notin Request
  /\ M \in Nat \ {0}    \* load_settings does not check it: 0 admits nobody
  /\ K \in Nat

VARIABLES
  runtime,   \* app.state.change_pilot_runtime and its client's api_key
  kind,      \* of each request that arrived
  stage,     \* how far its coroutine is
  attempts,  \* provider calls made for it
  answer,    \* the code of its HTTP answer
  permits,   \* the semaphore's _value
  waiters,   \* the semaphore's _waiters that were not woken yet, oldest first
  gone       \* requests whose client closed the connection

semVars == <<permits, waiters>>
vars == <<runtime, kind, stage, attempts, answer, semVars, gone>>

Stages == {"none", "received", "waiting", "granted", "calling", "answered"}

\* The codes of the error envelope, OK and HEALTH of the two success bodies,
\* and DETAIL, Starlette's own {"detail": ...} body.
Codes == {"INVALID_REQUEST", "UNAUTHORIZED", "REQUEST_TOO_LARGE",
          "AGENT_TIMEOUT", "AGENT_FAILED", "AGENT_OUTPUT_INVALID",
          "INTERNAL_ERROR", "OK", "HEALTH", "DETAIL"}

At(s) == {r \in Requests : stage[r] = s}
Holders == At("granted") \cup At("calling")

Init ==
  /\ runtime \in {"unavailable", "unconfigured", "configured"}
  /\ kind = [r \in Requests |-> NoKind]
  /\ stage = [r \in Requests |-> "none"]
  /\ attempts = [r \in Requests |-> 0]
  /\ answer = [r \in Requests |-> "none"]
  /\ permits = M
  /\ waiters = <<>>
  /\ gone = {}

-----------------------------------------------------------------------------
(* Screening: the first check that a request fails answers it.             *)

\* _enforce_request_size
FramingVerdict(q) ==
  [length |-> "pass", chunked |-> "INVALID_REQUEST",
   oversize |-> "REQUEST_TOO_LARGE", badlength |-> "INVALID_REQUEST"][q.framing]

\* The two routes, and the router's own answer to any other path or method.
RouteVerdict(q) ==
  [post |-> "pass", health |-> "HEALTH", other |-> "DETAIL"][q.target]

\* Mutation of BodyVerdict: the route lost its dependency on the token.
BodyVerdictUnguarded(q) ==
  IF q.json /\ q.fields THEN "pass" ELSE "INVALID_REQUEST"

\* FastAPI parses the body, then runs require_bearer_token, then checks the
\* fields.
BodyVerdict(q) ==
  IF ~q.json THEN "INVALID_REQUEST"
  ELSE IF ~q.auth THEN "UNAUTHORIZED"
  ELSE IF ~q.fields THEN "INVALID_REQUEST" ELSE "pass"

Screen(q) ==
  IF FramingVerdict(q) # "pass" THEN FramingVerdict(q)
  ELSE IF RouteVerdict(q) # "pass" THEN RouteVerdict(q) ELSE BodyVerdict(q)

-----------------------------------------------------------------------------
(* asyncio.Semaphore.                                                      *)

\* Mutation of Locked: a newcomer takes a permit past the waiters.
LockedByValue == permits = 0

\* locked(): a woken waiter stays in the deque until its task runs.
Locked == permits = 0 \/ waiters # <<>> \/ At("granted") # {}

\* _wake_up_next() with value permits to give: the first waiter gets one.
\* next is the stage function after the caller's own move.
WakeNext(value, next) ==
  IF waiters = <<>>
  THEN /\ permits' = value
       /\ stage' = next
       /\ UNCHANGED waiters
  ELSE /\ permits' = value - 1
       /\ stage' = [next EXCEPT ![Head(waiters)] = "granted"]
       /\ waiters' = Tail(waiters)

\* Mutation of Release: the permit goes back, but nobody is woken.
ReleaseSilently(next) ==
  /\ permits' = permits + 1
  /\ stage' = next
  /\ UNCHANGED waiters

\* release(): one more permit, and a waiter may have it at once.
Release(next) == WakeNext(permits + 1, next)

-----------------------------------------------------------------------------
(* The life of a request.                                                  *)

Receive(r, q) ==
  /\ stage[r] = "none"
  /\ kind' = [kind EXCEPT ![r] = q]
  /\ stage' = [stage EXCEPT ![r] = "received"]
  /\ UNCHANGED <<runtime, attempts, answer, semVars, gone>>

\* Stopped by a check, or answered by get_health.
Reject(r) ==
  /\ stage[r] = "received"
  /\ Screen(kind[r]) # "pass"
  /\ answer' = [answer EXCEPT ![r] = Screen(kind[r])]
  /\ stage' = [stage EXCEPT ![r] = "answered"]
  /\ UNCHANGED <<runtime, kind, attempts, semVars, gone>>

\* No runtime, or no API key.  Without a key every coroutine takes a permit
\* and gives it back before the next await, so none ever waits.
Unavailable(r) ==
  /\ stage[r] = "received"
  /\ Screen(kind[r]) = "pass"
  /\ runtime # "configured"
  /\ answer' = [answer EXCEPT ![r] = "AGENT_FAILED"]
  /\ stage' = [stage EXCEPT ![r] = "answered"]
  /\ UNCHANGED <<runtime, kind, attempts, semVars, gone>>

\* transform_async with a permit to spare: the first provider call starts.
Acquire(r) ==
  /\ stage[r] = "received"
  /\ Screen(kind[r]) = "pass"
  /\ runtime = "configured"
  /\ ~Locked
  /\ permits' = permits - 1
  /\ stage' = [stage EXCEPT ![r] = "calling"]
  /\ attempts' = [attempts EXCEPT ![r] = 1]
  /\ UNCHANGED <<runtime, kind, answer, waiters, gone>>

\* transform_async without one: the coroutine queues, for as long as it takes.
Enqueue(r) ==
  /\ stage[r] = "received"
  /\ Screen(kind[r]) = "pass"
  /\ runtime = "configured"
  /\ Locked
  /\ waiters' = Append(waiters, r)
  /\ stage' = [stage EXCEPT ![r] = "waiting"]
  /\ UNCHANGED <<runtime, kind, attempts, answer, permits, gone>>

\* The woken task runs again: it leaves the deque, wakes the next waiter if a
\* permit is left, and calls the provider.
Resume(r) ==
  /\ stage[r] = "granted"
  /\ attempts' = [attempts EXCEPT ![r] = 1]
  /\ LET next == [stage EXCEPT ![r] = "calling"]
     IN  IF permits > 0 THEN WakeNext(permits, next)
         ELSE stage' = next /\ UNCHANGED semVars
  /\ UNCHANGED <<runtime, kind, answer, gone>>

\* Mutation of ProviderRetry: the SDK's bound on the attempts is off by one.
ProviderRetryOnceMore(r) ==
  /\ stage[r] = "calling"
  /\ attempts[r] <= K + 1
  /\ attempts' = [attempts EXCEPT ![r] = @ + 1]
  /\ UNCHANGED <<runtime, kind, stage, answer, semVars, gone>>

\* A timeout or a retryable failure: the SDK calls the provider again.
ProviderRetry(r) ==
  /\ stage[r] = "calling"
  /\ attempts[r] <= K
  /\ Replies \cap {"failure", "timeout"} # {}
  /\ attempts' = [attempts EXCEPT ![r] = @ + 1]
  /\ UNCHANGED <<runtime, kind, stage, answer, semVars, gone>>

\* acomplete is over: leave the async with, and answer in the same step.
Conclude(r, reply, code) ==
  /\ stage[r] = "calling"
  /\ reply \in Replies
  /\ answer' = [answer EXCEPT ![r] = code]
  /\ Release([stage EXCEPT ![r] = "answered"])
  /\ UNCHANGED <<runtime, kind, attempts, gone>>

\* The last attempt timed out.
ProviderTimeout(r) == attempts[r] = K + 1 /\ Conclude(r, "timeout", "AGENT_TIMEOUT")

\* Any other provider failure, or a reply without text.
ProviderFailure(r) == Conclude(r, "failure", "AGENT_FAILED")

\* A reply whose usage or content has the wrong type: int() or strip() raises
\* outside the try of _extract_reply, and no route handler expects it.
ReplyMalformed(r) == Conclude(r, "malformed", "INTERNAL_ERROR")

\* _finish refused the text: no JSON, schema, sensitive pattern.
ReplyInvalid(r) == Conclude(r, "invalid", "AGENT_OUTPUT_INVALID")

ReplyValid(r) == Conclude(r, "valid", "OK")

\* Mutation of Disconnect: the handler is cancelled and its permit is lost.
DisconnectCancels(r) ==
  /\ stage[r] \notin {"none", "answered"}
  /\ r \notin gone
  /\ gone' = gone \cup {r}
  /\ stage' = [stage EXCEPT ![r] = "answered"]
  /\ waiters' = SelectSeq(waiters, LAMBDA w : w # r)
  /\ UNCHANGED <<runtime, kind, attempts, answer, permits>>

\* The client gave up.  Nothing tells the coroutine: it goes on, and its
\* answer is written to nobody.
Disconnect(r) ==
  /\ stage[r] \notin {"none", "answered"}
  /\ r \notin gone
  /\ gone' = gone \cup {r}
  /\ UNCHANGED <<runtime, kind, stage, attempts, answer, semVars>>

\* Steps of the server and of the provider for one request.
Serve(r) ==
  \/ Reject(r) \/ Unavailable(r) \/ Acquire(r) \/ Enqueue(r) \/ Resume(r)
  \/ ProviderRetry(r) \/ ProviderTimeout(r) \/ ProviderFailure(r)
  \/ ReplyMalformed(r) \/ ReplyInvalid(r) \/ ReplyValid(r)

Next ==
  \E r \in Requests :
    Serve(r) \/ Disconnect(r) \/ (\E q \in Kinds : Receive(r, q))

\* The event loop runs every ready task, and a provider call ends within its
\* timeout.  Clients owe the server nothing.
Spec == Init /\ [][Next]_vars
FairSpec == Spec /\ \A r \in Requests : WF_vars(Serve(r))

-----------------------------------------------------------------------------
(* Properties.                                                             *)

\* Type invariant.
TypeOK ==
  /\ runtime \in {"unavailable", "unconfigured", "configured"}
  /\ kind \in [Requests -> Kinds \cup {NoKind}]
  /\ stage \in [Requests -> Stages]
  /\ attempts \in [Requests -> 0..(K + 1)]
  /\ answer \in [Requests -> Codes \cup {"none"}]
  /\ permits \in 0..M
  /\ waiters \in Seq(Requests)
  /\ gone \in SUBSET Requests

\* A permit is neither lost nor made up, whatever ends a call and whoever has
\* hung up meanwhile: those free and those held are M together
\* (runtime/runtime.py:42-44).
PermitsConserved == permits + Cardinality(Holders) = M

\* A request waits only while all permits are held: a free permit beside a
\* waiter is on its way to one, through a task that was already woken.
NoLostWakeup == waiters # <<>> /\ permits > 0 => At("granted") # {}

\* The provider is called, and its money spent, only for a request that passed
\* every check, the token among them (server/app/api/change_pilot.py:30,
\* server/app/main.py:64-95).
SpendOnlyScreened ==
  \A r \in Requests :
    attempts[r] > 0 =>
      /\ runtime = "configured"
      /\ kind[r] = [framing |-> "length", target |-> "post",
                    json |-> TRUE, auth |-> TRUE, fields |-> TRUE]

\* Nobody overtakes: a newcomer calls the provider at once only if no earlier
\* request waits for a permit or was woken and has yet to run, and a woken
\* waiter is the one that waited longest (runtime/runtime.py:42).
NoBarging ==
  [][\A r \in Requests :
       /\ stage[r] = "received" /\ stage'[r] = "calling" =>
            At("waiting") \cup At("granted") = {}
       /\ stage[r] = "waiting" /\ stage'[r] = "granted" => r = Head(waiters)]_vars

\* Every request that arrives is answered, even if its client is gone and
\* although the queue for a permit has no bound and no deadline.
EveryRequestAnswered ==
  \A r \in Requests : stage[r] = "received" ~> answer[r] # "none"

=============================================================================
