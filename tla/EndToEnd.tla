------------------------------ MODULE EndToEnd ------------------------------
(***************************************************************************)
(* The batch client and the server it calls.  Each attempt of a point is a *)
(* request of its own; what BatchClient leaves to the environment, the     *)
(* outcome of a request, is here what the server answered, or that the     *)
(* connection failed, or that the client's 120 seconds ran out first.  In  *)
(* the last case the client retries while the server, which is not told,   *)
(* goes on with the request it abandoned.                                  *)
(*                                                                         *)
(* The network and the two HTTP libraries are external.                    *)
(***************************************************************************)
EXTENDS BatchClient

CONSTANTS M, K, Replies, NoKind   \* as in ChangePilotServer

VARIABLES runtime, kind, stage, attempts, answer, permits, waiters, gone

serverVars == <<runtime, kind, stage, attempts, answer, permits, waiters, gone>>

\* The client's own requests are well formed and carry the right token.
Good == [framing |-> "length", target |-> "post",
         json |-> TRUE, auth |-> TRUE, fields |-> TRUE]

S == INSTANCE ChangePilotServer WITH
       Requests <- Points \X (0..R), Kinds <- {Good}

\* As ChangePilotServer has it of its constants.
ASSUME EndToEndAssumption ==
  /\ Replies \subseteq S!ReplyKinds
  /\ NoKind \notin S!Request
  /\ M \in Nat \ {0}
  /\ K \in Nat

allVars == <<vars, serverVars>>

\* The request of the attempt that p is in.
Current(p) == <<p, attempt[p]>>

AllInit == Init /\ S!Init

-----------------------------------------------------------------------------
(* One request over the network.                                           *)

\* urlopen: the request reaches the server.
Send(p) ==
  /\ worker[p] = "call"
  /\ S!Receive(Current(p), Good)
  /\ UNCHANGED vars

\* The answer reaches the client in time.  Any status but 2xx is an HTTPError.
Deliver(p) ==
  /\ stage[Current(p)] = "answered"
  /\ \/ answer[Current(p)] = "OK" /\ AnswerText(p)
     \/ answer[Current(p)] # "OK" /\ AnswerFail(p)
  /\ UNCHANGED serverVars

\* The connection breaks inside the body.
CutOff(p) ==
  /\ stage[Current(p)] = "answered"
  /\ AnswerEscape(p)
  /\ UNCHANGED serverVars

\* Mutation of GiveUp: the abandoned connection stays open.
GiveUpOpen(p) == AnswerFail(p) /\ UNCHANGED serverVars

\* REQUEST_TIMEOUT_SECONDS ran out, or the connection was refused or lost.
GiveUp(p) ==
  /\ AnswerFail(p)
  /\ IF stage[Current(p)] \in {"none", "answered"}
     THEN UNCHANGED serverVars
     ELSE S!Disconnect(Current(p))

-----------------------------------------------------------------------------
MainStep == MainNext /\ UNCHANGED serverVars

WorkerStep(p) ==
  \/ /\ Start(p) \/ Retry(p) \/ ReportRise(p) \/ ReportWrite(p) \/ Finish(p)
     /\ UNCHANGED serverVars
  \/ Send(p) \/ Deliver(p) \/ CutOff(p) \/ GiveUp(p)

ServerStep(r) == S!Serve(r) /\ UNCHANGED vars

AllNext ==
  \/ MainStep
  \/ \E p \in Points : WorkerStep(p)
  \/ \E r \in Points \X (0..R) : ServerStep(r)
  \/ Terminated /\ UNCHANGED serverVars

\* Fairness of the client alone: its threads run, and a request that is not
\* answered times out.  Of the server nothing is assumed.
ClientFairness ==
  /\ WF_allVars(MainStep)
  /\ \A p \in Points : WF_allVars(WorkerStep(p))

ServerFairness == \A r \in Points \X (0..R) : WF_allVars(ServerStep(r))

AllSpec == AllInit /\ [][AllNext]_allVars /\ ClientFairness

-----------------------------------------------------------------------------
(* Properties.                                                             *)

\* The batch ends even if the server or the provider never answers, since the
\* client's timeout is its own (xlsx_change_pilot.py:251, 257).
BatchEnds == Terminates

\* With a live server every request is answered, the abandoned ones too, so
\* none keeps its permit (runtime/runtime.py:42-44).
NothingLeftBehind == ServerFairness => S!EveryRequestAnswered

\* What the server works on is either awaited, as the current attempt of a point
\* whose worker sits in urlopen, or known to be abandoned: a worker never goes
\* on while its request is open (xlsx_change_pilot.py:251, 307-318).
LiveIsAwaited ==
  \A r \in Points \X (0..R) :
    stage[r] \notin {"none", "answered"} /\ r \notin gone =>
      worker[r[1]] = "call" /\ r = Current(r[1])

=============================================================================
