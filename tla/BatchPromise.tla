---------------------------- MODULE BatchPromise ----------------------------
(***************************************************************************)
(* What the docstrings of process_one and process_in_batches promise, with *)
(* no threads, slots or retries: points are taken up in their order, at    *)
(* most W are in flight, each gets one outcome, and the caller gets either *)
(* every outcome, in the order of the points, or an exception, but neither *)
(* before the last request in flight has ended.                            *)
(***************************************************************************)
EXTENDS Naturals, FiniteSets

CONSTANTS N, W

VARIABLES phase,   \* of each point: waiting, inflight, or its outcome
          answer,  \* "none", then "returned" or "raised"
          list     \* what was returned

vars == <<phase, answer, list>>

InFlight == {p \in 1..N : phase[p] = "inflight"}

Init ==
  /\ phase = [p \in 1..N |-> "waiting"]
  /\ answer = "none"
  /\ list = <<>>

\* Points start in their order, and only while there is room in flight.
Take(p) ==
  /\ phase[p] = "waiting"
  /\ \A q \in 1..(p - 1) : phase[q] # "waiting"
  /\ Cardinality(InFlight) < W
  /\ phase' = [phase EXCEPT ![p] = "inflight"]
  /\ UNCHANGED <<answer, list>>

Decide(p) ==
  /\ phase[p] = "inflight"
  /\ \E o \in {"text", "failed", "escaped"} : phase' = [phase EXCEPT ![p] = o]
  /\ UNCHANGED <<answer, list>>

Return ==
  /\ answer = "none"
  /\ \A p \in 1..N : phase[p] \in {"text", "failed"}
  /\ answer' = "returned"
  /\ list' = [p \in 1..N |-> <<p, phase[p]>>]
  /\ UNCHANGED phase

Raise ==
  /\ answer = "none"
  /\ InFlight = {}
  /\ \E p \in 1..N : phase[p] = "escaped"
  /\ answer' = "raised"
  /\ UNCHANGED <<phase, list>>

Next == (\E p \in 1..N : Take(p) \/ Decide(p)) \/ Return \/ Raise

Spec == Init /\ [][Next]_vars

=============================================================================
