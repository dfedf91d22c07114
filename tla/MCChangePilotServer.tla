------------------------- MODULE MCChangePilotServer -------------------------
(* Four requests for two permits: two are served, one is woken, and one can *)
(* arrive between the waking and the resuming.  One kind for a good request *)
(* and one for each check that can stop it and matters to a property.       *)
EXTENDS ChangePilotServer, TLC

CONSTANTS r1, r2, r3, r4

MCRequests == {r1, r2, r3, r4}
MCM == 2
MCK == 1
MCReplies == ReplyKinds

Good == [framing |-> "length", target |-> "post",
         json |-> TRUE, auth |-> TRUE, fields |-> TRUE]

MCKinds ==
  {Good, [Good EXCEPT !.framing = "chunked"], [Good EXCEPT !.framing = "oversize"],
   [Good EXCEPT !.target = "health", !.auth = FALSE],
   [Good EXCEPT !.target = "other"], [Good EXCEPT !.auth = FALSE],
   [Good EXCEPT !.fields = FALSE]}

MCSymmetry == Permutations(MCRequests)

=============================================================================
