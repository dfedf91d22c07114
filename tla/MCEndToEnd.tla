----------------------------- MODULE MCEndToEnd -----------------------------
(* Two points on two slots against one permit, with one retry on each side: *)
(* a point can abandon a queued request and queue its next attempt behind   *)
(* it, and both points compete for the permit with their own leftovers.     *)
EXTENDS EndToEnd

MCN == 2
MCW == 2
MCR == 1
MCM == 1
MCK == 0
MCReplies == {"valid"}

=============================================================================
