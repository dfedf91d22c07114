---------------------------- MODULE MCBatchClient ----------------------------
(* Four points on two slots with two retries: slots are passed on twice, both *)
(* workers can be in report_retry at once, and a slot can retire early.     *)
EXTENDS BatchClient

MCN == 4
MCW == 2
MCR == 2

=============================================================================
