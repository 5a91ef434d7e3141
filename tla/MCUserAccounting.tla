-------------------------- MODULE MCUserAccounting --------------------------
(* UserAccounting on a small instance: a quota that two transfers reach, so *)
(* that a user crosses it within a pass, between passes and through track().*)
EXTENDS UserAccounting, TLC
=============================================================================
