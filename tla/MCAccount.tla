------------------------------ MODULE MCAccount ------------------------------
(* The default password, one that may be chosen later, one fit for setup.  *)
EXTENDS Account
=============================================================================
