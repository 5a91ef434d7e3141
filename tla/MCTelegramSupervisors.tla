----------------------- MODULE MCTelegramSupervisors -----------------------
(* TelegramSupervisors on a small instance: the loop and one card request. *)
EXTENDS TelegramSupervisors
=============================================================================
