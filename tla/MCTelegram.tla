----------------------------- MODULE MCTelegram -----------------------------
(* Instances of Telegram for TLC. *)
EXTENDS Telegram
=============================================================================
