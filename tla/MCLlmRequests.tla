--------------------------- MODULE MCLlmRequests ---------------------------
(* The instance of LlmRequests for TLC. *)
EXTENDS LlmRequests
=============================================================================
