------------------------------- MODULE Rows -------------------------------
(* What the modules of the web application's tables share: a null column. *)
CONSTANT None
=============================================================================
