------------------------------ MODULE MCProcess -----------------------------
(* Process on small instances.                                               *)
EXTENDS Process
=============================================================================
