----------------------------- MODULE MCProcess -----------------------------
(* Two requests; a process that has exited stays so.                       *)
EXTENDS Process, TLC

CONSTANTS h1, h2

MCHandler == {h1, h2}
=============================================================================
