-------------------------- MODULE MCCallbackOutbox --------------------------
(* A small instance of CallbackOutbox for TLC.  Runs and dispatchers are   *)
(* interchangeable, but symmetry is not sound for KeepsTrying.             *)
EXTENDS CallbackOutbox
=============================================================================
