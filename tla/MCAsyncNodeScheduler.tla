-------------------------- MODULE MCAsyncNodeScheduler --------------------------
(* Instance of AsyncNodeScheduler for TLC. *)
EXTENDS AsyncNodeScheduler
================================================================================
