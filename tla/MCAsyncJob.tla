------------------------------ MODULE MCAsyncJob ------------------------------
(* Instance of AsyncJob for TLC. *)
EXTENDS AsyncJob
===============================================================================
