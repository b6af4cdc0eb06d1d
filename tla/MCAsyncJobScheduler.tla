-------------------------- MODULE MCAsyncJobScheduler --------------------------
(* Instance of AsyncJobScheduler for TLC.  NoJobAssumption of SerialExecutor  *)
(* is JobAssumption here: the constants are the same.                         *)
EXTENDS AsyncJobScheduler
================================================================================
