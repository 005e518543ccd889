----------------------------- MODULE MCThreadPool -----------------------------
(***************************************************************************)
(* Small instances of ThreadPool for TLC.                                  *)
(***************************************************************************)
EXTENDS ThreadPool, TLC

CONSTANTS low, high     \* the tasks, named after their priority

LowAndHigh == low :> 0 @@ high :> 4

OnlyHigh == high :> 4

=============================================================================
