-------------------------- MODULE MCCrashRecovery --------------------------
(***************************************************************************)
(* CrashRecovery for TLC: ids of sessions and of messages are              *)
(* interchangeable.                                                        *)
(***************************************************************************)
EXTENDS CrashRecovery, TLC

Interchangeable == Permutations(Rows) \cup Permutations(Messages)
=============================================================================
