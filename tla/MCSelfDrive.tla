----------------------------- MODULE MCSelfDrive -----------------------------
(***************************************************************************)
(* SelfDrive for TLC: the slots waiting handlers are kept in, and the      *)
(* checks of a session, are interchangeable.                               *)
(***************************************************************************)
EXTENDS SelfDrive, TLC

Interchangeable == Permutations(Slots) \cup Permutations(Checks)
=============================================================================
