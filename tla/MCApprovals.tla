----------------------------- MODULE MCApprovals -----------------------------
(***************************************************************************)
(* Approvals for TLC: calls that differ only in their serial are           *)
(* interchangeable.                                                        *)
(***************************************************************************)
EXTENDS Approvals, TLC

Interchangeable == Permutations(Serials)
============================================================================
