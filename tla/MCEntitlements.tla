-------------------------- MODULE MCEntitlements --------------------------
(***************************************************************************)
(* Small instances of Entitlements for TLC.                                *)
(***************************************************************************)
EXTENDS Entitlements, TLC

\* Two plans that differ, and one with a quota of one operation.
TwoPlans == [p \in Plan |-> IF p = "free" THEN 1 ELSE 2]

CallerSymmetry == Permutations(Caller)
===========================================================================
