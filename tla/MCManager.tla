----------------------------- MODULE MCManager -----------------------------
(***************************************************************************)
(* Instances of Manager for TLC: one device with all buttons and axes.     *)
(***************************************************************************)
EXTENDS ManagerProperties, TLC

CONSTANTS k1, k2, d1

MCDeviceOf == [x \in Buttons \cup Axes |-> d1]

\* The two callers are interchangeable.
CapturerSymmetry == Permutations({k1, k2})
=============================================================================
