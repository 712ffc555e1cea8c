-------------------------- MODULE MCSimagicDevice --------------------------
(***************************************************************************)
(* Instances of SimagicDevice for TLC.                                     *)
(***************************************************************************)
EXTENDS SimagicDevice

CONSTANTS clutch, brake, throttle

AllTargets == <<clutch, brake, throttle>>
TwoTargets == <<clutch, brake>>
=============================================================================
