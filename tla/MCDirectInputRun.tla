-------------------------- MODULE MCDirectInputRun --------------------------
(***************************************************************************)
(* An instance of DirectInputRun for TLC.  "pad" lists its objects in one  *)
(* order or another, with repetitions, more axes than are used and one     *)
(* button too many; "bare" has no controls and need not open at all.       *)
(***************************************************************************)
EXTENDS DirectInputRun

MCEnumerations ==
    [d \in Devices |->
        IF d = "bare" THEN {[axes |-> << >>, buttons |-> << >>]}
        ELSE {[axes |-> <<6, 1, 1, 4>>, buttons |-> <<2, 3, 0, 2>>],
              [axes |-> <<4, 6, 1>>, buttons |-> <<0, 3, 2>>]}]
=============================================================================
