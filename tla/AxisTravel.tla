----------------------------- MODULE AxisTravel -----------------------------
(***************************************************************************)
(* The arithmetic that decides when a moved axis completes a capture, and  *)
(* what a bound axis reports afterwards (pkg/controller/types.go and the   *)
(* comparison inside Manager.emitAxis).                                    *)
(*                                                                         *)
(* The program works with float64 positions in [0, 1].  Here a position is *)
(* one of the integers 0 .. AxisMax standing for p / AxisMax, as the raw   *)
(* DirectInput range 0 .. 65535 already does, and a travel is a fraction   *)
(* [num, den] so that comparing it with the threshold stays exact.         *)
(***************************************************************************)
EXTENDS Integers

CONSTANTS
    AxisMax,        \* the raw value at the far endpoint of every axis
    ThresholdNum,   \* WithAxisCaptureThreshold, as the fraction
    ThresholdDen    \*   ThresholdNum / ThresholdDen

\* newDirectInputBackend asks for the range 0 .. axisRawMaximum, and
\* WithAxisCaptureThreshold accepts (0, 1].
ASSUME AxisAssumption ==
    /\ AxisMax \in Nat \ {0}
    /\ ThresholdNum \in Nat \ {0}
    /\ ThresholdDen \in Nat \ {0}
    /\ ThresholdNum <= ThresholdDen

Position   == 0 .. AxisMax
Increasing == 1
Decreasing == -1
Direction  == {Increasing, Decreasing}

Clamp(x, low, high) == IF x < low THEN low ELSE IF x > high THEN high ELSE x

\* The room left between the baseline and the endpoint in that direction.
Span(baseline, direction) ==
    IF direction = Increasing THEN AxisMax - baseline ELSE baseline

\* Signed movement away from the baseline, positive in that direction.
Moved(baseline, value, direction) ==
    IF direction = Increasing THEN value - baseline ELSE baseline - value

\* normalizedAxisTravel: the clamped share of the room that was used, and
\* zero for an unknown direction or a baseline resting on the endpoint.
NormalizedTravel(baseline, value, direction) ==
    LET span == Span(baseline, direction)
    IN  IF direction \notin Direction \/ span <= 0
        THEN [num |-> 0, den |-> 1]
        ELSE [num |-> Clamp(Moved(baseline, value, direction), 0, span),
              den |-> span]

AtLeast(travel, num, den) == travel.num * den >= num * travel.den

DirectionOf(baseline, value) ==
    IF value < baseline THEN Decreasing ELSE Increasing

Distance(a, b) == IF a < b THEN b - a ELSE a - b

\* minimumAxisCaptureMovement = 0.20, whatever room the direction has.
MovedEnough(baseline, value) == 5 * Distance(baseline, value) >= AxisMax

\* The condition under which emitAxis completes the capture.
CompletesCapture(baseline, value) ==
    /\ MovedEnough(baseline, value)
    /\ AtLeast(NormalizedTravel(baseline, value, DirectionOf(baseline, value)),
               ThresholdNum, ThresholdDen)

=============================================================================
