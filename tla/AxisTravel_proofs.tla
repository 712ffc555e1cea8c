-------------------------- MODULE AxisTravel_proofs --------------------------
(***************************************************************************)
(* What the capture condition of emitAxis and the travel of a binding      *)
(* guarantee, for any resolution of the axes and any threshold in (0, 1].  *)
(***************************************************************************)
EXTENDS AxisTravel, TLAPS

\* Multiplying keeps an order.
LEMMA Scales ==
  ASSUME NEW x \in Nat, NEW y \in Nat, NEW k \in Nat, x <= y
  PROVE  x * k <= y * k /\ k * x <= k * y
<1>1. PICK e \in Nat : y = x + e
  OBVIOUS
<1>2. (x + e) * k = x * k + e * k /\ e * k \in Nat /\ x * k \in Nat
  OBVIOUS
<1>3. k * (x + e) = k * x + k * e /\ k * e \in Nat /\ k * x \in Nat
  OBVIOUS
<1> QED
  BY <1>1, <1>2, <1>3

\* The room in the direction of a movement is no smaller than the movement.
LEMMA RoomForMovement ==
  ASSUME NEW b \in Position, NEW v \in Position
  PROVE  LET d == DirectionOf(b, v)
         IN  /\ d \in Direction /\ Span(b, d) \in Nat
             /\ Moved(b, v, d) = Distance(b, v) /\ Distance(b, v) \in 0 .. Span(b, d)
BY AxisAssumption DEF DirectionOf, Direction, Increasing, Decreasing, Span, Moved, Distance, Position

\* AxisBinding.Travel: whatever the direction says and wherever the baseline
\* is, travel is a fraction between zero and one, and never a division by zero.
THEOREM TravelIsAFraction ==
  ASSUME NEW b \in Position, NEW v \in Position, NEW d
  PROVE  LET t == NormalizedTravel(b, v, d)
         IN  t.den \in Nat \ {0} /\ t.num \in 0 .. t.den
<1>1. CASE d \notin Direction \/ Span(b, d) <= 0
  BY <1>1 DEF NormalizedTravel
<1>2. CASE ~ (d \notin Direction \/ Span(b, d) <= 0)
  <2> DEFINE c == Clamp(Moved(b, v, d), 0, Span(b, d))
  <2>1. Span(b, d) \in Nat \ {0} /\ Moved(b, v, d) \in Int
    BY <1>2, AxisAssumption DEF Span, Moved, Position, Direction, Increasing, Decreasing
  <2>2. c \in 0 .. Span(b, d)
    BY <2>1 DEF Clamp
  <2>3. NormalizedTravel(b, v, d) = [num |-> c, den |-> Span(b, d)]
    BY <1>2 DEF NormalizedTravel
  <2> HIDE DEF c
  <2> QED
    BY <2>1, <2>2, <2>3
<1> QED
  BY <1>1, <1>2

\* In the direction of the movement nothing is clamped.
LEMMA TravelOfMovement ==
  ASSUME NEW b \in Position, NEW v \in Position, b # v
  PROVE  LET d == DirectionOf(b, v)
         IN  /\ Span(b, d) > 0
             /\ NormalizedTravel(b, v, d) = [num |-> Distance(b, v), den |-> Span(b, d)]
<1> DEFINE d == DirectionOf(b, v)
<1>1. d \in Direction /\ Span(b, d) \in Nat /\ Moved(b, v, d) = Distance(b, v)
      /\ Distance(b, v) \in 0 .. Span(b, d)
  BY RoomForMovement
<1>2. Distance(b, v) > 0
  BY AxisAssumption DEF Distance, Position
<1> HIDE DEF d
<1>3. Span(b, d) > 0 /\ Clamp(Moved(b, v, d), 0, Span(b, d)) = Distance(b, v)
  BY <1>1, <1>2 DEF Clamp
<1>4. NormalizedTravel(b, v, d) = [num |-> Distance(b, v), den |-> Span(b, d)]
  BY <1>1, <1>3 DEF NormalizedTravel
<1> QED
  BY <1>3, <1>4 DEF d

LEMMA CompletesBy ==
  ASSUME NEW b \in Position, NEW v \in Position, b # v
  PROVE  CompletesCapture(b, v) <=>
            /\ 5 * Distance(b, v) >= AxisMax
            /\ Distance(b, v) * ThresholdDen >= ThresholdNum * Span(b, DirectionOf(b, v))
<1>1. NormalizedTravel(b, v, DirectionOf(b, v)) =
        [num |-> Distance(b, v), den |-> Span(b, DirectionOf(b, v))]
  BY TravelOfMovement
<1> QED
  BY <1>1 DEF CompletesCapture, MovedEnough, AtLeast

\* A position that is the baseline completes no capture: an axis at rest, or one
\* reported again, is never bound.
THEOREM RestNeverCaptures == \A b \in Position : ~ CompletesCapture(b, b)
BY AxisAssumption DEF CompletesCapture, MovedEnough, Distance, Position

\* What completes a capture goes on completing it: a pedal that moves on in the
\* direction it was captured in cannot fall back below the threshold, so that a
\* sample lost in between costs no binding.
THEOREM CaptureIsMonotone ==
  ASSUME NEW b \in Position, NEW v \in Position, NEW w \in Position,
         CompletesCapture(b, v),
         DirectionOf(b, w) = DirectionOf(b, v), Distance(b, w) >= Distance(b, v)
  PROVE  CompletesCapture(b, w)
<1>1. b # v
  BY RestNeverCaptures
<1>2. /\ 5 * Distance(b, v) >= AxisMax
      /\ Distance(b, v) * ThresholdDen >= ThresholdNum * Span(b, DirectionOf(b, v))
  BY <1>1, CompletesBy
<1>3. Distance(b, v) \in Nat /\ Distance(b, w) \in Nat /\ Distance(b, v) > 0 /\ b # w
  BY <1>1, AxisAssumption DEF Distance, Position
<1>4. Span(b, DirectionOf(b, v)) \in Nat
  BY RoomForMovement
<1>5. Distance(b, v) * ThresholdDen <= Distance(b, w) * ThresholdDen
  BY <1>3, Scales, AxisAssumption
<1>6. /\ Distance(b, v) * ThresholdDen \in Nat /\ Distance(b, w) * ThresholdDen \in Nat
      /\ ThresholdNum * Span(b, DirectionOf(b, v)) \in Nat
  BY <1>3, <1>4, AxisAssumption
<1>7. Distance(b, w) * ThresholdDen >= ThresholdNum * Span(b, DirectionOf(b, w))
  BY <1>2, <1>5, <1>6
<1>8. 5 * Distance(b, w) >= AxisMax
  BY <1>2, <1>3, AxisAssumption
<1> QED
  BY <1>3, <1>7, <1>8, CompletesBy

\* Pressing a pedal as far as it goes binds it, whatever the threshold, if it had
\* a fifth of the axis to go.
THEOREM EndpointCaptures ==
  ASSUME NEW b \in Position, NEW e \in {0, AxisMax}, 5 * Distance(b, e) >= AxisMax
  PROVE  CompletesCapture(b, e)
<1>1. e \in Position /\ b # e
  BY AxisAssumption DEF Distance, Position
<1>2. Span(b, DirectionOf(b, e)) = Distance(b, e) /\ Distance(b, e) \in Nat
  BY <1>1, AxisAssumption DEF Span, DirectionOf, Distance, Position, Increasing, Decreasing
<1>3. ThresholdNum * Distance(b, e) <= ThresholdDen * Distance(b, e)
  BY <1>2, Scales, AxisAssumption
<1>4. ThresholdDen * Distance(b, e) = Distance(b, e) * ThresholdDen
  BY <1>2, AxisAssumption
<1> QED
  BY <1>1, <1>2, <1>3, <1>4, CompletesBy

\* No resting position makes an axis impossible to bind: from everywhere, going to
\* one of the two ends completes the capture.
COROLLARY EveryAxisCanBeBound ==
  \A b \in Position : \E e \in {0, AxisMax} : CompletesCapture(b, e)
<1> TAKE b \in Position
<1>1. 5 * Distance(b, 0) >= AxisMax \/ 5 * Distance(b, AxisMax) >= AxisMax
  BY AxisAssumption DEF Distance, Position
<1> QED
  BY <1>1, EndpointCaptures

=============================================================================
