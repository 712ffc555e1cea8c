--------------------------- MODULE Manager_proofs ---------------------------
(***************************************************************************)
(* Proofs about the Manager, for any number of callers, devices, buttons   *)
(* and axes, and any buffer sizes.                                         *)
(***************************************************************************)
EXTENDS ManagerProperties, TLAPS

USE DEF status, finishing, running, closing, lifecycle, streams, requests,
        positions, backend

-----------------------------------------------------------------------------
(* Buffered channels *)

\* A receive leaves a shorter stream, and takes something that was sent.
LEMMA TailFits ==
  ASSUME NEW S, NEW q \in Seq(S), q # << >>, NEW n \in Nat, Len(q) <= n
  PROVE  Head(q) \in S /\ Tail(q) \in Seq(S) /\ Len(Tail(q)) <= n
OBVIOUS

\* A send that found room leaves a stream that fits.
LEMMA AppendFits ==
  ASSUME NEW S, NEW q \in Seq(S), NEW x \in S, NEW n \in Nat, Len(q) < n
  PROVE  Append(q, x) \in Seq(S) /\ Len(Append(q, x)) <= n
OBVIOUS

\* The buffers have a size.
LEMMA BufferSizes == EventBufferSize \in Nat /\ ErrorBufferSize \in Nat
BY ManagerAssumption

\* Reporting an error keeps the stream of errors within its buffer.
LEMMA ReportType ==
  ASSUME TypeOK, NEW e \in Error, Report(e)
  PROVE  errors' \in Seq(Error) /\ Len(errors') <= ErrorBufferSize /\ lossReported' \in BOOLEAN
<1>1. CASE Len(errors) < ErrorBufferSize
  <2>1. errors' = Append(errors, e)
    BY <1>1 DEF Report
  <2> QED
    BY <1>1, <2>1, AppendFits, BufferSizes DEF TypeOK, Report
<1>2. CASE ~ Len(errors) < ErrorBufferSize
  BY <1>2 DEF TypeOK, Report
<1> QED
  BY <1>1, <1>2

-----------------------------------------------------------------------------
(* Typing *)

\* No step of a Start call breaks the typing.
LEMMA StartingType == ASSUME TypeOK, NEW s \in Starters, Starting(s) PROVE TypeOK'
<1>1. CASE StartRejected(s)
  BY <1>1 DEF TypeOK, StartRejected, StartGoes, StartPhase
<1>2. CASE StartBegin(s)
  BY <1>2 DEF TypeOK, StartBegin, StartGoes, StartPhase
<1>3. CASE StartSpawn(s)
  BY <1>3 DEF TypeOK, StartSpawn, StartGoes, StartPhase, BackendPhase
<1>4. CASE StartReady(s)
  BY <1>4 DEF TypeOK, StartReady, StartGoes, StartPhase
<1>5. CASE StartGivesUp(s)
  BY <1>5 DEF TypeOK, StartGivesUp, StartGoes, StartPhase
<1>6. CASE StartWait(s)
  BY <1>6 DEF TypeOK, StartWait, StartGoes, StartPhase
<1> QED
  BY <1>1, <1>2, <1>3, <1>4, <1>5, <1>6 DEF Starting

\* No step of a Close call breaks the typing.
LEMMA ClosingType == ASSUME TypeOK, NEW c \in Closers, Closing(c) PROVE TypeOK'
<1> USE DEF CloseGoes, ClosePhase
<1>1. CASE CloseNoop(c)
  BY <1>1 DEF TypeOK, CloseNoop
<1>2. CASE CloseBegin(c)
  BY <1>2 DEF TypeOK, CloseBegin
<1>3. CASE CloseCancel(c)
  BY <1>3 DEF TypeOK, CloseCancel
<1>4. CASE CloseWait(c)
  BY <1>4 DEF TypeOK, CloseWait
<1>5. CASE CloseFinishLock(c)
  BY <1>5 DEF TypeOK, CloseFinishLock, FinishLock
<1>6. CASE CloseFinishClose(c)
  BY <1>6 DEF TypeOK, CloseFinishClose, FinishClose
<1> QED
  BY <1>1, <1>2, <1>3, <1>4, <1>5, <1>6 DEF Closing

\* No step of a Capture or CaptureAxis call breaks the typing.
LEMMA CapturingType == ASSUME TypeOK, NEW k \in Capturers, Capturing(k) PROVE TypeOK'
<1> USE DEF CaptureGoes, CapturePhase
<1>1. CASE CaptureBegin(k)
  BY <1>1 DEF TypeOK, CaptureBegin
<1>2. CASE CaptureAxisBegin(k)
  BY <1>2 DEF TypeOK, CaptureAxisBegin
<1>3. CASE CaptureTake(k)
  BY <1>3 DEF TypeOK, CaptureTake
<1>4. CASE CaptureGiveUp(k) \/ CaptureClosed(k)
  <2>1. CaptureGiveUp(k)
    BY <1>4 DEF CaptureClosed
  <2> QED
    BY <2>1 DEF TypeOK, CaptureGiveUp
<1>5. CASE CaptureLeave(k)
  <2>1. NoPositions \in [Axes -> MaybePosition]
    BY DEF NoPositions, MaybePosition
  <2> QED
    BY <1>5, <2>1 DEF TypeOK, CaptureLeave, ForgetRequest
<1> QED
  BY <1>1, <1>2, <1>3, <1>4, <1>5 DEF Capturing

\* The reader of the streams does not break the typing.
LEMMA ReceivingType == ASSUME TypeOK, EnableAxisEvents \/ Receiving PROVE TypeOK'
<1>1. CASE EnableAxisEvents
  BY <1>1 DEF TypeOK, EnableAxisEvents
<1>2. CASE ReceiveButton
  <2>1. Head(events) \in ButtonEvent /\ events' \in Seq(ButtonEvent) /\ Len(events') <= EventBufferSize
    BY <1>2, TailFits, BufferSizes DEF TypeOK, ReceiveButton
  <2>2. Head(events).button \in Buttons
    BY <2>1 DEF ButtonEvent
  <2>3. view' \subseteq Buttons
    BY <1>2, <2>2 DEF TypeOK, ReceiveButton
  <2> QED
    BY <1>2, <2>1, <2>3 DEF TypeOK, ReceiveButton
<1>3. CASE ReceiveAxis
  <2>1. axisEvents' \in Seq(AxisEvent) /\ Len(axisEvents') <= EventBufferSize
    BY <1>3, TailFits, BufferSizes DEF TypeOK, ReceiveAxis
  <2> QED
    BY <1>3, <2>1 DEF TypeOK, ReceiveAxis
<1>4. CASE ReceiveError
  <2>1. errors' \in Seq(Error) /\ Len(errors') <= ErrorBufferSize
    BY <1>4, TailFits, BufferSizes DEF TypeOK, ReceiveError
  <2> QED
    BY <1>4, <2>1 DEF TypeOK, ReceiveError
<1> QED
  BY <1>1, <1>2, <1>3, <1>4 DEF Receiving

\* Forgetting the positions of absent devices leaves positions.
LEMMA SetDevicesType ==
  ASSUME TypeOK, NEW ds \in SUBSET Devices, SetDevices(ds)
  PROVE  devices' \subseteq Devices /\ axisValues' \in [Axes -> MaybePosition]
BY DEF TypeOK, SetDevices, MaybePosition

\* A button event answers the registered capture with its button.
LEMMA EmitButtonType ==
  ASSUME TypeOK, NEW e \in ButtonEvent, EmitButton(e)
  PROVE  /\ capture' \in Capturers \cup {None}
         /\ result' \in [Capturers -> Buttons \cup AxisBinding \cup {None}]
         /\ firstPress' \in [Capturers -> Buttons \cup {None}]
         /\ pending' \in ButtonEvent
BY DEF TypeOK, EmitButton, FirstPresses, ButtonEvent

\* An axis event gives a baseline, or answers the registered capture.
LEMMA EmitAxisType ==
  ASSUME TypeOK, NEW e \in AxisEvent, EmitAxis(e)
  PROVE  /\ axisCapture' \in Capturers \cup {None}
         /\ axisValues' \in [Axes -> MaybePosition]
         /\ result' \in [Capturers -> Buttons \cup AxisBinding \cup {None}]
         /\ baselines' \in [Capturers -> [Axes -> MaybePosition]]
         /\ pending' \in AxisEvent \cup {None}
<1> DEFINE k == axisCapture
           base == baselines[k][e.axis]
           binding == [axis |-> e.axis, baseline |-> base, direction |-> DirectionOf(base, e.value)]
<1>1. e.axis \in Axes /\ e.value \in MaybePosition /\ e.value \in Position
  BY DEF AxisEvent, MaybePosition
<1>2. axisValues' \in [Axes -> MaybePosition]
  BY <1>1 DEF TypeOK, EmitAxis
<1>3. baselines' \in [Capturers -> [Axes -> MaybePosition]]
  BY <1>1, ManagerAssumption DEF TypeOK, EmitAxis
<1>4. ASSUME k # None, base # None PROVE k \in Capturers /\ binding \in AxisBinding
  BY <1>1, <1>4 DEF TypeOK, MaybePosition, AxisBinding, DirectionOf, Direction, Increasing, Decreasing
<1>5. result' \in [Capturers -> Buttons \cup AxisBinding \cup {None}]
  BY <1>4 DEF TypeOK, EmitAxis
<1>6. axisCapture' \in Capturers \cup {None} /\ pending' \in AxisEvent \cup {None}
  BY DEF TypeOK, EmitAxis
<1> QED
  BY <1>2, <1>3, <1>5, <1>6

\* The send delivers the event or reports its loss.
LEMMA SendType == ASSUME TypeOK, Send PROVE TypeOK'
<1>1. /\ events' \in Seq(ButtonEvent) /\ Len(events') <= EventBufferSize
      /\ axisEvents' \in Seq(AxisEvent) /\ Len(axisEvents') <= EventBufferSize
      /\ errors' \in Seq(Error) /\ Len(errors') <= ErrorBufferSize /\ lossReported' \in BOOLEAN
  <2>1. CASE Report("bufferFull") /\ UNCHANGED <<events, axisEvents>>
    BY <2>1, ReportType DEF TypeOK, Error
  <2>2. CASE Report("axisBufferFull") /\ UNCHANGED <<events, axisEvents>>
    BY <2>2, ReportType DEF TypeOK, Error
  <2>3. CASE /\ pending \in ButtonEvent /\ Len(events) < EventBufferSize
             /\ events' = Append(events, pending)
             /\ UNCHANGED <<axisEvents, errors, lossReported>>
    BY <2>3, AppendFits, BufferSizes DEF TypeOK
  <2>4. CASE /\ pending \in AxisEvent /\ Len(axisEvents) < EventBufferSize
             /\ axisEvents' = Append(axisEvents, pending)
             /\ UNCHANGED <<events, errors, lossReported>>
    BY <2>4, AppendFits, BufferSizes DEF TypeOK
  <2> QED
    BY <2>1, <2>2, <2>3, <2>4 DEF Send
<1>2. /\ pending' = None
      /\ UNCHANGED <<bpc, runErr, attached, down, axisEventsEnabled, view>>
      /\ UNCHANGED <<lifecycle, requests, positions>>
  BY DEF Send, SendGoes
<1> QED
  BY <1>1, <1>2 DEF TypeOK

\* No step of the backend before its return breaks the typing.
LEMMA BackendRunsType == ASSUME TypeOK, BackendRuns PROVE TypeOK'
<1> USE DEF BackendIn, BackendGoes, BackendPhase
<1>1. CASE BackendReady \/ BackendInitFails \/ BackendStops \/ BackendDies
  <2>1. CASE BackendReady
    BY <2>1 DEF TypeOK, BackendReady
  <2>2. CASE BackendInitFails
    BY <2>2 DEF TypeOK, BackendInitFails
  <2>3. CASE BackendStops
    BY <2>3 DEF TypeOK, BackendStops
  <2>4. CASE BackendDies
    BY <2>4 DEF TypeOK, BackendDies
  <2> QED
    BY <1>1, <2>1, <2>2, <2>3, <2>4
<1>2. CASE BackendSetDevices
  <2>1. PICK found \in SUBSET Devices : SetDevices(found)
    BY <1>2 DEF BackendSetDevices
  <2>2. devices' \subseteq Devices /\ axisValues' \in [Axes -> MaybePosition]
    BY <2>1, SetDevicesType
  <2> QED
    BY <1>2, <2>2 DEF TypeOK, BackendSetDevices
<1>3. CASE BackendReport
  <2>1. errors' \in Seq(Error) /\ Len(errors') <= ErrorBufferSize /\ lossReported' \in BOOLEAN
    BY <1>3, ReportType DEF BackendReport, Error
  <2> QED
    BY <1>3, <2>1 DEF TypeOK, BackendReport
<1>4. CASE BackendReleased
  <2>1. devices' \subseteq Devices /\ axisValues' \in [Axes -> MaybePosition]
    BY <1>4, SetDevicesType DEF BackendReleased
  <2> QED
    BY <1>4, <2>1 DEF TypeOK, BackendReleased
<1>5. CASE Send
  BY <1>5, SendType
<1>6. ASSUME NEW d \in Devices, BackendDetach(d) PROVE TypeOK'
  BY <1>6 DEF TypeOK, BackendDetach
<1>7. ASSUME NEW d \in Devices, NEW held \in SUBSET Buttons, BackendAttach(d, held) PROVE TypeOK'
  BY <1>7 DEF TypeOK, BackendAttach
<1>8. ASSUME NEW b \in Buttons, BackendButton(b) PROVE TypeOK'
  <2> DEFINE e == [button |-> b, pressed |-> b \notin down]
  <2>1. e \in ButtonEvent /\ EmitButton(e)
    BY <1>8 DEF BackendButton, ButtonEvent
  <2> HIDE DEF e
  <2>2. /\ capture' \in Capturers \cup {None}
        /\ result' \in [Capturers -> Buttons \cup AxisBinding \cup {None}]
        /\ firstPress' \in [Capturers -> Buttons \cup {None}]
        /\ pending' \in ButtonEvent
    BY <2>1, EmitButtonType
  <2>3. UNCHANGED <<axisCapture, kpc, kind, baselines, startPos>>
    BY <2>1 DEF EmitButton
  <2> QED
    BY <1>8, <2>2, <2>3 DEF TypeOK, BackendButton
<1>9. ASSUME NEW b \in Buttons, BackendReleaseButton(b) PROVE TypeOK'
  <2> DEFINE e == [button |-> b, pressed |-> FALSE]
  <2>1. e \in ButtonEvent /\ EmitButton(e)
    BY <1>9 DEF BackendReleaseButton, ButtonEvent
  <2> HIDE DEF e
  <2>2. /\ capture' \in Capturers \cup {None}
        /\ result' \in [Capturers -> Buttons \cup AxisBinding \cup {None}]
        /\ firstPress' \in [Capturers -> Buttons \cup {None}]
        /\ pending' \in ButtonEvent
    BY <2>1, EmitButtonType
  <2>3. UNCHANGED <<axisCapture, kpc, kind, baselines, startPos>>
    BY <2>1 DEF EmitButton
  <2> QED
    BY <1>9, <2>2, <2>3 DEF TypeOK, BackendReleaseButton
<1>10. ASSUME NEW a \in Axes, NEW v \in Position, BackendSyncAxis(a, v) PROVE TypeOK'
  BY <1>10 DEF TypeOK, BackendSyncAxis, MaybePosition
<1>11. ASSUME NEW a \in Axes, NEW v \in Position, BackendAxis(a, v) PROVE TypeOK'
  <2> DEFINE e == [axis |-> a, value |-> v]
  <2>1. e \in AxisEvent /\ EmitAxis(e)
    BY <1>11 DEF BackendAxis, AxisEvent
  <2> HIDE DEF e
  <2>2. /\ axisCapture' \in Capturers \cup {None}
        /\ axisValues' \in [Axes -> MaybePosition]
        /\ result' \in [Capturers -> Buttons \cup AxisBinding \cup {None}]
        /\ baselines' \in [Capturers -> [Axes -> MaybePosition]]
        /\ pending' \in AxisEvent \cup {None}
    BY <2>1, EmitAxisType
  <2>3. UNCHANGED <<devices, capture, kpc, kind, firstPress, startPos>>
    BY <2>1 DEF EmitAxis
  <2> QED
    BY <1>11, <2>2, <2>3 DEF TypeOK, BackendAxis
<1> QED
  BY <1>1, <1>2, <1>3, <1>4, <1>5, <1>6, <1>7, <1>8, <1>9, <1>10, <1>11 DEF BackendRuns

\* No step of the backend after its return breaks the typing.
LEMMA BackendEndsType == ASSUME TypeOK, BackendEnds PROVE TypeOK'
<1> USE DEF BackendGoes, BackendPhase
<1>1. CASE BackendReturned
  <2>1. errors' \in Seq(Error) /\ Len(errors') <= ErrorBufferSize /\ lossReported' \in BOOLEAN
    BY <1>1, ReportType DEF TypeOK, BackendReturned, Error
  <2> QED
    BY <1>1, <2>1 DEF TypeOK, BackendReturned
<1>2. CASE BackendFinishLock
  BY <1>2 DEF TypeOK, BackendFinishLock, FinishLock
<1>3. CASE BackendFinishClose
  BY <1>3 DEF TypeOK, BackendFinishClose, FinishClose
<1>4. CASE BackendExits
  BY <1>4 DEF TypeOK, BackendExits
<1> QED
  BY <1>1, <1>2, <1>3, <1>4 DEF BackendEnds

\* Every variable of the Manager keeps its type, and no stream ever holds more
\* than its buffer does.
THEOREM TypeCorrect == Spec => []TypeOK
<1>1. Init => TypeOK
  <2> SUFFICES ASSUME Init PROVE TypeOK
    OBVIOUS
  <2>1. NoPositions \in [Axes -> MaybePosition]
    BY DEF NoPositions, MaybePosition
  <2>2. /\ events \in Seq(ButtonEvent) /\ Len(events) <= EventBufferSize
        /\ axisEvents \in Seq(AxisEvent) /\ Len(axisEvents) <= EventBufferSize
        /\ errors \in Seq(Error) /\ Len(errors) <= ErrorBufferSize
    BY BufferSizes DEF Init
  <2> QED
    BY <2>1, <2>2 DEF Init, TypeOK, StartPhase, ClosePhase, CapturePhase, BackendPhase
<1>2. TypeOK /\ [Next]_vars => TypeOK'
  <2> SUFFICES ASSUME TypeOK, [Next]_vars PROVE TypeOK'
    OBVIOUS
  <2>1. ASSUME NEW s \in Starters, CancelCtx(s) PROVE TypeOK'
    BY <2>1 DEF TypeOK, CancelCtx
  <2>2. CASE UNCHANGED vars
    BY <2>2 DEF TypeOK, vars
  <2> QED
    BY <2>1, <2>2, StartingType, ClosingType, CapturingType, ReceivingType,
       BackendRunsType, BackendEndsType DEF Next
<1> QED
  BY <1>1, <1>2, PTL DEF Spec
-----------------------------------------------------------------------------
(* The life cycle *)

USE DEF OwnerInv, FinishInv, ReleaseInv

\* The life cycle does not depend on the streams, the captures, the positions
\* or the buttons, as long as a backend that gave its devices back keeps none.
LEMMA LifecycleFrame ==
  ASSUME LifecycleInv,
         UNCHANGED <<started, closed, owner, finishing, wg, spc, closing, bpc>>,
         BackendReleases => UNCHANGED <<attached, devices, axisValues>>
  PROVE  LifecycleInv'
BY DEF LifecycleInv, StartsOnce, StartErrorReleases, FirstCloseReleases, AllReleased,
   Passed, Spawned, Shuts, BackendAlive, BackendReleases, NoPositions

\* A Start call keeps the life cycle together.
LEMMA StartingLifecycle ==
  ASSUME TypeOK, LifecycleInv, NEW s \in Starters, Starting(s) PROVE LifecycleInv'
<1> USE DEF TypeOK, StartGoes, LifecycleInv, StartsOnce, StartErrorReleases, FirstCloseReleases,
        AllReleased, Passed, Spawned, Shuts, BackendAlive, BackendReleases, NoPositions
<1>1. CASE StartRejected(s)
  BY <1>1 DEF StartRejected
<1>2. CASE StartBegin(s)
  BY <1>2 DEF StartBegin
<1>3. CASE StartSpawn(s)
  BY <1>3 DEF StartSpawn
<1>4. CASE StartReady(s)
  BY <1>4 DEF StartReady
<1>5. CASE StartGivesUp(s)
  BY <1>5 DEF StartGivesUp
<1>6. CASE StartWait(s)
  BY <1>6 DEF StartWait, BackendPhase
<1> QED
  BY <1>1, <1>2, <1>3, <1>4, <1>5, <1>6 DEF Starting

\* A Close call keeps the life cycle together.
LEMMA ClosingLifecycle ==
  ASSUME TypeOK, LifecycleInv, NEW c \in Closers, Closing(c) PROVE LifecycleInv'
<1> USE DEF TypeOK, CloseGoes, LifecycleInv, StartsOnce, StartErrorReleases, FirstCloseReleases,
        AllReleased, Passed, Spawned, Shuts, BackendAlive, BackendReleases, NoPositions
<1>1. CASE CloseNoop(c)
  BY <1>1 DEF CloseNoop
<1>2. CASE CloseBegin(c)
  BY <1>2 DEF CloseBegin
<1>3. CASE CloseCancel(c)
  BY <1>3 DEF CloseCancel
<1>4. CASE CloseWait(c)
  BY <1>4 DEF CloseWait, BackendPhase
<1>5. CASE CloseFinishLock(c)
  BY <1>5 DEF CloseFinishLock, FinishLock
<1>6. CASE CloseFinishClose(c)
  BY <1>6 DEF CloseFinishClose, FinishClose
<1> QED
  BY <1>1, <1>2, <1>3, <1>4, <1>5, <1>6 DEF Closing

\* The backend, up to its return, keeps the life cycle together.
LEMMA BackendRunsLifecycle ==
  ASSUME TypeOK, LifecycleInv, BackendRuns PROVE LifecycleInv'
<1>1. CASE \/ BackendSetDevices \/ BackendReport \/ Send
           \/ \E d \in Devices : BackendDetach(d) \/ \E held \in SUBSET Buttons : BackendAttach(d, held)
           \/ \E b \in Buttons : BackendButton(b) \/ BackendReleaseButton(b)
           \/ \E a \in Axes, v \in Position : BackendSyncAxis(a, v) \/ BackendAxis(a, v)
  <2>1. UNCHANGED <<started, closed, owner, finishing, wg, spc, closing, bpc>>
    BY <1>1 DEF BackendSetDevices, BackendReport, Send, SendGoes, BackendDetach, BackendAttach,
       BackendButton, BackendReleaseButton, BackendSyncAxis, BackendAxis, BackendIn
  <2>2. BackendReleases => UNCHANGED <<attached, devices, axisValues>>
    BY <1>1 DEF BackendSetDevices, BackendReport, Send, SendGoes, BackendDetach, BackendAttach,
       BackendButton, BackendReleaseButton, BackendSyncAxis, BackendAxis, BackendIn, BackendReleases
  <2> QED
    BY <2>1, <2>2, LifecycleFrame
<1> USE DEF TypeOK, BackendGoes, LifecycleInv, StartsOnce, StartErrorReleases, FirstCloseReleases,
        AllReleased, Passed, Spawned, Shuts, BackendAlive, BackendReleases, NoPositions
<1>2. CASE BackendReady
  BY <1>2 DEF BackendReady
<1>3. CASE BackendInitFails
  BY <1>3 DEF BackendInitFails
<1>4. CASE BackendStops
  BY <1>4 DEF BackendStops
<1>5. CASE BackendDies
  BY <1>5 DEF BackendDies
<1>6. CASE BackendReleased
  BY <1>6 DEF BackendReleased, SetDevices
<1> QED
  BY <1>1, <1>2, <1>3, <1>4, <1>5, <1>6 DEF BackendRuns

\* finish, run by the backend goroutine, keeps the life cycle together.
LEMMA BackendEndsLifecycle ==
  ASSUME TypeOK, LifecycleInv, BackendEnds PROVE LifecycleInv'
<1> USE DEF TypeOK, BackendGoes, LifecycleInv, StartsOnce, StartErrorReleases, FirstCloseReleases,
        AllReleased, Passed, Spawned, Shuts, BackendAlive, BackendReleases, NoPositions
<1>1. CASE BackendReturned
  BY <1>1 DEF BackendReturned
<1>2. CASE BackendFinishLock
  BY <1>2 DEF BackendFinishLock, FinishLock
<1>3. CASE BackendFinishClose
  BY <1>3 DEF BackendFinishClose, FinishClose
<1>4. CASE BackendExits
  BY <1>4 DEF BackendExits
<1> QED
  BY <1>1, <1>2, <1>3, <1>4 DEF BackendEnds

\* The life cycle of the manager hangs together in every reachable state.
THEOREM LifecycleCorrect == Spec => []LifecycleInv
<1>1. Init => LifecycleInv
  BY ManagerAssumption DEF Init, LifecycleInv, StartsOnce, StartErrorReleases,
     FirstCloseReleases, Passed, Spawned, Shuts, BackendAlive, BackendReleases
<1>2. TypeOK /\ LifecycleInv /\ [Next]_vars => LifecycleInv'
  <2> SUFFICES ASSUME TypeOK, LifecycleInv, [Next]_vars PROVE LifecycleInv'
    OBVIOUS
  <2>1. ASSUME NEW s \in Starters, CancelCtx(s) PROVE LifecycleInv'
    BY <2>1, LifecycleFrame DEF CancelCtx
  <2>2. ASSUME NEW k \in Capturers, Capturing(k) PROVE LifecycleInv'
    <3>1. UNCHANGED <<lifecycle, positions, backend>>
      BY <2>2 DEF Capturing, CaptureBegin, CaptureAxisBegin, CaptureTake, CaptureGiveUp,
         CaptureClosed, CaptureLeave, CaptureGoes
    <3> QED
      BY <3>1, LifecycleFrame
  <2>3. CASE EnableAxisEvents \/ Receiving
    <3>1. UNCHANGED <<lifecycle, positions, backend>>
      BY <2>3 DEF EnableAxisEvents, Receiving, ReceiveButton, ReceiveAxis, ReceiveError
    <3> QED
      BY <3>1, LifecycleFrame
  <2>4. CASE UNCHANGED vars
    BY <2>4, LifecycleFrame DEF vars
  <2> QED
    BY <2>1, <2>2, <2>3, <2>4, StartingLifecycle, ClosingLifecycle,
       BackendRunsLifecycle, BackendEndsLifecycle DEF Next
<1> QED
  BY <1>1, <1>2, TypeCorrect, PTL DEF Spec

\* No goroutine ever sends on a closed channel or closes one twice.
THEOREM NoPanicEver == Spec => []NoPanic
<1>1. TypeOK /\ LifecycleInv => NoPanic
  BY DEF TypeOK, BackendPhase, LifecycleInv, NoPanic, StartsOnce, Passed
<1> QED
  BY <1>1, TypeCorrect, LifecycleCorrect, PTL

\* However many goroutines race in Start, one alone gets past the checks.
THEOREM OneStart == Spec => []StartsOnce
<1>1. LifecycleInv => StartsOnce
  BY DEF LifecycleInv
<1> QED
  BY <1>1, LifecycleCorrect, PTL

\* A Start that fails after spawning the backend has waited for its release.
THEOREM FailedStartReleases == Spec => []StartErrorReleases
<1>1. LifecycleInv => StartErrorReleases
  BY DEF LifecycleInv
<1> QED
  BY <1>1, LifecycleCorrect, PTL

\* The Close that closes a running manager returns after its release.
THEOREM CloseWaits == Spec => []FirstCloseReleases
<1>1. LifecycleInv => FirstCloseReleases
  BY DEF LifecycleInv
<1> QED
  BY <1>1, LifecycleCorrect, PTL

\* A Close that waits has cancelled the run context; one that has returned has
\* too, or came before every Start, which then can only be rejected.
DoomInv ==
    \A c \in Closers :
        /\ cpc[c] = "wait" => cancelled
        /\ cpc[c] = "returned" => cancelled \/ ~ started

\* As far as CloseReleases goes: a backend that outlives a Close that returned
\* was spawned after that Close looked, and lives under a context that is
\* already cancelled.
OutlivedOnlyCancelled ==
    \A c \in Closers : cpc[c] = "returned" /\ Collecting => cancelled /\ c \notin sawRunning

\* A run context that is cancelled stays so.
LEMMA CancelledStays == ASSUME [Next]_vars, cancelled PROVE cancelled'
<1>1. ASSUME NEW s \in Starters, Starting(s) \/ CancelCtx(s) PROVE cancelled'
  BY <1>1 DEF Starting, StartRejected, StartBegin, StartSpawn, StartReady, StartGivesUp, StartWait,
     CancelCtx, running
<1>2. ASSUME NEW c \in Closers, Closing(c) PROVE cancelled'
  BY <1>2 DEF Closing, CloseNoop, CloseBegin, CloseCancel, CloseWait, CloseFinishLock, CloseFinishClose
<1>3. ASSUME NEW k \in Capturers, Capturing(k) PROVE cancelled'
  BY <1>3 DEF Capturing, CaptureBegin, CaptureAxisBegin, CaptureTake, CaptureGiveUp, CaptureClosed,
     CaptureLeave, CaptureGoes, lifecycle, running
<1>4. CASE EnableAxisEvents \/ Receiving
  BY <1>4 DEF EnableAxisEvents, Receiving, ReceiveButton, ReceiveAxis, ReceiveError, lifecycle, running
<1>5. CASE BackendRuns \/ BackendEnds
  BY <1>5 DEF BackendRuns, BackendEnds, BackendGoes, BackendIn, SendGoes, lifecycle, running,
     BackendReady, BackendInitFails, BackendStops, BackendDies, BackendSetDevices, BackendReport,
     BackendReleased, Send, BackendDetach, BackendAttach, BackendButton, BackendReleaseButton,
     BackendSyncAxis, BackendAxis, BackendReturned, BackendFinishLock, BackendFinishClose, BackendExits
<1>6. CASE UNCHANGED vars
  BY <1>6 DEF vars, lifecycle, running
<1> QED
  BY <1>1, <1>2, <1>3, <1>4, <1>5, <1>6 DEF Next

\* Only Start and Close move the phases DoomInv looks at.
LEMMA DoomFrame ==
  ASSUME [Next]_vars
  PROVE  \/ \E s \in Starters : StartBegin(s)
         \/ \E c \in Closers : Closing(c)
         \/ UNCHANGED <<started, cpc>>
<1>1. ASSUME NEW s \in Starters, Starting(s) \/ CancelCtx(s), ~ StartBegin(s)
      PROVE  UNCHANGED <<started, cpc>>
  BY <1>1 DEF Starting, StartRejected, StartSpawn, StartReady, StartGivesUp, StartWait, StartGoes,
     CancelCtx, status, closing
<1>2. ASSUME NEW k \in Capturers, Capturing(k) PROVE UNCHANGED <<started, cpc>>
  BY <1>2 DEF Capturing, CaptureBegin, CaptureAxisBegin, CaptureTake, CaptureGiveUp, CaptureClosed,
     CaptureLeave, CaptureGoes, lifecycle, status, closing
<1>3. CASE EnableAxisEvents \/ Receiving
  BY <1>3 DEF EnableAxisEvents, Receiving, ReceiveButton, ReceiveAxis, ReceiveError, lifecycle,
     status, closing
<1>4. CASE BackendRuns \/ BackendEnds
  BY <1>4 DEF BackendRuns, BackendEnds, BackendGoes, BackendIn, SendGoes, lifecycle, status, closing,
     BackendReady, BackendInitFails, BackendStops, BackendDies, BackendSetDevices, BackendReport,
     BackendReleased, Send, BackendDetach, BackendAttach, BackendButton, BackendReleaseButton,
     BackendSyncAxis, BackendAxis, BackendReturned, BackendFinishLock, BackendFinishClose, BackendExits
<1>5. CASE UNCHANGED vars
  BY <1>5 DEF vars, lifecycle, status, closing
<1> QED
  BY <1>1, <1>2, <1>3, <1>4, <1>5 DEF Next

\* The window between the unlock and the wg.Add of Start, in which a Close finds
\* nothing to wait for, lets through only a backend whose run context that Close
\* has cancelled: collection after Close has returned is never for good.
THEOREM CloseCancelsWhatItMisses == Spec => []OutlivedOnlyCancelled
<1>1. Init => DoomInv
  BY DEF Init, DoomInv
<1>2. TypeOK /\ LifecycleInv /\ DoomInv /\ [Next]_vars => DoomInv'
  <2> SUFFICES ASSUME TypeOK, LifecycleInv, DoomInv, [Next]_vars PROVE DoomInv'
    OBVIOUS
  <2>1. ASSUME NEW s \in Starters, StartBegin(s) PROVE DoomInv'
    <3>1. ~ closed /\ UNCHANGED <<cpc, cancelled>>
      BY <2>1 DEF StartBegin, StartGoes, closing
    <3>2. \A c \in Closers : ~ Shuts(c)
      BY <3>1 DEF LifecycleInv, FinishInv
    <3> QED
      BY <3>1, <3>2 DEF DoomInv, Shuts
  <2>2. ASSUME NEW c \in Closers, Closing(c) PROVE DoomInv'
    <3>1. UNCHANGED started
      BY <2>2 DEF Closing, CloseNoop, CloseBegin, CloseCancel, CloseWait, CloseFinishLock,
         CloseFinishClose, CloseGoes
    <3>2. \A d \in Closers \ {c} : cpc'[d] = cpc[d]
      BY <2>2 DEF Closing, CloseNoop, CloseBegin, CloseCancel, CloseWait, CloseFinishLock,
         CloseFinishClose, CloseGoes, TypeOK
    <3>3. cpc'[c] = "wait" => cancelled'
      BY <2>2 DEF Closing, CloseNoop, CloseBegin, CloseCancel, CloseWait, CloseFinishLock,
         CloseFinishClose, CloseGoes, TypeOK
    <3>4. cpc'[c] = "returned" => cpc[c] \in {"wait", "finishClose"}
      BY <2>2 DEF Closing, CloseNoop, CloseBegin, CloseCancel, CloseWait, CloseFinishLock,
         CloseFinishClose, CloseGoes, TypeOK
    <3>5. cpc[c] = "finishClose" => ~ started
      BY DEF LifecycleInv, FinishInv
    <3> QED
      BY <3>1, <3>2, <3>3, <3>4, <3>5, CancelledStays DEF DoomInv
  <2>3. CASE UNCHANGED <<started, cpc>>
    BY <2>3, CancelledStays DEF DoomInv
  <2> QED
    BY <2>1, <2>2, <2>3, DoomFrame
<1>3. LifecycleInv /\ DoomInv => OutlivedOnlyCancelled
  <2> SUFFICES ASSUME LifecycleInv, DoomInv, NEW c \in Closers, cpc[c] = "returned", Collecting
               PROVE  cancelled /\ c \notin sawRunning
    BY DEF OutlivedOnlyCancelled
  <2>1. started
    BY DEF LifecycleInv, OwnerInv, Collecting
  <2>2. c \notin sawRunning
    BY DEF LifecycleInv, ReleaseInv, FirstCloseReleases, AllReleased, Collecting
  <2> QED
    BY <2>1, <2>2 DEF DoomInv
<1> QED
  BY <1>1, <1>2, <1>3, TypeCorrect, LifecycleCorrect, PTL DEF Spec

-----------------------------------------------------------------------------
(* The captures *)

\* The captures do not depend on anything but their requests and on whether
\* finish has thrown them away.
LEMMA CaptureFrame ==
  ASSUME CaptureInv, UNCHANGED requests, finishOnce => finishOnce'
  PROVE  CaptureInv'
BY DEF CaptureInv, SlotInv, NoStrandedCapture, OneCaptureWaits, CaptureFindsFirstPress,
   BaselinesKept, AxisBaselineIsStart

\* finish throws the registered request away; its caller wakes by the channel.
LEMMA FinishCaptures ==
  ASSUME TypeOK, CaptureInv, FinishLock PROVE CaptureInv'
BY ManagerAssumption
   DEF TypeOK, FinishLock, CaptureInv, SlotInv, NoStrandedCapture, OneCaptureWaits,
   CaptureFindsFirstPress, BaselinesKept, AxisBaselineIsStart

\* Capture and CaptureAxis keep the captures together.
LEMMA CapturingCaptures ==
  ASSUME TypeOK, LifecycleInv, CaptureInv, NEW k \in Capturers, Capturing(k)
  PROVE  CaptureInv'
<1> USE ManagerAssumption
    DEF TypeOK, CaptureGoes, CaptureInv, SlotInv
<1>1. CASE CaptureBegin(k)
  <2>1. ~ finishOnce
    BY <1>1 DEF CaptureBegin, MayCapture, LifecycleInv
  <2> USE <1>1, <2>1 DEF CaptureBegin, MayCapture
  <2>2. SlotInv'
    OBVIOUS
  <2>3. NoStrandedCapture'
    BY DEF NoStrandedCapture
  <2>4. OneCaptureWaits'
    BY DEF NoStrandedCapture, OneCaptureWaits
  <2>5. CaptureFindsFirstPress'
    BY DEF CaptureFindsFirstPress
  <2>6. BaselinesKept'
    BY DEF BaselinesKept
  <2>7. AxisBaselineIsStart'
    BY DEF AxisBaselineIsStart
  <2> QED
    BY <2>2, <2>3, <2>4, <2>5, <2>6, <2>7
<1>2. CASE CaptureAxisBegin(k)
  <2>1. ~ finishOnce
    BY <1>2 DEF CaptureAxisBegin, MayCapture, LifecycleInv
  <2> USE <1>2, <2>1 DEF CaptureAxisBegin, MayCapture
  <2>2. SlotInv'
    OBVIOUS
  <2>3. NoStrandedCapture'
    BY DEF NoStrandedCapture
  <2>4. OneCaptureWaits'
    BY DEF NoStrandedCapture, OneCaptureWaits
  <2>5. CaptureFindsFirstPress'
    BY DEF CaptureFindsFirstPress
  <2>6. BaselinesKept'
    BY DEF BaselinesKept
  <2>7. AxisBaselineIsStart'
    BY DEF AxisBaselineIsStart
  <2> QED
    BY <2>2, <2>3, <2>4, <2>5, <2>6, <2>7
<1> USE DEF NoStrandedCapture, OneCaptureWaits, CaptureFindsFirstPress, BaselinesKept,
            AxisBaselineIsStart
<1>3. CASE CaptureTake(k)
  BY <1>3 DEF CaptureTake
<1>4. CASE CaptureGiveUp(k) \/ CaptureClosed(k)
  <2>1. CaptureGiveUp(k)
    BY <1>4 DEF CaptureClosed
  <2> QED
    BY <2>1 DEF CaptureGiveUp
<1>5. CASE CaptureLeave(k)
  BY <1>5 DEF CaptureLeave, ForgetRequest
<1> QED
  BY <1>1, <1>2, <1>3, <1>4, <1>5 DEF Capturing

\* A button event reaches the capture that waits for it: while the backend
\* emits, finish has not begun, so a blocked caller without an answer is the
\* registered one.
LEMMA EmitButtonCaptures ==
  ASSUME TypeOK, CaptureInv, ~ finishOnce, UNCHANGED finishOnce,
         NEW e \in ButtonEvent, EmitButton(e)
  PROVE  CaptureInv'
<1>1. e.button \in Buttons /\ e.button # None
  BY ManagerAssumption DEF ButtonEvent
<1>2. UNCHANGED <<kpc, kind, axisCapture>>
  BY DEF EmitButton
<1>3. \/ capture' = capture /\ result' = result
      \/ /\ capture \in Capturers /\ capture' = None
         /\ result' = [result EXCEPT ![capture] = e.button]
  BY DEF EmitButton, TypeOK
<1>4. \A k \in Capturers : result'[k] = None => result[k] = None
  BY <1>1, <1>3 DEF TypeOK
<1>5. NoStrandedCapture'
  BY <1>1, <1>2, <1>3, <1>4 DEF TypeOK, CaptureInv, NoStrandedCapture
<1>6. OneCaptureWaits'
  BY <1>2, <1>4 DEF CaptureInv, OneCaptureWaits
<1> USE <1>1, ManagerAssumption
    DEF TypeOK, EmitButton, FirstPresses, CaptureInv, SlotInv
<1>7. CaptureFindsFirstPress'
  BY DEF NoStrandedCapture, CaptureFindsFirstPress
<1>8. BaselinesKept' /\ AxisBaselineIsStart'
  BY DEF BaselinesKept, AxisBaselineIsStart
<1>9. SlotInv'
  OBVIOUS
<1> QED
  BY <1>5, <1>6, <1>7, <1>8, <1>9

\* An axis event never moves a baseline that was known, and measures the answer
\* from it.
LEMMA EmitAxisCaptures ==
  ASSUME TypeOK, CaptureInv, UNCHANGED finishOnce, NEW e \in AxisEvent, EmitAxis(e)
  PROVE  CaptureInv'
<1>1. e.axis \in Axes /\ e.value \in Position /\ e.value # None
  BY ManagerAssumption DEF AxisEvent
<1> DEFINE binding == [axis |-> e.axis, baseline |-> baselines[axisCapture][e.axis],
                       direction |-> DirectionOf(baselines[axisCapture][e.axis], e.value)]
           answers == result' = [result EXCEPT ![axisCapture] = binding]
<1>2. \/ UNCHANGED <<result, axisCapture>>
      \/ /\ axisCapture # None /\ result[axisCapture] = None
         /\ baselines[axisCapture][e.axis] # None /\ answers /\ axisCapture' = None
  BY DEF EmitAxis
<1>3. \/ UNCHANGED baselines
      \/ /\ axisCapture # None /\ baselines[axisCapture][e.axis] = None
         /\ baselines' = [baselines EXCEPT ![axisCapture][e.axis] = e.value]
  BY DEF EmitAxis
<1>4. UNCHANGED <<capture, kpc, kind, firstPress, startPos>>
  BY DEF EmitAxis
<1>5. axisCapture # None /\ baselines[axisCapture][e.axis] # None => binding # None
  BY <1>1, NoneAssumption DEF TypeOK, MaybePosition, AxisBinding, DirectionOf, Direction,
     Increasing, Decreasing
<1> HIDE DEF binding
<1> USE <1>1, <1>2, <1>3, <1>4, <1>5, ManagerAssumption DEF TypeOK, CaptureInv, SlotInv
<1>6. SlotInv'
  OBVIOUS
<1>7. NoStrandedCapture'
  BY DEF NoStrandedCapture
<1>8. OneCaptureWaits'
  BY DEF OneCaptureWaits
<1>9. CaptureFindsFirstPress'
  BY DEF CaptureFindsFirstPress
<1>10. BaselinesKept'
  BY DEF BaselinesKept
<1>11. AxisBaselineIsStart'
  BY DEF BaselinesKept, AxisBaselineIsStart, EmitAxis
<1> QED
  BY <1>6, <1>7, <1>8, <1>9, <1>10, <1>11

\* The captures hang together in every reachable state.
THEOREM CapturesCorrect == Spec => []CaptureInv
<1>1. Init => CaptureInv
  BY ManagerAssumption DEF Init, CaptureInv, SlotInv, NoStrandedCapture, OneCaptureWaits,
     CaptureFindsFirstPress, BaselinesKept, AxisBaselineIsStart
<1>2. TypeOK /\ LifecycleInv /\ CaptureInv /\ [Next]_vars => CaptureInv'
  <2> SUFFICES ASSUME TypeOK, LifecycleInv, CaptureInv, [Next]_vars PROVE CaptureInv'
    OBVIOUS
  <2>1. ASSUME NEW s \in Starters, Starting(s) \/ CancelCtx(s) PROVE CaptureInv'
    <3>1. UNCHANGED <<requests, finishOnce>>
      BY <2>1 DEF Starting, StartRejected, StartBegin, StartSpawn, StartReady, StartGivesUp,
         StartWait, StartGoes, CancelCtx
    <3> QED
      BY <3>1, CaptureFrame
  <2>2. ASSUME NEW c \in Closers, Closing(c) PROVE CaptureInv'
    <3>1. CASE CloseFinishLock(c)
      BY <3>1, FinishCaptures DEF CloseFinishLock
    <3>2. CASE ~ CloseFinishLock(c)
      <4>1. UNCHANGED <<requests, finishOnce>>
        BY <2>2, <3>2 DEF Closing, CloseNoop, CloseBegin, CloseCancel, CloseWait,
           CloseFinishClose, FinishClose, CloseGoes
      <4> QED
        BY <4>1, CaptureFrame
    <3> QED
      BY <3>1, <3>2
  <2>3. CASE EnableAxisEvents \/ Receiving \/ UNCHANGED vars
    <3>1. UNCHANGED <<requests, finishOnce>>
      BY <2>3 DEF EnableAxisEvents, Receiving, ReceiveButton, ReceiveAxis, ReceiveError, vars
    <3> QED
      BY <3>1, CaptureFrame
  <2>4. ASSUME NEW b \in Buttons, BackendButton(b) \/ BackendReleaseButton(b) PROVE CaptureInv'
    <3>1. ~ finishOnce /\ UNCHANGED finishOnce
      BY <2>4 DEF BackendButton, BackendReleaseButton, BackendIn, LifecycleInv
    <3>2. PICK e \in ButtonEvent : EmitButton(e)
      BY <2>4 DEF BackendButton, BackendReleaseButton, ButtonEvent
    <3> QED
      BY <3>1, <3>2, EmitButtonCaptures
  <2>5. ASSUME NEW a \in Axes, NEW v \in Position, BackendAxis(a, v) PROVE CaptureInv'
    <3>1. UNCHANGED finishOnce
      BY <2>5 DEF BackendAxis, BackendIn
    <3>2. PICK e \in AxisEvent : EmitAxis(e)
      BY <2>5 DEF BackendAxis, AxisEvent
    <3> QED
      BY <3>1, <3>2, EmitAxisCaptures
  <2>6. CASE \/ BackendReady \/ BackendInitFails \/ BackendStops \/ BackendDies
             \/ BackendSetDevices \/ BackendReport \/ BackendReleased \/ Send
             \/ \E d \in Devices : BackendDetach(d) \/ \E held \in SUBSET Buttons : BackendAttach(d, held)
             \/ \E a \in Axes, v \in Position : BackendSyncAxis(a, v)
    <3>1. UNCHANGED <<requests, finishOnce>>
      BY <2>6 DEF BackendReady, BackendInitFails, BackendStops, BackendDies, BackendSetDevices,
         BackendReport, BackendReleased, Send, SendGoes, BackendDetach, BackendAttach,
         BackendSyncAxis, BackendIn, BackendGoes
    <3> QED
      BY <3>1, CaptureFrame
  <2>7. CASE BackendEnds
    <3>1. CASE BackendFinishLock
      BY <3>1, FinishCaptures DEF BackendFinishLock
    <3>2. CASE ~ BackendFinishLock
      <4>1. UNCHANGED <<requests, finishOnce>>
        BY <2>7, <3>2 DEF BackendEnds, BackendReturned, BackendFinishClose, FinishClose,
           BackendExits, BackendGoes
      <4> QED
        BY <4>1, CaptureFrame
    <3> QED
      BY <3>1, <3>2
  <2> QED
    BY <2>1, <2>2, <2>3, <2>4, <2>5, <2>6, <2>7, CapturingCaptures DEF Next, BackendRuns
<1> QED
  BY <1>1, <1>2, TypeCorrect, LifecycleCorrect, PTL DEF Spec

\* Whoever is blocked in a capture can still be woken.
THEOREM NobodyStranded == Spec => []NoStrandedCapture
<1>1. CaptureInv => NoStrandedCapture
  BY DEF CaptureInv
<1> QED
  BY <1>1, CapturesCorrect, PTL

\* One caller at most is blocked in a capture without an answer.
THEOREM OneWaits == Spec => []OneCaptureWaits
<1>1. CaptureInv => OneCaptureWaits
  BY DEF CaptureInv
<1> QED
  BY <1>1, CapturesCorrect, PTL

\* Capture answers with the first press after it registered.
THEOREM FirstPressFound == Spec => []CaptureFindsFirstPress
<1>1. CaptureInv => CaptureFindsFirstPress
  BY DEF CaptureInv
<1> QED
  BY <1>1, CapturesCorrect, PTL

\* The baseline of an axis binding is the position known when CaptureAxis
\* registered, if one was.
THEOREM BaselineIsStart == Spec => []AxisBaselineIsStart
<1>1. CaptureInv => AxisBaselineIsStart
  BY DEF CaptureInv
<1> QED
  BY <1>1, CapturesCorrect, PTL
-----------------------------------------------------------------------------
(* Capture and CaptureAxis implement CaptureService *)

slot == IF capture # None THEN capture ELSE axisCapture

\* A step that touches neither the slot nor a caller is a stutter.
LEMMA ServiceStutter ==
  ASSUME UNCHANGED <<started, closed, capture, axisCapture, kpc, result>>
  PROVE  UNCHANGED Service!vars
BY DEF Service!vars

\* finish shuts the service down, or finds it shut and empty.
LEMMA FinishShuts ==
  ASSUME TypeOK, FinishLock, UNCHANGED started
  PROVE  [Service!Next]_(Service!vars)
<1>1. UNCHANGED <<kpc, result>> /\ closed' /\ capture' = None /\ axisCapture' = None
  BY DEF FinishLock
<1>2. CASE (started /\ ~ closed) \/ slot # None
  <2>1. Service!Shut
    BY <1>1, <1>2 DEF Service!Shut, slot
  <2> QED
    BY <2>1 DEF Service!Next
<1>3. CASE ~ (started /\ ~ closed) /\ slot = None
  BY <1>1, <1>3 DEF Service!vars, slot
<1> QED
  BY <1>2, <1>3

\* Callers take the slot, leave, and free it.
LEMMA CallersServed ==
  ASSUME TypeOK, CaptureInv, NEW k \in Capturers, Capturing(k)
  PROVE  [Service!Next]_(Service!vars)
<1> USE ManagerAssumption DEF TypeOK, CaptureGoes
<1>1. CASE CaptureBegin(k) \/ CaptureAxisBegin(k)
  <2>1. result[k] = None
    BY <1>1 DEF CaptureBegin, CaptureAxisBegin, CaptureInv, SlotInv
  <2>2. /\ started /\ ~ closed /\ UNCHANGED <<started, closed, result>>
        /\ slot = None /\ kpc[k] = "idle" /\ kpc' = [kpc EXCEPT ![k] = "select"]
    BY <1>1 DEF CaptureBegin, CaptureAxisBegin, MayCapture, slot
  <2>3. slot' = k
    BY <1>1 DEF CaptureBegin, CaptureAxisBegin, MayCapture, slot
  <2>4. Service!Request(k)
    BY <2>1, <2>2, <2>3 DEF Service!Request, slot
  <2> QED
    BY <2>4 DEF Service!Next
<1>2. CASE CaptureTake(k) \/ CaptureGiveUp(k) \/ CaptureClosed(k)
  <2>1. /\ kpc[k] = "select" /\ UNCHANGED <<started, closed, capture, axisCapture, result>>
        /\ kpc' = [kpc EXCEPT ![k] = "bound"] \/ kpc' = [kpc EXCEPT ![k] = "leave"]
    BY <1>2 DEF CaptureTake, CaptureGiveUp, CaptureClosed, lifecycle, status
  <2>2. ASSUME NEW to \in {"bound", "leave"}, kpc' = [kpc EXCEPT ![k] = to]
        PROVE  Service!Leave(k)
    BY <2>1, <2>2 DEF Service!Leave
  <2> QED
    BY <2>1, <2>2 DEF Service!Next
<1>3. CASE CaptureLeave(k)
  <2>1. /\ kpc[k] \in {"bound", "leave"} /\ kpc' = [kpc EXCEPT ![k] = "idle"]
        /\ result' = [result EXCEPT ![k] = None] /\ UNCHANGED <<started, closed>>
    BY <1>3 DEF CaptureLeave, ForgetRequest, lifecycle, status
  <2>2. slot' = IF slot = k THEN None ELSE slot
    BY <1>3 DEF CaptureLeave, CaptureInv, SlotInv, slot
  <2>3. Service!Return(k)
    BY <2>1, <2>2 DEF Service!Return, slot
  <2> QED
    BY <2>3 DEF Service!Next
<1> QED
  BY <1>1, <1>2, <1>3 DEF Capturing

\* An event that completes a capture answers the caller in the slot.
LEMMA EventsAnswer ==
  ASSUME TypeOK, CaptureInv, UNCHANGED <<started, closed, kpc>>,
         NEW k \in Capturers, slot = k, NEW x, x # None,
         result' = [result EXCEPT ![k] = x], capture' = None, axisCapture' = None
  PROVE  [Service!Next]_(Service!vars)
<1>1. kpc[k] \in {"select", "leave"} /\ result[k] = None /\ k # None
  BY ManagerAssumption DEF CaptureInv, SlotInv, slot
<1>2. Service!Answer
  BY <1>1 DEF TypeOK, Service!Answer, slot
<1> QED
  BY <1>2 DEF Service!Next

\* A button event answers or stutters.
LEMMA ButtonServed ==
  ASSUME TypeOK, CaptureInv, UNCHANGED <<started, closed>>, NEW e \in ButtonEvent, EmitButton(e)
  PROVE  [Service!Next]_(Service!vars)
<1>1. CASE e.pressed /\ capture # None /\ result[capture] = None
  <2>1. e.button # None
    BY ManagerAssumption DEF ButtonEvent
  <2>2. slot = capture /\ capture \in Capturers /\ axisCapture' = None
    BY <1>1 DEF TypeOK, EmitButton, CaptureInv, SlotInv, slot
  <2> QED
    BY <1>1, <2>1, <2>2, EventsAnswer DEF EmitButton
<1>2. CASE ~ (e.pressed /\ capture # None /\ result[capture] = None)
  BY <1>2, ServiceStutter DEF EmitButton
<1> QED
  BY <1>1, <1>2

\* An axis event answers or stutters.
LEMMA AxisServed ==
  ASSUME TypeOK, CaptureInv, UNCHANGED <<started, closed>>, NEW e \in AxisEvent, EmitAxis(e)
  PROVE  [Service!Next]_(Service!vars)
<1> DEFINE base == baselines[axisCapture][e.axis]
           completes == /\ axisCapture # None /\ result[axisCapture] = None
                        /\ base # None /\ CompletesCapture(base, e.value)
           binding == [axis |-> e.axis, baseline |-> base, direction |-> DirectionOf(base, e.value)]
<1>1. CASE completes
  <2>1. binding # None
    <3>1. axisCapture \in Capturers /\ e.axis \in Axes /\ base \in Position
      BY <1>1 DEF TypeOK, AxisEvent, MaybePosition
    <3>2. binding \in AxisBinding
      BY <3>1 DEF AxisBinding, DirectionOf, Direction, Increasing, Decreasing
    <3> QED
      BY <3>2, NoneAssumption
  <2>2. /\ slot = axisCapture /\ axisCapture \in Capturers
        /\ capture' = None /\ axisCapture' = None /\ UNCHANGED kpc
        /\ result' = [result EXCEPT ![axisCapture] = binding]
    BY <1>1 DEF TypeOK, EmitAxis, CaptureInv, SlotInv, slot
  <2> HIDE DEF binding
  <2> QED
    BY <2>1, <2>2, EventsAnswer
<1>2. CASE ~ completes
  BY <1>2, ServiceStutter DEF EmitAxis
<1> QED
  BY <1>1, <1>2

\* The two kinds of capture share one slot, given to one caller at a time,
\* freed with its answer and never on behalf of somebody else.
THEOREM CapturesAreServed == Spec => ServesCaptures
<1>1. Init => Service!Init
  BY DEF Init, Service!Init
<1>2. TypeOK /\ LifecycleInv /\ CaptureInv /\ [Next]_vars => [Service!Next]_(Service!vars)
  <2> SUFFICES ASSUME TypeOK, LifecycleInv, CaptureInv, [Next]_vars
               PROVE  [Service!Next]_(Service!vars)
    OBVIOUS
  <2>1. ASSUME NEW s \in Starters, Starting(s) \/ CancelCtx(s) PROVE [Service!Next]_(Service!vars)
    <3>1. CASE StartBegin(s)
      <4>1. Service!Open
        BY <3>1 DEF StartBegin, StartGoes, Service!Open
      <4> QED
        BY <4>1 DEF Service!Next
    <3>2. CASE ~ StartBegin(s)
      BY <2>1, <3>2, ServiceStutter DEF Starting, StartRejected, StartSpawn, StartReady,
         StartGivesUp, StartWait, StartGoes, CancelCtx
    <3> QED
      BY <3>1, <3>2
  <2>2. ASSUME NEW c \in Closers, Closing(c) PROVE [Service!Next]_(Service!vars)
    <3>1. CASE CloseFinishLock(c)
      BY <3>1, FinishShuts DEF CloseFinishLock, CloseGoes
    <3>2. CASE CloseBegin(c)
      <4>1. Service!Shut \/ UNCHANGED Service!vars
        BY <3>2 DEF CloseBegin, CloseGoes, Service!Shut, Service!vars
      <4> QED
        BY <4>1 DEF Service!Next
    <3>3. CASE ~ CloseFinishLock(c) /\ ~ CloseBegin(c)
      BY <2>2, <3>3, ServiceStutter DEF Closing, CloseNoop, CloseCancel, CloseWait,
         CloseFinishClose, FinishClose, CloseGoes
    <3> QED
      BY <3>1, <3>2, <3>3
  <2>3. CASE EnableAxisEvents \/ Receiving \/ UNCHANGED vars
    BY <2>3, ServiceStutter DEF EnableAxisEvents, Receiving, ReceiveButton, ReceiveAxis,
       ReceiveError, vars
  <2>4. ASSUME NEW b \in Buttons, BackendButton(b) \/ BackendReleaseButton(b)
        PROVE  [Service!Next]_(Service!vars)
    <3>1. UNCHANGED <<started, closed>>
      BY <2>4 DEF BackendButton, BackendReleaseButton, BackendIn
    <3>2. PICK e \in ButtonEvent : EmitButton(e)
      BY <2>4 DEF BackendButton, BackendReleaseButton, ButtonEvent
    <3> QED
      BY <3>1, <3>2, ButtonServed
  <2>5. ASSUME NEW a \in Axes, NEW v \in Position, BackendAxis(a, v)
        PROVE  [Service!Next]_(Service!vars)
    <3>1. UNCHANGED <<started, closed>>
      BY <2>5 DEF BackendAxis, BackendIn
    <3>2. PICK e \in AxisEvent : EmitAxis(e)
      BY <2>5 DEF BackendAxis, AxisEvent
    <3> QED
      BY <3>1, <3>2, AxisServed
  <2>6. CASE \/ BackendReady \/ BackendInitFails \/ BackendStops \/ BackendDies
             \/ BackendSetDevices \/ BackendReport \/ BackendReleased \/ Send
             \/ \E d \in Devices : BackendDetach(d) \/ \E held \in SUBSET Buttons : BackendAttach(d, held)
             \/ \E a \in Axes, v \in Position : BackendSyncAxis(a, v)
    BY <2>6, ServiceStutter DEF BackendReady, BackendInitFails, BackendStops, BackendDies,
       BackendSetDevices, BackendReport, BackendReleased, Send, SendGoes, BackendDetach,
       BackendAttach, BackendSyncAxis, BackendIn, BackendGoes
  <2>7. CASE BackendEnds
    <3>1. CASE BackendFinishLock
      BY <3>1, FinishShuts DEF BackendFinishLock, BackendGoes
    <3>2. CASE ~ BackendFinishLock
      BY <2>7, <3>2, ServiceStutter DEF BackendEnds, BackendReturned, BackendFinishClose,
         FinishClose, BackendExits, BackendGoes
    <3> QED
      BY <3>1, <3>2
  <2> QED
    BY <2>1, <2>2, <2>3, <2>4, <2>5, <2>6, <2>7, CallersServed DEF Next, BackendRuns
<1> QED
  BY <1>1, <1>2, TypeCorrect, LifecycleCorrect, CapturesCorrect, PTL
     DEF Spec, ServesCaptures, Service!Spec

-----------------------------------------------------------------------------
(* What a reader of Events is left with *)

\* Sending decides about the button of the event, and about no other.
LEMMA AppendDecides ==
  ASSUME NEW s \in Seq(ButtonEvent), NEW e \in ButtonEvent, NEW pressed, NEW b \in Buttons
  PROVE  StaysPressed(Append(s, e), pressed, b) <=>
            IF e.button = b THEN e.pressed ELSE StaysPressed(s, pressed, b)
<1> DEFINE t == Append(s, e)
<1>1. /\ DOMAIN s = 1 .. Len(s) /\ Len(s) \in Nat /\ DOMAIN t = 1 .. Len(s) + 1
      /\ t[Len(s) + 1] = e /\ \A i \in 1 .. Len(s) : t[i] = s[i]
  OBVIOUS
<1> HIDE DEF t
<1>2. CASE e.button = b
  <2>1. StaysPressed(t, pressed, b) => e.pressed
    BY <1>1, <1>2 DEF StaysPressed
  <2>2. e.pressed => StaysPressed(t, pressed, b)
    BY <1>1, <1>2 DEF StaysPressed
  <2> QED
    BY <1>2, <2>1, <2>2 DEF t
<1>3. CASE e.button # b
  <2>1. StaysPressed(t, pressed, b) => StaysPressed(s, pressed, b)
    BY <1>1, <1>3 DEF StaysPressed
  <2>2. StaysPressed(s, pressed, b) => StaysPressed(t, pressed, b)
    BY <1>1, <1>3 DEF StaysPressed
  <2> QED
    BY <1>3, <2>1, <2>2 DEF t
<1> QED
  BY <1>2, <1>3

\* Receiving decides nothing: what was first is known now, and still undone by
\* what comes after it.
LEMMA TailDecides ==
  ASSUME NEW s \in Seq(ButtonEvent), s # << >>, NEW pressed, NEW b \in Buttons, NEW after,
         after = IF Head(s).pressed THEN pressed \cup {Head(s).button}
                 ELSE pressed \ {Head(s).button},
         StaysPressed(Tail(s), after, b)
  PROVE  StaysPressed(s, pressed, b)
<1> DEFINE t == Tail(s)
           n == Len(s) - 1
<1>1. /\ n \in Nat /\ DOMAIN s = 1 .. n + 1 /\ DOMAIN t = 1 .. n
      /\ s[1] = Head(s) /\ \A i \in 1 .. n : t[i] = s[i + 1]
  OBVIOUS
<1> HIDE DEF t, n
<1>2. ASSUME NEW i \in DOMAIN s, i # 1 PROVE i - 1 \in DOMAIN t /\ s[i] = t[i - 1]
  BY <1>1, <1>2
<1>3. CASE b \in after /\ \A i \in DOMAIN t : t[i].button # b
  <2>1. \A i \in DOMAIN s : i # 1 => s[i].button # b
    BY <1>2, <1>3
  <2>2. CASE Head(s).button = b
    <3>1. Head(s).pressed
      BY <1>3, <2>2
    <3>2. s[1].button = b /\ s[1].pressed /\ 1 \in DOMAIN s
      BY <1>1, <2>2, <3>1
    <3>3. \A j \in DOMAIN s : s[j].button = b => j <= 1
      BY <1>1, <2>1
    <3> QED
      BY <3>2, <3>3 DEF StaysPressed
  <2>3. CASE Head(s).button # b
    <3>1. \A i \in DOMAIN s : s[i].button # b
      BY <1>1, <2>1, <2>3
    <3>2. b \in pressed
      BY <1>3, <2>3
    <3> QED
      BY <3>1, <3>2 DEF StaysPressed
  <2> QED
    BY <2>2, <2>3
<1>4. CASE \E i \in DOMAIN t : /\ t[i].button = b /\ t[i].pressed
                               /\ \A j \in DOMAIN t : t[j].button = b => j <= i
  <2>1. PICK i \in DOMAIN t : /\ t[i].button = b /\ t[i].pressed
                              /\ \A j \in DOMAIN t : t[j].button = b => j <= i
    BY <1>4
  <2>2. i + 1 \in DOMAIN s /\ s[i + 1] = t[i]
    BY <1>1
  <2>3. ASSUME NEW j \in DOMAIN s, s[j].button = b PROVE j <= i + 1
    BY <1>1, <1>2, <2>1, <2>3
  <2> QED
    BY <2>1, <2>2, <2>3 DEF StaysPressed
<1> QED
  BY <1>3, <1>4 DEF StaysPressed, t

\* Nothing is believed pressed that is not.
Believes == \A b \in Buttons : StaysPressed(Coming, view, b) => b \in down

LEMMA BelievesIs ==
  /\ NoStuckPress <=> Believes \/ lossReported
  /\ NoStuckPress' <=> Believes' \/ lossReported'
<1>1. NoStuckPress <=> Believes \/ lossReported
  BY DEF NoStuckPress, BelievedPressed, Believes
<1>2. NoStuckPress' <=> Believes' \/ lossReported'
  BY DEF NoStuckPress, BelievedPressed, Believes
<1> QED
  BY <1>1, <1>2

LEMMA LossStays == ASSUME NEW e, Report(e) PROVE lossReported => lossReported'
BY Zenon DEF Report

LEMMA BeliefFrame ==
  ASSUME NoStuckPress, UNCHANGED <<events, view, pending>>, down \subseteq down',
         lossReported => lossReported'
  PROVE  NoStuckPress'
BY DEF NoStuckPress, BelievedPressed, Coming

\* emitButton after a change of buttonState.
LEMMA EdgeBelief ==
  ASSUME TypeOK, NoStuckPress, pending = None, UNCHANGED <<events, view, lossReported>>,
         NEW e \in ButtonEvent, pending' = e,
         down' = IF e.pressed THEN down \cup {e.button} ELSE down \ {e.button}
  PROVE  NoStuckPress'
<1> SUFFICES ASSUME ~ lossReported PROVE Believes'
  BY BelievesIs
<1>1. Coming = events /\ Coming' = Append(events, e) /\ events \in Seq(ButtonEvent)
  BY NoneAssumption DEF Coming, TypeOK
<1>2. ASSUME NEW b \in Buttons, StaysPressed(Coming', view', b) PROVE b \in down'
  <2>1. IF e.button = b THEN e.pressed ELSE StaysPressed(events, view, b)
    BY <1>1, <1>2, AppendDecides
  <2>2. StaysPressed(events, view, b) => b \in down
    BY <1>1, BelievesIs DEF Believes
  <2> QED
    BY <2>1, <2>2
<1> QED
  BY <1>2 DEF Believes

LEMMA ReceiveBelief == ASSUME TypeOK, NoStuckPress, ReceiveButton PROVE NoStuckPress'
<1> SUFFICES ASSUME ~ lossReported PROVE Believes'
  BY BelievesIs DEF ReceiveButton
<1>1. /\ events \in Seq(ButtonEvent) /\ events # << >> /\ events' = Tail(events)
      /\ Tail(events) \in Seq(ButtonEvent)
      /\ view' = IF Head(events).pressed THEN view \cup {Head(events).button}
                 ELSE view \ {Head(events).button}
      /\ UNCHANGED <<pending, down>>
  BY DEF ReceiveButton, TypeOK
<1>2. ASSUME NEW b \in Buttons, StaysPressed(Tail(events), view', b)
      PROVE  StaysPressed(events, view, b)
  BY <1>1, <1>2, TailDecides
<1>3. ASSUME NEW b \in Buttons, StaysPressed(Coming', view', b) PROVE b \in down'
  <2>1. StaysPressed(Coming, view, b)
    <3>1. CASE pending \in ButtonEvent
      <4> DEFINE v == view'
      <4>0. StaysPressed(Append(Tail(events), pending), v, b)
        BY <1>1, <1>3, <3>1 DEF Coming
      <4> HIDE DEF v
      <4>2. IF pending.button = b THEN pending.pressed ELSE StaysPressed(Tail(events), v, b)
        BY <1>1, <3>1, <4>0, AppendDecides
      <4>1. IF pending.button = b THEN pending.pressed ELSE StaysPressed(Tail(events), view', b)
        BY <4>2 DEF v
      <4>3. IF pending.button = b THEN pending.pressed ELSE StaysPressed(events, view, b)
        BY <1>2, <4>1
      <4> QED
        BY <1>1, <3>1, <4>3, AppendDecides DEF Coming
    <3>2. CASE pending \notin ButtonEvent
      BY <1>1, <1>2, <1>3, <3>2 DEF Coming
    <3> QED
      BY <3>1, <3>2
  <2> QED
    BY <1>1, <2>1, BelievesIs DEF Believes
<1> QED
  BY <1>3 DEF Believes

LEMMA SendBelief == ASSUME TypeOK, NoStuckPress, Send PROVE NoStuckPress'
<1>1. None \notin ButtonEvent /\ \A x \in AxisEvent : x \notin ButtonEvent
  <2>1. \A x \in AxisEvent : DOMAIN x = {"axis", "value"}
    BY DEF AxisEvent
  <2>2. \A x \in ButtonEvent : DOMAIN x = {"button", "pressed"}
    BY DEF ButtonEvent
  <2> QED
    BY <2>1, <2>2, NoneAssumption
<1>2. pending' = None /\ UNCHANGED <<view, down>>
  BY DEF Send, SendGoes
<1>3. CASE pending \in ButtonEvent
  <2>1. pending \notin AxisEvent
    BY <1>1, <1>3
  <2>2. lossReported' \/ (events' = Append(events, pending) /\ UNCHANGED lossReported)
    BY <1>3, <2>1 DEF Send, Report
  <2>3. CASE lossReported'
    BY <2>3 DEF NoStuckPress
  <2>4. CASE events' = Append(events, pending) /\ UNCHANGED lossReported
    <3>1. UNCHANGED Coming
      BY <1>1, <1>2, <1>3, <2>4 DEF Coming
    <3> QED
      BY <1>2, <2>4, <3>1 DEF NoStuckPress, BelievedPressed
  <2> QED
    BY <2>2, <2>3, <2>4
<1>4. CASE pending \notin ButtonEvent
  <2>1. UNCHANGED events /\ (lossReported => lossReported')
    BY <1>4 DEF Send, Report
  <2>2. UNCHANGED Coming
    BY <1>1, <1>2, <1>4, <2>1 DEF Coming
  <2> QED
    BY <1>2, <2>1, <2>2 DEF NoStuckPress, BelievedPressed
<1> QED
  BY <1>3, <1>4

\* A reader of Events is left with a button pressed that is not only if it was
\* told that events were lost, for any buffer size, however slowly it reads, and
\* whether the button was released, unplugged or let go of in the shutdown.
THEOREM NeverStuck == Spec => []NoStuckPress
<1>1. Init => NoStuckPress
  BY NoneAssumption DEF Init, NoStuckPress, BelievedPressed, Coming, StaysPressed
<1>2. TypeOK /\ NoStuckPress /\ [Next]_vars => NoStuckPress'
  <2> SUFFICES ASSUME TypeOK, NoStuckPress, [Next]_vars PROVE NoStuckPress'
    OBVIOUS
  <2>1. ASSUME NEW s \in Starters, Starting(s) \/ CancelCtx(s) PROVE NoStuckPress'
    <3>1. UNCHANGED <<events, view, pending, down, lossReported>>
      BY <2>1 DEF Starting, StartRejected, StartBegin, StartSpawn, StartReady, StartGivesUp,
         StartWait, StartGoes, CancelCtx
    <3> QED
      BY <3>1, BeliefFrame
  <2>2. ASSUME NEW c \in Closers, Closing(c) PROVE NoStuckPress'
    <3>1. UNCHANGED <<events, view, pending, down, lossReported>>
      BY <2>2 DEF Closing, CloseNoop, CloseBegin, CloseCancel, CloseWait, CloseFinishLock,
         CloseFinishClose, FinishLock, FinishClose, CloseGoes
    <3> QED
      BY <3>1, BeliefFrame
  <2>3. ASSUME NEW k \in Capturers, Capturing(k) PROVE NoStuckPress'
    <3>1. UNCHANGED <<events, view, pending, down, lossReported>>
      BY <2>3 DEF Capturing, CaptureBegin, CaptureAxisBegin, CaptureTake, CaptureGiveUp,
         CaptureClosed, CaptureLeave, CaptureGoes
    <3> QED
      BY <3>1, BeliefFrame
  <2>4. CASE EnableAxisEvents \/ ReceiveAxis \/ ReceiveError \/ UNCHANGED vars
    <3>1. UNCHANGED <<events, view, pending, down, lossReported>>
      BY <2>4 DEF EnableAxisEvents, ReceiveAxis, ReceiveError, vars
    <3> QED
      BY <3>1, BeliefFrame
  <2>5. ASSUME NEW b \in Buttons, BackendButton(b) PROVE NoStuckPress'
    <3> DEFINE e == [button |-> b, pressed |-> b \notin down]
    <3>1. e \in ButtonEvent /\ e.button = b /\ (e.pressed <=> b \notin down)
      BY DEF ButtonEvent
    <3>2. /\ pending = None /\ pending' = e /\ UNCHANGED <<events, view, lossReported>>
          /\ down' = IF b \in down THEN down \ {b} ELSE down \cup {b}
      BY <2>5 DEF BackendButton, BackendIn, EmitButton
    <3> HIDE DEF e
    <3>3. down' = IF e.pressed THEN down \cup {e.button} ELSE down \ {e.button}
      BY <3>1, <3>2
    <3> QED
      BY <3>1, <3>2, <3>3, EdgeBelief
  <2>6. ASSUME NEW b \in Buttons, BackendReleaseButton(b) PROVE NoStuckPress'
    <3> DEFINE e == [button |-> b, pressed |-> FALSE]
    <3>1. e \in ButtonEvent /\ e.button = b /\ ~ e.pressed
      BY DEF ButtonEvent
    <3>2. /\ pending = None /\ pending' = e /\ UNCHANGED <<events, view, lossReported>>
          /\ down' = down \ {b}
      BY <2>6 DEF BackendReleaseButton, BackendIn, EmitButton
    <3> HIDE DEF e
    <3>3. down' = IF e.pressed THEN down \cup {e.button} ELSE down \ {e.button}
      BY <3>1, <3>2
    <3> QED
      BY <3>1, <3>2, <3>3, EdgeBelief
  <2>7. ASSUME NEW a \in Axes, NEW v \in Position, BackendAxis(a, v) PROVE NoStuckPress'
    <3>1. /\ pending = None /\ pending' \in AxisEvent \cup {None}
          /\ UNCHANGED <<events, view, down, lossReported>>
      BY <2>7 DEF BackendAxis, BackendIn, EmitAxis, AxisEvent
    <3>2. pending' \notin ButtonEvent /\ pending \notin ButtonEvent
      <4>1. \A x \in AxisEvent : DOMAIN x = {"axis", "value"}
        BY DEF AxisEvent
      <4>2. \A x \in ButtonEvent : DOMAIN x = {"button", "pressed"}
        BY DEF ButtonEvent
      <4> QED
        BY <3>1, <4>1, <4>2, NoneAssumption
    <3> QED
      BY <3>1, <3>2 DEF NoStuckPress, BelievedPressed, Coming
  <2>8. CASE \/ BackendReady \/ BackendInitFails \/ BackendStops \/ BackendDies
             \/ BackendSetDevices \/ BackendReport \/ BackendReleased
             \/ \E d \in Devices : BackendDetach(d) \/ \E held \in SUBSET Buttons : BackendAttach(d, held)
             \/ \E a \in Axes, v \in Position : BackendSyncAxis(a, v)
    <3>1. UNCHANGED <<events, view, pending>> /\ down \subseteq down'
          /\ (UNCHANGED lossReported \/ BackendReport)
      BY <2>8 DEF BackendReady, BackendInitFails, BackendStops, BackendDies, BackendSetDevices,
         BackendReport, BackendReleased, BackendDetach, BackendAttach, BackendSyncAxis,
         BackendIn, BackendGoes
    <3>2. lossReported => lossReported'
      BY <3>1, LossStays DEF BackendReport
    <3> QED
      BY <3>1, <3>2, BeliefFrame
  <2>9. CASE BackendEnds
    <3>1. UNCHANGED <<events, view, pending, down>>
      BY <2>9 DEF BackendEnds, BackendReturned, Report, BackendFinishLock, FinishLock,
         BackendFinishClose, FinishClose, BackendExits, BackendGoes
    <3>2. UNCHANGED lossReported \/ Report("window")
      BY <2>9 DEF BackendEnds, BackendReturned, BackendFinishLock, FinishLock,
         BackendFinishClose, FinishClose, BackendExits, BackendGoes
    <3>3. lossReported => lossReported'
      BY <3>2, LossStays
    <3> QED
      BY <3>1, <3>3, BeliefFrame
  <2> QED
    BY <2>1, <2>2, <2>3, <2>4, <2>5, <2>6, <2>7, <2>8, <2>9, ReceiveBelief, SendBelief
       DEF Next, BackendRuns, Receiving
<1> QED
  BY <1>1, <1>2, TypeCorrect, PTL DEF Spec

\* Between two presses of a button in s comes its release, also before the first
\* press of a button the reader holds pressed already.
Alternates(s, pressed) ==
    /\ \A i, j \in DOMAIN s :
        i < j /\ s[i].button = s[j].button /\ s[i].pressed /\ s[j].pressed =>
            \E k \in DOMAIN s : i < k /\ k < j /\ s[k].button = s[i].button /\ ~ s[k].pressed
    /\ \A j \in DOMAIN s : s[j].pressed /\ s[j].button \in pressed =>
            \E k \in DOMAIN s : k < j /\ s[k].button = s[j].button /\ ~ s[k].pressed

\* A reader of Events never sees a button pressed that it holds pressed, unless
\* an event was dropped, and then ErrEventBufferFull was reported.
NoDoublePress == lossReported \/ Alternates(Coming, view)

\* A new edge keeps the alternation if it is a release or of a button that is
\* not believed pressed.
LEMMA AppendAlternates ==
  ASSUME NEW s \in Seq(ButtonEvent), NEW e \in ButtonEvent, NEW pressed, Alternates(s, pressed),
         e.pressed => ~ StaysPressed(s, pressed, e.button)
  PROVE  Alternates(Append(s, e), pressed)
<1> DEFINE t == Append(s, e)
           n == Len(s)
<1>1. /\ n \in Nat /\ DOMAIN s = 1 .. n /\ DOMAIN t = 1 .. n + 1
      /\ t[n + 1] = e /\ \A i \in 1 .. n : t[i] = s[i]
  OBVIOUS
<1> HIDE DEF t, n
<1>2. ASSUME NEW i \in DOMAIN s, s[i].button = e.button, s[i].pressed, e.pressed
      PROVE  \E k \in DOMAIN s : i < k /\ s[k].button = e.button /\ ~ s[k].pressed
  <2>1. PICK j \in DOMAIN s : s[j].button = e.button /\ ~ (j <= i)
    BY <1>2 DEF StaysPressed
  <2>2. i < j
    BY <1>1, <2>1
  <2>3. CASE s[j].pressed
    BY <1>2, <2>1, <2>2, <2>3 DEF Alternates
  <2> QED
    BY <2>1, <2>2, <2>3
<1>3. ASSUME NEW i \in DOMAIN t, NEW j \in DOMAIN t,
             i < j, t[i].button = t[j].button, t[i].pressed, t[j].pressed
      PROVE  \E k \in DOMAIN t : i < k /\ k < j /\ t[k].button = t[i].button /\ ~ t[k].pressed
  <2>1. i \in DOMAIN s /\ t[i] = s[i]
    BY <1>1, <1>3
  <2>2. CASE j = n + 1
    <3>1. PICK k \in DOMAIN s : i < k /\ s[k].button = e.button /\ ~ s[k].pressed
      BY <1>1, <1>2, <1>3, <2>1, <2>2
    <3> QED
      BY <1>1, <1>3, <2>2, <3>1
  <2>3. CASE j # n + 1
    <3>1. j \in DOMAIN s /\ t[j] = s[j]
      BY <1>1, <2>3
    <3>2. PICK k \in DOMAIN s : i < k /\ k < j /\ s[k].button = s[i].button /\ ~ s[k].pressed
      BY <1>3, <2>1, <3>1 DEF Alternates
    <3> QED
      BY <1>1, <2>1, <3>2
  <2> QED
    BY <2>2, <2>3
<1>4. ASSUME NEW j \in DOMAIN t, t[j].pressed, t[j].button \in pressed
      PROVE  \E k \in DOMAIN t : k < j /\ t[k].button = t[j].button /\ ~ t[k].pressed
  <2>1. CASE j = n + 1
    <3>1. PICK i \in DOMAIN s : s[i].button = e.button
      BY <1>1, <1>4, <2>1 DEF StaysPressed
    <3>2. PICK k \in DOMAIN s : s[k].button = e.button /\ ~ s[k].pressed
      BY <1>1, <1>2, <1>4, <2>1, <3>1
    <3> QED
      BY <1>1, <2>1, <3>2
  <2>2. CASE j # n + 1
    <3>1. j \in DOMAIN s /\ t[j] = s[j]
      BY <1>1, <2>2
    <3>2. PICK k \in DOMAIN s : k < j /\ s[k].button = s[j].button /\ ~ s[k].pressed
      BY <1>4, <3>1 DEF Alternates
    <3> QED
      BY <1>1, <3>1, <3>2
  <2> QED
    BY <2>1, <2>2
<1> QED
  BY <1>3, <1>4 DEF Alternates, t

\* Receiving the first edge keeps the alternation of the rest with what is known.
LEMMA TailAlternates ==
  ASSUME NEW s \in Seq(ButtonEvent), s # << >>, NEW pressed, Alternates(s, pressed), NEW after,
         after = IF Head(s).pressed THEN pressed \cup {Head(s).button}
                 ELSE pressed \ {Head(s).button}
  PROVE  Alternates(Tail(s), after)
<1> DEFINE t == Tail(s)
           n == Len(s) - 1
<1>1. /\ n \in Nat /\ DOMAIN s = 1 .. n + 1 /\ DOMAIN t = 1 .. n
      /\ s[1] = Head(s) /\ \A i \in 1 .. n : t[i] = s[i + 1]
  OBVIOUS
<1> HIDE DEF t, n
<1>2. ASSUME NEW i \in DOMAIN t PROVE i + 1 \in DOMAIN s /\ t[i] = s[i + 1] /\ 1 < i + 1
  BY <1>1, <1>2
<1>3. ASSUME NEW k \in DOMAIN s, k # 1 PROVE k - 1 \in DOMAIN t /\ s[k] = t[k - 1]
  BY <1>1, <1>3
<1>4. ASSUME NEW i \in DOMAIN t, NEW j \in DOMAIN t,
             i < j, t[i].button = t[j].button, t[i].pressed, t[j].pressed
      PROVE  \E k \in DOMAIN t : i < k /\ k < j /\ t[k].button = t[i].button /\ ~ t[k].pressed
  <2>1. i + 1 < j + 1
    BY <1>1, <1>4
  <2>2. PICK k \in DOMAIN s : /\ i + 1 < k /\ k < j + 1
                              /\ s[k].button = s[i + 1].button /\ ~ s[k].pressed
    BY <1>2, <1>4, <2>1 DEF Alternates
  <2>3. k # 1 /\ i < k - 1 /\ k - 1 < j
    BY <1>1, <2>2
  <2> QED
    BY <1>2, <1>3, <2>2, <2>3
<1>5. ASSUME NEW j \in DOMAIN t, t[j].pressed, t[j].button \in after
      PROVE  \E k \in DOMAIN t : k < j /\ t[k].button = t[j].button /\ ~ t[k].pressed
  <2> DEFINE b == t[j].button
  <2>1. s[j + 1].button = b /\ s[j + 1].pressed /\ j + 1 \in DOMAIN s /\ 1 \in DOMAIN s
    BY <1>1, <1>2, <1>5
  <2>2. \E k \in DOMAIN s : k # 1 /\ k < j + 1 /\ s[k].button = b /\ ~ s[k].pressed
    <3>1. CASE s[1].button = b
      <4>1. s[1].pressed
        BY <1>1, <1>5, <3>1
      <4>2. PICK k \in DOMAIN s : 1 < k /\ k < j + 1 /\ s[k].button = s[1].button /\ ~ s[k].pressed
        BY <1>2, <2>1, <3>1, <4>1 DEF Alternates
      <4> QED
        BY <3>1, <4>2
    <3>2. CASE s[1].button # b
      <4>1. b \in pressed
        BY <1>1, <1>5, <3>2
      <4>2. PICK k \in DOMAIN s : k < j + 1 /\ s[k].button = s[j + 1].button /\ ~ s[k].pressed
        BY <2>1, <4>1 DEF Alternates
      <4> QED
        BY <2>1, <3>2, <4>2
    <3> QED
      BY <3>1, <3>2
  <2>3. PICK k \in DOMAIN s : k # 1 /\ k < j + 1 /\ s[k].button = b /\ ~ s[k].pressed
    BY <2>2
  <2>4. k - 1 < j
    BY <1>1, <2>3
  <2> QED
    BY <1>3, <2>3, <2>4
<1> QED
  BY <1>4, <1>5 DEF Alternates, t

\* What a step can do to the stream of button events: nothing, lose an event,
\* receive one, or let an edge of buttonState go.
LEMMA StreamSteps ==
  ASSUME TypeOK, [Next]_vars
  PROVE  \/ UNCHANGED <<Coming, view>> /\ (lossReported => lossReported')
         \/ lossReported'
         \/ ReceiveButton
         \/ \E e \in ButtonEvent :
                /\ pending = None /\ pending' = e /\ UNCHANGED <<events, view, lossReported>>
                /\ e.pressed <=> e.button \notin down
<1>1. None \notin ButtonEvent /\ \A x \in AxisEvent : x \notin ButtonEvent
  <2>1. \A x \in AxisEvent : DOMAIN x = {"axis", "value"}
    BY DEF AxisEvent
  <2>2. \A x \in ButtonEvent : DOMAIN x = {"button", "pressed"}
    BY DEF ButtonEvent
  <2> QED
    BY <2>1, <2>2, NoneAssumption
<1>2. ASSUME UNCHANGED <<events, view, pending>>, lossReported => lossReported'
      PROVE  UNCHANGED <<Coming, view>> /\ (lossReported => lossReported')
  BY <1>2 DEF Coming
<1>3. ASSUME NEW s \in Starters, Starting(s) \/ CancelCtx(s)
      PROVE  UNCHANGED <<events, view, pending, lossReported>>
  BY <1>3 DEF Starting, StartRejected, StartBegin, StartSpawn, StartReady, StartGivesUp,
     StartWait, StartGoes, CancelCtx
<1>4. ASSUME NEW c \in Closers, Closing(c) PROVE UNCHANGED <<events, view, pending, lossReported>>
  BY <1>4 DEF Closing, CloseNoop, CloseBegin, CloseCancel, CloseWait, CloseFinishLock,
     CloseFinishClose, FinishLock, FinishClose, CloseGoes
<1>5. ASSUME NEW k \in Capturers, Capturing(k) PROVE UNCHANGED <<events, view, pending, lossReported>>
  BY <1>5 DEF Capturing, CaptureBegin, CaptureAxisBegin, CaptureTake, CaptureGiveUp,
     CaptureClosed, CaptureLeave, CaptureGoes
<1>6. ASSUME EnableAxisEvents \/ ReceiveAxis \/ ReceiveError \/ UNCHANGED vars
      PROVE  UNCHANGED <<events, view, pending, lossReported>>
  BY <1>6 DEF EnableAxisEvents, ReceiveAxis, ReceiveError, vars
<1>7. ASSUME NEW b \in Buttons, BackendButton(b) \/ BackendReleaseButton(b)
      PROVE  \E e \in ButtonEvent :
                /\ pending = None /\ pending' = e /\ UNCHANGED <<events, view, lossReported>>
                /\ e.pressed <=> e.button \notin down
  <2>1. [button |-> b, pressed |-> b \notin down] \in ButtonEvent
    BY DEF ButtonEvent
  <2>2. CASE BackendButton(b)
    BY <2>1, <2>2 DEF BackendButton, BackendIn, EmitButton
  <2>3. CASE BackendReleaseButton(b)
    <3> DEFINE e == [button |-> b, pressed |-> FALSE]
    <3>1. e \in ButtonEvent /\ e.button = b /\ e.pressed = FALSE
      BY DEF ButtonEvent
    <3>2. b \in down /\ pending = None /\ pending' = e /\ UNCHANGED <<events, view, lossReported>>
      BY <2>3 DEF BackendReleaseButton, BackendIn, EmitButton
    <3> QED
      BY <3>1, <3>2
  <2> QED
    BY <1>7, <2>2, <2>3
<1>8. ASSUME NEW a \in Axes, NEW v \in Position, BackendAxis(a, v)
      PROVE  UNCHANGED <<Coming, view, lossReported>>
  <2>1. /\ pending = None /\ pending' \in AxisEvent \cup {None}
        /\ UNCHANGED <<events, view, lossReported>>
    BY <1>8 DEF BackendAxis, BackendIn, EmitAxis, AxisEvent
  <2> QED
    BY <1>1, <2>1 DEF Coming
<1>9. ASSUME \/ BackendReady \/ BackendInitFails \/ BackendStops \/ BackendDies
             \/ BackendSetDevices \/ BackendReport \/ BackendReleased
             \/ \E d \in Devices : BackendDetach(d) \/ \E held \in SUBSET Buttons : BackendAttach(d, held)
             \/ \E a \in Axes, v \in Position : BackendSyncAxis(a, v)
      PROVE  UNCHANGED <<events, view, pending>> /\ (lossReported => lossReported')
  <2>1. UNCHANGED <<events, view, pending>> /\ (UNCHANGED lossReported \/ BackendReport)
    BY <1>9 DEF BackendReady, BackendInitFails, BackendStops, BackendDies, BackendSetDevices,
       BackendReport, BackendReleased, BackendDetach, BackendAttach, BackendSyncAxis,
       BackendIn, BackendGoes
  <2> QED
    BY <2>1, LossStays DEF BackendReport
<1>10. ASSUME BackendEnds PROVE UNCHANGED <<events, view, pending>> /\ (lossReported => lossReported')
  <2>1. UNCHANGED <<events, view, pending>>
    BY <1>10 DEF BackendEnds, BackendReturned, Report, BackendFinishLock, FinishLock,
       BackendFinishClose, FinishClose, BackendExits, BackendGoes
  <2>2. UNCHANGED lossReported \/ Report("window")
    BY <1>10 DEF BackendEnds, BackendReturned, BackendFinishLock, FinishLock,
       BackendFinishClose, FinishClose, BackendExits, BackendGoes
  <2> QED
    BY <2>1, <2>2, LossStays
<1>11. ASSUME Send
       PROVE  lossReported' \/ (UNCHANGED <<Coming, view>> /\ (lossReported => lossReported'))
  <2>1. pending' = None /\ UNCHANGED view
    BY <1>11 DEF Send, SendGoes
  <2>2. CASE pending \in ButtonEvent
    <3>1. pending \notin AxisEvent
      BY <1>1, <2>2
    <3>2. lossReported' \/ (events' = Append(events, pending) /\ UNCHANGED lossReported)
      BY <1>11, <2>2, <3>1 DEF Send, Report
    <3> QED
      BY <1>1, <2>1, <2>2, <3>2 DEF Coming
  <2>3. CASE pending \notin ButtonEvent
    <3>1. UNCHANGED events /\ (lossReported => lossReported')
      BY <1>11, <2>3 DEF Send, Report
    <3> QED
      BY <1>1, <2>1, <2>3, <3>1 DEF Coming
  <2> QED
    BY <2>2, <2>3
<1> QED
  BY <1>2, <1>3, <1>4, <1>5, <1>6, <1>7, <1>8, <1>9, <1>10, <1>11
     DEF Next, BackendRuns, Receiving

\* Until a loss is reported, presses and releases of a button alternate for the
\* reader of Events as far as that a press never follows a press: a program that
\* counts presses counts none twice, though the device is unplugged in between.
THEOREM PressesAlternate == Spec => []NoDoublePress
<1>1. Init => NoDoublePress
  BY NoneAssumption DEF Init, NoDoublePress, Alternates, Coming
<1>2. TypeOK /\ NoStuckPress /\ NoDoublePress /\ [Next]_vars => NoDoublePress'
  <2> SUFFICES ASSUME TypeOK, NoStuckPress, NoDoublePress, [Next]_vars, ~ lossReported'
               PROVE  Alternates(Coming, view)'
    BY DEF NoDoublePress
  <2>1. CASE UNCHANGED <<Coming, view>> /\ (lossReported => lossReported')
    BY <2>1 DEF NoDoublePress, Alternates
  <2>2. CASE ReceiveButton
    <3>1. /\ events \in Seq(ButtonEvent) /\ events # << >> /\ events' = Tail(events)
          /\ Tail(events) \in Seq(ButtonEvent)
          /\ view' = IF Head(events).pressed THEN view \cup {Head(events).button}
                     ELSE view \ {Head(events).button}
          /\ UNCHANGED <<pending, lossReported>>
      BY <2>2 DEF ReceiveButton, TypeOK
    <3>2. /\ Coming \in Seq(ButtonEvent) /\ Coming # << >> /\ Head(Coming) = Head(events)
          /\ Coming' = Tail(Coming)
      <4>1. CASE pending \in ButtonEvent
        <5>1. Coming = Append(events, pending) /\ Coming' = Append(Tail(events), pending)
          BY <3>1, <4>1 DEF Coming
        <5>2. /\ Append(events, pending) \in Seq(ButtonEvent) /\ Append(events, pending) # << >>
              /\ Head(Append(events, pending)) = Head(events)
              /\ Tail(Append(events, pending)) = Append(Tail(events), pending)
          BY <3>1, <4>1
        <5> QED
          BY <5>1, <5>2
      <4>2. CASE pending \notin ButtonEvent
        BY <3>1, <4>2 DEF Coming
      <4> QED
        BY <4>1, <4>2
    <3>3. Alternates(Coming, view)
      BY <3>1 DEF NoDoublePress
    <3>4. Alternates(Tail(Coming), view')
      BY <3>1, <3>2, <3>3, TailAlternates
    <3> QED
      BY <3>2, <3>4
  <2>3. ASSUME NEW e \in ButtonEvent, pending = None, pending' = e,
               UNCHANGED <<events, view, lossReported>>, e.pressed <=> e.button \notin down
        PROVE  Alternates(Coming, view)'
    <3>1. Coming = events /\ Coming' = Append(events, e) /\ events \in Seq(ButtonEvent)
      BY <2>3, NoneAssumption DEF Coming, TypeOK
    <3>2. Alternates(events, view)
      BY <2>3, <3>1 DEF NoDoublePress
    <3>3. e.pressed => ~ StaysPressed(events, view, e.button)
      BY <2>3, <3>1, BelievesIs DEF Believes, ButtonEvent
    <3>4. Alternates(Append(events, e), view)
      BY <3>1, <3>2, <3>3, AppendAlternates
    <3> QED
      BY <2>3, <3>1, <3>4
  <2> QED
    BY <2>1, <2>2, <2>3, StreamSteps
<1> QED
  BY <1>1, <1>2, TypeCorrect, NeverStuck, PTL DEF Spec

=============================================================================
