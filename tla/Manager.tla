------------------------------ MODULE Manager ------------------------------
(***************************************************************************)
(* The controller Manager (pkg/controller/manager.go): one object shared   *)
(* by the goroutines that call Start, Close, Capture, CaptureAxis and read *)
(* its channels, and by the goroutine that runs the DirectInput backend.   *)
(*                                                                         *)
(* An action is one critical section of Manager.mu, one channel operation  *)
(* or one wait: whatever lies between two of them another goroutine can    *)
(* observe.  The backend is here as far as the Manager sees it: the order  *)
(* of its phases and of the calls it makes on its sink.                    *)
(*                                                                         *)
(* A definition whose comment begins with "Slip" is a plausible mistake in *)
(* the definition that follows it, kept to show which property notices.    *)
(***************************************************************************)
EXTENDS AxisTravel, Sequences

CONSTANTS
    Starters,         \* goroutines that call Start once
    Closers,          \* goroutines that call Close once
    Capturers,        \* goroutines that call Capture or CaptureAxis, repeatedly
    Devices,          \* DirectInput device instances
    Buttons,          \* buttons, over all devices
    Axes,             \* axis keys, over all devices
    DeviceOf,         \* the device of each button and axis
    EventBufferSize,  \* capacity of Events and of AxisEvents
    ErrorBufferSize,  \* capacity of Errors
    ReadsAxisEvents,  \* whether the program ever calls AxisEvents
    None              \* the absent value (a nil pointer, an empty channel)

ASSUME ManagerAssumption ==
    /\ EventBufferSize \in Nat \ {0}
    /\ ErrorBufferSize \in Nat \ {0}
    /\ ReadsAxisEvents \in BOOLEAN
    /\ DeviceOf \in [Buttons \cup Axes -> Devices]
    /\ None \notin Starters \cup Capturers \cup Buttons
    /\ None \notin Position

VARIABLES
    \* under Manager.mu
    optionErr,         \* an option was invalid; Start reports it
    started, closed,
    owner,             \* the Start call that set started, or None
    \* finish
    finishOnce,        \* finishOnce.Do has been entered
    chansClosed,       \* done, events, axisEvents and errors are closed
    \* what Start, Close and the backend goroutine wait on
    wg,                \* the WaitGroup's counter
    ctxDone,           \* the starters whose own context is cancelled
    cancelled,         \* the run context's cancel function was called
    ready,             \* the one-place channel from the backend to Start
    spc,               \* where each starter is
    cpc,               \* where each closer is
    sawRunning,        \* history: closers that found the goroutine spawned
    \* the streams and their reader
    events, axisEvents, errors, axisEventsEnabled,
    view,              \* history: buttons the reader of Events holds pressed
    lossReported,      \* history: ErrEventBufferFull was once reported
    \* Capture and CaptureAxis
    capture,           \* the caller registered by Capture, or None
    axisCapture,       \* the caller registered by CaptureAxis, or None
    kpc,               \* where each capturer is
    kind,              \* which of the two calls it makes
    result,            \* the one-place result channel of its request
    baselines,         \* the baselines map of its request
    firstPress,        \* history: first press emitted since it registered
    startPos,          \* history: axisValues when it registered
    \* what Devices and CaptureAxis look up
    devices, axisValues,
    \* the backend goroutine
    bpc,               \* its phase
    runErr,            \* run is going to return an error
    attached,          \* its devices map, initialised entries
    down,              \* buttonState, over all devices
    pending            \* an event between emit's critical section and its send

status    == <<optionErr, started, closed, owner>>
finishing == <<finishOnce, chansClosed>>
running   == <<wg, ctxDone, cancelled, ready>>
closing   == <<cpc, sawRunning>>
lifecycle == <<status, finishing, running, spc, closing>>
streams   == <<events, axisEvents, errors, axisEventsEnabled, view, lossReported>>
requests  == <<capture, axisCapture, kpc, kind, result, baselines, firstPress, startPos>>
positions == <<devices, axisValues>>
backend   == <<bpc, runErr, attached, down, pending>>
vars      == <<lifecycle, streams, requests, positions, backend>>

-----------------------------------------------------------------------------
MaybePosition == Position \cup {None}
NoPositions   == [a \in Axes |-> None]

ButtonEvent == [button : Buttons, pressed : BOOLEAN]
AxisEvent   == [axis : Axes, value : Position]
AxisBinding == [axis : Axes, direction : Direction, baseline : Position]
Error       == {"device", "window", "bufferFull", "axisBufferFull"}

ASSUME NoneAssumption == None \notin ButtonEvent \cup AxisEvent \cup AxisBinding

StartPhase   == {"idle", "rejected", "spawn", "select", "wait", "ok", "failed"}
ClosePhase   == {"idle", "cancel", "wait", "finishLock", "finishClose", "returned", "noop"}
CapturePhase == {"idle", "select", "bound", "leave"}
BackendPhase == {"none", "init", "run", "release", "returned", "finishLock",
                 "finishClose", "exiting", "exited"}

Init ==
    /\ optionErr \in BOOLEAN
    /\ started = FALSE /\ closed = FALSE /\ owner = None
    /\ finishOnce = FALSE /\ chansClosed = FALSE
    /\ wg = 0 /\ ctxDone = {} /\ cancelled = FALSE /\ ready = "empty"
    /\ spc = [s \in Starters |-> "idle"]
    /\ cpc = [c \in Closers |-> "idle"] /\ sawRunning = {}
    /\ events = << >> /\ axisEvents = << >> /\ errors = << >>
    /\ axisEventsEnabled = FALSE /\ view = {} /\ lossReported = FALSE
    /\ capture = None /\ axisCapture = None
    /\ kpc = [k \in Capturers |-> "idle"]
    /\ kind = [k \in Capturers |-> "button"]
    /\ result = [k \in Capturers |-> None]
    /\ baselines = [k \in Capturers |-> NoPositions]
    /\ firstPress = [k \in Capturers |-> None]
    /\ startPos = [k \in Capturers |-> NoPositions]
    /\ devices = {} /\ axisValues = NoPositions
    /\ bpc = "none" /\ runErr = FALSE
    /\ attached = {} /\ down = {} /\ pending = None

-----------------------------------------------------------------------------
(* Start *)

\* The run context is a child of the caller's context.
RunCtxDone == cancelled \/ owner \in ctxDone

\* A starter's context may be cancelled at any time, before or after Start.
CancelCtx(s) ==
    /\ s \notin ctxDone
    /\ ctxDone' = ctxDone \cup {s}
    /\ UNCHANGED <<status, finishing, wg, cancelled, ready, spc, closing>>
    /\ UNCHANGED <<streams, requests, positions, backend>>

StartGoes(s, from, to) ==
    /\ spc[s] = from
    /\ spc' = [spc EXCEPT ![s] = to]
    /\ UNCHANGED <<optionErr, closed, finishing, ctxDone, closing>>
    /\ UNCHANGED <<streams, requests, positions>>

StartRejected(s) ==
    /\ StartGoes(s, "idle", "rejected")
    /\ optionErr \/ closed \/ started \/ s \in ctxDone
    /\ UNCHANGED <<started, owner, running, backend>>

\* Slip: the check of started is left out.
StartBeginAgain(s) ==
    /\ StartGoes(s, "idle", "spawn")
    /\ ~ optionErr /\ ~ closed /\ s \notin ctxDone
    /\ started' = TRUE /\ owner' = s
    /\ UNCHANGED <<wg, cancelled, ready, backend>>

StartBegin(s) ==
    /\ StartGoes(s, "idle", "spawn")
    /\ ~ optionErr /\ ~ closed /\ ~ started /\ s \notin ctxDone
    /\ started' = TRUE /\ owner' = s
    /\ UNCHANGED <<wg, cancelled, ready, backend>>

\* wg.Add(1) and the go statement, after Manager.mu was released.
StartSpawn(s) ==
    /\ StartGoes(s, "spawn", "select")
    /\ wg' = 1 /\ bpc' = "init"
    /\ UNCHANGED <<started, owner, cancelled, ready, runErr, attached, down, pending>>

StartReady(s) ==
    /\ StartGoes(s, "select", "ok")
    /\ ready = "ok" /\ ready' = "empty"
    /\ UNCHANGED <<started, owner, wg, cancelled, backend>>

\* The backend reported an error, or the caller's context ended first: select
\* takes either one that is available, and both go on to cancel and wait.
StartGivesUp(s) ==
    /\ StartGoes(s, "select", "wait")
    /\ \/ ready = "err" /\ ready' = "empty"
       \/ s \in ctxDone /\ UNCHANGED ready
    /\ cancelled' = TRUE
    /\ UNCHANGED <<started, owner, wg, backend>>

\* Slip: Start returns its error without wg.Wait.
StartWaitSkipped(s) ==
    /\ StartGoes(s, "wait", "failed")
    /\ UNCHANGED <<started, owner, running, backend>>

StartWait(s) ==
    /\ StartGoes(s, "wait", "failed")
    /\ wg = 0
    /\ UNCHANGED <<started, owner, running, backend>>

-----------------------------------------------------------------------------
(* finish, run once by the backend goroutine or by Close, and Close *)

FinishLock ==
    /\ ~ finishOnce
    /\ finishOnce' = TRUE /\ closed' = TRUE
    /\ capture' = None /\ axisCapture' = None
    /\ UNCHANGED <<chansClosed, kpc, kind, result, baselines, firstPress, startPos>>

FinishClose == chansClosed' = TRUE /\ UNCHANGED <<closed, finishOnce, requests>>

CloseGoes(c, from, to) ==
    /\ cpc[c] = from
    /\ cpc' = [cpc EXCEPT ![c] = to]
    /\ sawRunning' = IF from = "idle" /\ wg = 1 THEN sawRunning \cup {c} ELSE sawRunning
    /\ UNCHANGED <<optionErr, started, owner, wg, ctxDone, ready, spc>>
    /\ UNCHANGED <<streams, positions, backend>>

\* A second Close returns at once, whatever the first one is doing.
CloseNoop(c) ==
    /\ CloseGoes(c, "idle", "noop")
    /\ closed
    /\ UNCHANGED <<closed, finishing, cancelled, requests>>

\* Slip: Close runs finish whether or not there is a backend.
CloseBeginAlwaysFinishes(c) ==
    /\ CloseGoes(c, "idle", "finishLock")
    /\ ~ closed /\ closed' = TRUE
    /\ UNCHANGED <<finishing, cancelled, requests>>

\* started and cancel are read here, under the lock, and used after it.
CloseBegin(c) ==
    /\ CloseGoes(c, "idle", IF started THEN "cancel" ELSE "finishLock")
    /\ ~ closed /\ closed' = TRUE
    /\ UNCHANGED <<finishing, cancelled, requests>>

CloseCancel(c) ==
    /\ CloseGoes(c, "cancel", "wait")
    /\ cancelled' = TRUE
    /\ UNCHANGED <<closed, finishing, requests>>

\* Slip: Close returns without wg.Wait.
CloseWaitSkipped(c) ==
    /\ CloseGoes(c, "wait", "returned")
    /\ UNCHANGED <<closed, finishing, cancelled, requests>>

CloseWait(c) ==
    /\ CloseGoes(c, "wait", "returned")
    /\ wg = 0
    /\ UNCHANGED <<closed, finishing, cancelled, requests>>

CloseFinishLock(c) ==
    CloseGoes(c, "finishLock", "finishClose") /\ FinishLock /\ UNCHANGED cancelled

CloseFinishClose(c) ==
    CloseGoes(c, "finishClose", "returned") /\ FinishClose /\ UNCHANGED cancelled

-----------------------------------------------------------------------------
(* Capture and CaptureAxis *)

\* Slip: a capture in progress is not looked for.
MayCaptureAlways == started /\ ~ closed

MayCapture == started /\ ~ closed /\ capture = None /\ axisCapture = None

CaptureGoes(k, from, to) ==
    /\ kpc[k] \in from
    /\ kpc' = [kpc EXCEPT ![k] = to]
    /\ UNCHANGED <<lifecycle, streams, positions, backend>>

CaptureBegin(k) ==
    /\ CaptureGoes(k, {"idle"}, "select")
    /\ MayCapture
    /\ capture' = k /\ kind' = [kind EXCEPT ![k] = "button"]
    /\ UNCHANGED <<axisCapture, result, baselines, firstPress, startPos>>

\* Slip: the known positions are not copied.
CaptureAxisBeginBlank(k) ==
    /\ CaptureGoes(k, {"idle"}, "select")
    /\ MayCapture
    /\ axisCapture' = k /\ kind' = [kind EXCEPT ![k] = "axis"]
    /\ startPos' = [startPos EXCEPT ![k] = axisValues]
    /\ UNCHANGED <<capture, result, baselines, firstPress>>

\* The baselines are a copy of the positions known at this moment.
CaptureAxisBegin(k) ==
    /\ CaptureGoes(k, {"idle"}, "select")
    /\ MayCapture
    /\ axisCapture' = k /\ kind' = [kind EXCEPT ![k] = "axis"]
    /\ baselines' = [baselines EXCEPT ![k] = axisValues]
    /\ startPos' = [startPos EXCEPT ![k] = axisValues]
    /\ UNCHANGED <<capture, result, firstPress>>

\* The three branches of the select.  The caller's context may end whenever it
\* likes, also when a binding is already waiting.
CaptureTake(k) ==
    /\ CaptureGoes(k, {"select"}, "bound")
    /\ result[k] # None
    /\ UNCHANGED <<capture, axisCapture, kind, result, baselines, firstPress, startPos>>

CaptureGiveUp(k) ==
    /\ CaptureGoes(k, {"select"}, "leave")
    /\ UNCHANGED <<capture, axisCapture, kind, result, baselines, firstPress, startPos>>

CaptureClosed(k) == chansClosed /\ CaptureGiveUp(k)

\* The request of a call that returns is garbage.
ForgetRequest(k) ==
    /\ kind' = [kind EXCEPT ![k] = "button"]
    /\ result' = [result EXCEPT ![k] = None]
    /\ baselines' = [baselines EXCEPT ![k] = NoPositions]
    /\ firstPress' = [firstPress EXCEPT ![k] = None]
    /\ startPos' = [startPos EXCEPT ![k] = NoPositions]

\* Slip: the deferred section clears the slot whoever holds it.
CaptureLeaveClearing(k) ==
    /\ CaptureGoes(k, {"bound", "leave"}, "idle")
    /\ capture' = IF kind[k] = "button" THEN None ELSE capture
    /\ axisCapture' = IF kind[k] = "axis" THEN None ELSE axisCapture
    /\ ForgetRequest(k)

\* The deferred critical section: the slot is cleared only if it still holds
\* this very request.
CaptureLeave(k) ==
    /\ CaptureGoes(k, {"bound", "leave"}, "idle")
    /\ capture' = IF kind[k] = "button" /\ capture = k THEN None ELSE capture
    /\ axisCapture' = IF kind[k] = "axis" /\ axisCapture = k THEN None ELSE axisCapture
    /\ ForgetRequest(k)

-----------------------------------------------------------------------------
(* The reader of the three streams *)

EnableAxisEvents ==
    /\ ReadsAxisEvents /\ ~ axisEventsEnabled
    /\ axisEventsEnabled' = TRUE
    /\ UNCHANGED <<events, axisEvents, errors, view, lossReported>>
    /\ UNCHANGED <<lifecycle, requests, positions, backend>>

ReceiveButton ==
    /\ events # << >>
    /\ events' = Tail(events)
    /\ LET e == Head(events)
       IN  view' = IF e.pressed THEN view \cup {e.button} ELSE view \ {e.button}
    /\ UNCHANGED <<axisEvents, errors, axisEventsEnabled, lossReported>>
    /\ UNCHANGED <<lifecycle, requests, positions, backend>>

ReceiveAxis ==
    /\ axisEvents # << >>
    /\ axisEvents' = Tail(axisEvents)
    /\ UNCHANGED <<events, errors, axisEventsEnabled, view, lossReported>>
    /\ UNCHANGED <<lifecycle, requests, positions, backend>>

ReceiveError ==
    /\ errors # << >>
    /\ errors' = Tail(errors)
    /\ UNCHANGED <<events, axisEvents, axisEventsEnabled, view, lossReported>>
    /\ UNCHANGED <<lifecycle, requests, positions, backend>>

-----------------------------------------------------------------------------
(* The sink, called by the backend goroutine only *)

\* Manager.report: never blocks, so an error that finds no room is dropped.
Report(e) ==
    /\ errors' = IF Len(errors) < ErrorBufferSize THEN Append(errors, e) ELSE errors
    /\ lossReported' = (lossReported \/ e = "bufferFull")

\* Positions of devices that are gone are forgotten.
SetDevices(ds) ==
    /\ devices' = ds
    /\ axisValues' = [a \in Axes |-> IF DeviceOf[a] \in ds THEN axisValues[a] ELSE None]

FirstPresses(e) ==
    [k \in Capturers |->
        IF e.pressed /\ kpc[k] = "select" /\ kind[k] = "button" /\ firstPress[k] = None
        THEN e.button ELSE firstPress[k]]

\* Slip: any edge completes the capture.
EmitButtonAnyEdge(e) ==
    /\ IF capture # None /\ result[capture] = None
       THEN /\ result' = [result EXCEPT ![capture] = e.button]
            /\ capture' = None
       ELSE UNCHANGED <<result, capture>>
    /\ firstPress' = FirstPresses(e)
    /\ pending' = e
    /\ UNCHANGED <<axisCapture, kpc, kind, baselines, startPos>>

\* Slip: the completed request stays registered.
EmitButtonKeepsSlot(e) ==
    /\ IF e.pressed /\ capture # None /\ result[capture] = None
       THEN result' = [result EXCEPT ![capture] = e.button]
       ELSE UNCHANGED result
    /\ firstPress' = FirstPresses(e)
    /\ pending' = e
    /\ UNCHANGED <<capture, axisCapture, kpc, kind, baselines, startPos>>

\* emitButton up to the unlock: a press goes to the registered capture.
EmitButton(e) ==
    /\ IF e.pressed /\ capture # None /\ result[capture] = None
       THEN /\ result' = [result EXCEPT ![capture] = e.button]
            /\ capture' = None
       ELSE UNCHANGED <<result, capture>>
    /\ firstPress' = FirstPresses(e)
    /\ pending' = e
    /\ UNCHANGED <<axisCapture, kpc, kind, baselines, startPos>>

\* emitAxis up to the unlock.  An axis without a baseline gets this sample as
\* its baseline and cannot complete the capture yet.  Without a reader of
\* AxisEvents there is nothing left to send.
EmitAxis(e) ==
    LET k    == axisCapture
        base == baselines[k][e.axis]
        completes == /\ k # None /\ result[k] = None
                     /\ base # None /\ CompletesCapture(base, e.value)
    IN  /\ axisValues' = [axisValues EXCEPT ![e.axis] = e.value]
        /\ baselines' = IF k # None /\ base = None
                        THEN [baselines EXCEPT ![k][e.axis] = e.value]
                        ELSE baselines
        /\ result' = IF completes
                     THEN [result EXCEPT ![k] =
                            [axis |-> e.axis, baseline |-> base,
                             direction |-> DirectionOf(base, e.value)]]
                     ELSE result
        /\ axisCapture' = IF completes THEN None ELSE axisCapture
        /\ pending' = IF axisEventsEnabled THEN e ELSE None
        /\ UNCHANGED <<devices, capture, kpc, kind, firstPress, startPos>>

SendGoes ==
    /\ pending' = None
    /\ UNCHANGED <<bpc, runErr, attached, down, axisEventsEnabled, view>>
    /\ UNCHANGED <<lifecycle, requests, positions>>

\* Slip: the send has no default branch and waits for room.
SendBlocking ==
    /\ SendGoes
    /\ \/ /\ pending \in ButtonEvent /\ Len(events) < EventBufferSize
          /\ events' = Append(events, pending) /\ UNCHANGED axisEvents
       \/ /\ pending \in AxisEvent /\ Len(axisEvents) < EventBufferSize
          /\ axisEvents' = Append(axisEvents, pending) /\ UNCHANGED events
    /\ UNCHANGED <<errors, lossReported>>

\* Slip: the event is appended whether or not there is room.
SendUnbounded ==
    /\ SendGoes
    /\ \/ pending \in ButtonEvent /\ events' = Append(events, pending) /\ UNCHANGED axisEvents
       \/ pending \in AxisEvent /\ axisEvents' = Append(axisEvents, pending) /\ UNCHANGED events
    /\ UNCHANGED <<errors, lossReported>>

\* The non-blocking send that follows: a full stream drops the event and
\* reports that instead.
Send ==
    /\ SendGoes
    /\ \/ /\ pending \in ButtonEvent
          /\ UNCHANGED axisEvents
          /\ IF Len(events) < EventBufferSize
             THEN events' = Append(events, pending) /\ UNCHANGED <<errors, lossReported>>
             ELSE Report("bufferFull") /\ UNCHANGED events
       \/ /\ pending \in AxisEvent
          /\ UNCHANGED events
          /\ IF Len(axisEvents) < EventBufferSize
             THEN axisEvents' = Append(axisEvents, pending) /\ UNCHANGED <<errors, lossReported>>
             ELSE Report("axisBufferFull") /\ UNCHANGED axisEvents

-----------------------------------------------------------------------------
(* The backend goroutine: inputBackend.run, then report and finish *)

\* A step within one of these phases; it may call the sink.
BackendIn(phases) ==
    /\ bpc \in phases /\ pending = None
    /\ UNCHANGED <<lifecycle, bpc, runErr>>

\* initializeDevice reads the positions of a device it is about to attach, as
\* often as it needs to, without emitting them.
BackendSyncAxis(a, v) ==
    /\ BackendIn({"init", "run"})
    /\ DeviceOf[a] \notin attached
    /\ axisValues' = [axisValues EXCEPT ![a] = v]
    /\ UNCHANGED <<devices, streams, requests, attached, down, pending>>

\* The device is attached; the buttons held at that moment are not announced.
BackendAttach(d, held) ==
    /\ BackendIn({"init", "run"})
    /\ d \notin attached /\ \A b \in held : DeviceOf[b] = d
    /\ attached' = attached \cup {d}
    /\ down' = down \cup held
    /\ UNCHANGED <<streams, requests, positions, pending>>

\* Slip: the device is dropped with its buttons held and nobody is told.
BackendDetachHeld(d) ==
    /\ BackendIn({"run"})
    /\ d \in attached
    /\ attached' = attached \ {d}
    /\ down' = {b \in down : DeviceOf[b] # d}
    /\ UNCHANGED <<streams, requests, positions, pending>>

\* A device that is gone, once its buttons have been released.
BackendDetach(d) ==
    /\ BackendIn({"run"})
    /\ d \in attached /\ \A b \in down : DeviceOf[b] # d
    /\ attached' = attached \ {d}
    /\ UNCHANGED <<streams, requests, positions, down, pending>>

\* The snapshot also names devices that could not be initialised yet.
BackendSetDevices ==
    /\ BackendIn({"init", "run"})
    /\ \E found \in SUBSET Devices : attached \subseteq found /\ SetDevices(found)
    /\ UNCHANGED <<streams, requests, attached, down, pending>>

BackendReport ==
    /\ BackendIn({"init", "run"})
    /\ Report("device")
    /\ UNCHANGED <<events, axisEvents, axisEventsEnabled, view>>
    /\ UNCHANGED <<requests, positions, attached, down, pending>>

BackendButton(b) ==
    /\ BackendIn({"run"})
    /\ DeviceOf[b] \in attached
    /\ down' = IF b \in down THEN down \ {b} ELSE down \cup {b}
    /\ EmitButton([button |-> b, pressed |-> b \notin down])
    /\ UNCHANGED <<streams, positions, attached>>

BackendAxis(a, v) ==
    /\ BackendIn({"run"})
    /\ DeviceOf[a] \in attached /\ v # axisValues[a]
    /\ EmitAxis([axis |-> a, value |-> v])
    /\ UNCHANGED <<streams, attached, down>>

\* releaseAll: every held button is released with an event.
BackendReleaseButton(b) ==
    /\ BackendIn({"release"})
    /\ b \in down /\ down' = down \ {b}
    /\ EmitButton([button |-> b, pressed |-> FALSE])
    /\ UNCHANGED <<streams, positions, attached>>

BackendGoes(from, to) ==
    /\ bpc = from /\ pending = None
    /\ bpc' = to
    /\ UNCHANGED <<optionErr, started, owner, ctxDone, cancelled, spc, closing>>
    /\ UNCHANGED <<events, axisEvents, axisEventsEnabled, view, down, pending>>

BackendReady ==
    /\ BackendGoes("init", "run")
    /\ ready' = "ok"
    /\ UNCHANGED <<closed, finishing, wg, errors, lossReported, requests, positions>>
    /\ UNCHANGED <<runErr, attached>>

\* Slip: an error path returns without a word on ready.
BackendInitFailsSilently ==
    /\ BackendGoes("init", "release")
    /\ UNCHANGED <<closed, finishing, wg, ready, errors, lossReported, requests, positions>>
    /\ UNCHANGED <<runErr, attached>>

\* The error is sent before the deferred releases have run.
BackendInitFails ==
    /\ BackendGoes("init", "release")
    /\ ready' = "err"
    /\ UNCHANGED <<closed, finishing, wg, errors, lossReported, requests, positions>>
    /\ UNCHANGED <<runErr, attached>>

\* The loop sees the run context end; select may prefer a tick for a while.
BackendStops ==
    /\ BackendGoes("run", "release")
    /\ RunCtxDone
    /\ UNCHANGED <<closed, finishing, wg, ready, errors, lossReported, requests, positions>>
    /\ UNCHANGED <<runErr, attached>>

\* The caller's window is gone.
BackendDies ==
    /\ BackendGoes("run", "release")
    /\ runErr' = TRUE
    /\ UNCHANGED <<closed, finishing, wg, ready, errors, lossReported, requests, positions>>
    /\ UNCHANGED attached

\* Once the buttons are released, the devices, DirectInput and the window go.
BackendReleased ==
    /\ BackendGoes("release", "returned")
    /\ down = {} /\ attached' = {}
    /\ SetDevices({})
    /\ UNCHANGED <<closed, finishing, wg, ready, errors, lossReported, requests, runErr>>

\* Slip: the last error is sent without a default branch, and waits for room.
BackendReturnedBlocking ==
    /\ BackendGoes("returned", "finishLock")
    /\ IF runErr THEN Len(errors) < ErrorBufferSize /\ Report("window")
                 ELSE UNCHANGED <<errors, lossReported>>
    /\ UNCHANGED <<closed, finishing, wg, ready, requests, positions, runErr, attached>>

BackendReturned ==
    /\ BackendGoes("returned", "finishLock")
    /\ IF runErr THEN Report("window") ELSE UNCHANGED <<errors, lossReported>>
    /\ UNCHANGED <<closed, finishing, wg, ready, requests, positions, runErr, attached>>

BackendFinishLock ==
    /\ BackendGoes("finishLock", "finishClose") /\ FinishLock
    /\ UNCHANGED <<wg, ready, errors, lossReported, positions, runErr, attached>>

BackendFinishClose ==
    /\ BackendGoes("finishClose", "exiting") /\ FinishClose
    /\ UNCHANGED <<wg, ready, errors, lossReported, positions, runErr, attached>>

BackendExits ==
    /\ BackendGoes("exiting", "exited")
    /\ wg' = 0
    /\ UNCHANGED <<closed, finishing, ready, errors, lossReported, requests, positions>>
    /\ UNCHANGED <<runErr, attached>>

-----------------------------------------------------------------------------
Starting(s) ==
    \/ StartRejected(s) \/ StartBegin(s) \/ StartSpawn(s)
    \/ StartReady(s) \/ StartGivesUp(s) \/ StartWait(s)

Closing(c) ==
    \/ CloseNoop(c) \/ CloseBegin(c) \/ CloseCancel(c) \/ CloseWait(c)
    \/ CloseFinishLock(c) \/ CloseFinishClose(c)

Capturing(k) ==
    \/ CaptureBegin(k) \/ CaptureAxisBegin(k)
    \/ CaptureTake(k) \/ CaptureGiveUp(k) \/ CaptureClosed(k)
    \/ CaptureLeave(k)

Receiving == ReceiveButton \/ ReceiveAxis \/ ReceiveError

\* The part of run between the start of the goroutine and its return.
BackendRuns ==
    \/ BackendReady \/ BackendInitFails \/ BackendStops \/ BackendDies
    \/ BackendSetDevices \/ BackendReport \/ BackendReleased \/ Send
    \/ \E d \in Devices :
        BackendDetach(d) \/ \E held \in SUBSET Buttons : BackendAttach(d, held)
    \/ \E b \in Buttons : BackendButton(b) \/ BackendReleaseButton(b)
    \/ \E a \in Axes, v \in Position : BackendSyncAxis(a, v) \/ BackendAxis(a, v)

BackendEnds ==
    BackendReturned \/ BackendFinishLock \/ BackendFinishClose \/ BackendExits

Next ==
    \/ \E s \in Starters : Starting(s) \/ CancelCtx(s)
    \/ \E c \in Closers : Closing(c)
    \/ \E k \in Capturers : Capturing(k)
    \/ EnableAxisEvents \/ Receiving
    \/ BackendRuns \/ BackendEnds

Spec == Init /\ [][Next]_vars

\* A goroutine that can go on eventually does.  Initialisation ends one way or
\* the other.  Go's select picks at random among the ready cases, so a loop
\* that keeps finding its context done eventually takes that case: strong
\* fairness.  Nothing is assumed of the readers of the streams, of contexts,
\* or of the users who press buttons.
Fairness ==
    /\ \A s \in Starters :
        /\ WF_vars(StartSpawn(s)) /\ WF_vars(StartReady(s))
        /\ WF_vars(StartGivesUp(s)) /\ WF_vars(StartWait(s))
    /\ \A c \in Closers :
        /\ WF_vars(CloseCancel(c)) /\ WF_vars(CloseWait(c))
        /\ WF_vars(CloseFinishLock(c)) /\ WF_vars(CloseFinishClose(c))
    /\ \A k \in Capturers : WF_vars(CaptureClosed(k)) /\ WF_vars(CaptureLeave(k))
    /\ WF_vars(BackendReady \/ BackendInitFails)
    /\ SF_vars(BackendStops)
    /\ WF_vars(Send) /\ WF_vars(BackendReleased) /\ WF_vars(BackendEnds)
    /\ \A b \in Buttons : WF_vars(BackendReleaseButton(b))

FairSpec == Spec /\ Fairness

=============================================================================
