--------------------------- MODULE DirectInputRun ---------------------------
(***************************************************************************)
(* The DirectInput backend as a whole: directInputBackend.run with its     *)
(* cooperative window, the DirectInput object and the map of devices       *)
(* (pkg/controller/directinput_windows.go).                                *)
(*                                                                         *)
(* run is one thread.  An action is one call that can fail, or the work    *)
(* up to the next one; between two of them devices are plugged in and      *)
(* pulled out, the caller's window goes away and the run context ends.     *)
(* What happens inside an open device is the subject of RuntimeDevice;     *)
(* here it is a button record that finds its control.                      *)
(***************************************************************************)
EXTENDS InputFormat, FiniteSets

CONSTANTS
    Devices,       \* device instances DirectInput may list
    Faulty,        \* those that may refuse to be opened every time
    Enumerations,  \* the ways in which each one may list its objects
    None

ASSUME RunAssumption ==
    /\ Faulty \subseteq Devices
    /\ Enumerations \in [Devices -> SUBSET Enumeration]
    /\ None \notin Devices

\* The order of a listing and its repetitions are DirectInput's, the objects
\* themselves are the device's.
ASSUME ObjectsAssumption ==
    \A d \in Devices : \A e, f \in Enumerations[d] :
        ToSet(e.axes) = ToSet(f.axes) /\ ToSet(e.buttons) = ToSet(f.buttons)

VARIABLES
    \* around the thread
    present,       \* the devices that are plugged in
    callerWindow,  \* WithWindow: "none" was given, "valid", or "gone" since
    cancelled,     \* the run context is done
    \* the thread
    rpc,           \* the next call it makes
    window,        \* the cooperative window: whose it is, or "destroyed"
    directInput,   \* "none", "up" or "released"
    seen, todo,    \* syncDevices: the devices listed, those not yet handled
    opening,       \* the device initializeDevice works on, or None
    entry,         \* devices map: "absent", "known", "open", or "empty" without controls
    objects,       \* DirectInput device objects alive, for each device
    layout,        \* buttons and axes of each entry
    held,          \* buttonState of each entry
    \* what others see of it
    listed,        \* the devices of the last setDevices
    ready,         \* what was sent on ready
    lost           \* run returns ErrWindowUnavailable

surroundings == <<present, callerWindow, cancelled>>
resources    == <<window, directInput, objects>>
devices      == <<entry, layout, held>>
sync         == <<seen, todo, opening>>
outside      == <<listed, ready, lost>>
vars         == <<surroundings, rpc, resources, devices, sync, outside>>

Entries == {d \in Devices : entry[d] # "absent"}

Init ==
    /\ present \in SUBSET Devices /\ callerWindow \in {"none", "valid", "gone"}
    /\ cancelled = FALSE
    /\ rpc = "window" /\ window = "none" /\ directInput = "none"
    /\ seen = {} /\ todo = {} /\ opening = None
    /\ entry = [d \in Devices |-> "absent"]
    /\ objects = [d \in Devices |-> 0]
    /\ layout = [d \in Devices |-> NoLayout]
    /\ held = [d \in Devices |-> {}]
    /\ listed = {} /\ ready = "none" /\ lost = FALSE

Goes(from, to) == rpc = from /\ rpc' = to /\ UNCHANGED surroundings

-----------------------------------------------------------------------------
(* Before the first syncDevices *)

\* cooperativeWindow: the caller's window, or one of its own.
WindowFound ==
    /\ Goes("window", "directInput")
    /\ callerWindow # "gone"
    /\ window' = IF callerWindow = "valid" THEN "caller" ELSE "own"
    /\ UNCHANGED <<directInput, objects, devices, sync, outside>>

\* The caller's is not valid, or no valid one of its own can be made; one that
\* was made is destroyed again, and nothing is left to do but to return.
WindowFails ==
    /\ Goes("window", "destroyWindow")
    /\ callerWindow # "valid"
    /\ ready' = "err"
    /\ UNCHANGED <<resources, devices, sync, listed, lost>>

CreateDirectInput ==
    /\ Goes("directInput", "enumerate")
    /\ directInput' = "up"
    /\ UNCHANGED <<window, objects, devices, sync, outside>>

\* Slip: the function returns before the destruction of the window is deferred.
CreateDirectInputFailsEarly ==
    /\ Goes("directInput", "returned")
    /\ ready' = "err"
    /\ UNCHANGED <<resources, devices, sync, listed, lost>>

CreateDirectInputFails ==
    /\ Goes("directInput", "destroyWindow")
    /\ ready' = "err"
    /\ UNCHANGED <<resources, devices, sync, listed, lost>>

-----------------------------------------------------------------------------
(* syncDevices *)

EnumDevices ==
    /\ Goes("enumerate", "open")
    /\ seen' = present /\ todo' = present
    /\ UNCHANGED <<opening, resources, devices, outside>>

\* Slip: a failure during a rescan ends the backend like one at the start.
EnumDevicesFailsTwice ==
    /\ Goes("enumerate", "release")
    /\ ready' = "err"
    /\ UNCHANGED <<resources, devices, sync, listed, lost>>

\* Fatal at the start, reported and forgotten later.
EnumDevicesFails ==
    /\ Goes("enumerate", IF ready = "none" THEN "release" ELSE "loop")
    /\ ready' = IF ready = "none" THEN "err" ELSE ready
    /\ UNCHANGED <<resources, devices, sync, listed, lost>>

Handle(d) ==
    /\ d \in todo /\ todo' = todo \ {d}
    /\ UNCHANGED <<seen, outside, window, directInput, layout, held>>

\* A device that was initialised before keeps what it has.
SyncInitialised(d) ==
    /\ Goes("open", "open") /\ Handle(d)
    /\ entry[d] \in {"open", "empty"}
    /\ UNCHANGED <<opening, objects, entry>>

\* Slip: a device in the map is not tried again.
CreateDeviceOnce(d) ==
    /\ Goes("open", "configure") /\ Handle(d)
    /\ entry[d] = "absent"
    /\ entry' = [entry EXCEPT ![d] = "known"]
    /\ objects' = [objects EXCEPT ![d] = @ + 1]
    /\ opening' = d

\* initializeDevice, for a new device and for one that could not be opened yet.
CreateDevice(d) ==
    /\ Goes("open", "configure") /\ Handle(d)
    /\ entry[d] \notin {"open", "empty"}
    /\ entry' = [entry EXCEPT ![d] = "known"]
    /\ objects' = [objects EXCEPT ![d] = @ + 1]
    /\ opening' = d

\* The error is reported; the other devices and the next rescan are unaffected.
CreateDeviceFails(d) ==
    /\ Goes("open", "open") /\ Handle(d)
    /\ entry[d] \notin {"open", "empty"}
    /\ entry' = [entry EXCEPT ![d] = "known"]
    /\ UNCHANGED <<opening, objects>>

Opened == opening' = None /\ UNCHANGED <<seen, todo, window, directInput, outside>>

WindowUsable == window = "own" \/ callerWindow = "valid"

\* The lists a device may come out with.
Layouts == [d \in Devices |-> {LayoutOf(e) : e \in Enumerations[d]}]

\* initializeDevice: object lists, data format, ranges, buffer, cooperative
\* level.  Buttons that are down already are noted without an event.
Configure(d) ==
    /\ Goes("configure", "open") /\ Opened
    /\ d = opening /\ WindowUsable
    /\ \E l \in Layouts[d] :
        /\ DataSize(l) > 0
        /\ layout' = [layout EXCEPT ![d] = l]
        /\ \E down \in SUBSET ToSet(l.buttons) : held' = [held EXCEPT ![d] = down]
    /\ entry' = [entry EXCEPT ![d] = "open"]
    /\ UNCHANGED objects

\* A device without controls is initialised and let go of.
ConfigureEmpty(d) ==
    /\ Goes("configure", "open") /\ Opened
    /\ d = opening
    /\ \E l \in Layouts[d] : DataSize(l) = 0
    /\ entry' = [entry EXCEPT ![d] = "empty"]
    /\ objects' = [objects EXCEPT ![d] = @ - 1]
    /\ UNCHANGED <<layout, held>>

\* Slip: an error path without device.release.
ConfigureFailsKept(d) ==
    /\ Goes("configure", "open") /\ Opened
    /\ d = opening
    /\ UNCHANGED <<objects, devices>>

\* Any of the calls fails.  Lists that were filled already are filled anew by
\* the next attempt.
ConfigureFails(d) ==
    /\ Goes("configure", "open") /\ Opened
    /\ d = opening
    /\ objects' = [objects EXCEPT ![d] = @ - 1]
    /\ UNCHANGED devices

\* The entries to be taken out: those not listed, and all of them in the end.
Leaving(d) ==
    /\ d \in Entries
    /\ \/ rpc = "open" /\ todo = {} /\ d \notin seen
       \/ rpc = "release"

ReleaseStays == UNCHANGED <<surroundings, rpc, sync, window, directInput, outside>>

\* runtimeDevice.release, first half: an event for every button held.
ReleaseButton(d, b) ==
    /\ Leaving(d) /\ b \in held[d]
    /\ held' = [held EXCEPT ![d] = @ \ {b}]
    /\ ReleaseStays /\ UNCHANGED <<objects, entry, layout>>

\* Second half, and the deletion of the entry.
ReleaseDevice(d) ==
    /\ Leaving(d) /\ held[d] = {}
    /\ entry' = [entry EXCEPT ![d] = "absent"]
    /\ objects' = [objects EXCEPT ![d] = IF entry[d] = "open" THEN @ - 1 ELSE @]
    /\ layout' = [layout EXCEPT ![d] = NoLayout]
    /\ ReleaseStays /\ UNCHANGED held

SetDevices ==
    /\ Goes("open", IF ready = "none" THEN "ready" ELSE "loop")
    /\ todo = {} /\ Entries \subseteq seen
    /\ listed' = Entries
    /\ UNCHANGED <<resources, devices, sync, ready, lost>>

-----------------------------------------------------------------------------
(* The loop *)

Ready ==
    /\ Goes("ready", "loop")
    /\ ready' = "ok"
    /\ UNCHANGED <<resources, devices, sync, listed, lost>>

\* A poll tick that finds a button changed: DirectInput puts the offset of the
\* control's place in the format into the record.
PollButton(d, b) ==
    /\ Goes("loop", "loop")
    /\ d \in present /\ entry[d] = "open" /\ b \in DOMAIN layout[d].buttons
    /\ LET found  == Decode(layout[d], OffsetOf(layout[d], [kind |-> "button", index |-> b]))
           button == layout[d].buttons[found.index]
       IN  /\ found.kind = "button"
           /\ held' = [held EXCEPT ![d] = IF button \in @ THEN @ \ {button} ELSE @ \cup {button}]
    /\ UNCHANGED <<resources, entry, layout, sync, outside>>

\* Slip: the caller's window is not validated again.
RescanAnyWindow ==
    /\ Goes("loop", "enumerate")
    /\ UNCHANGED <<resources, devices, sync, outside>>

\* A rescan tick.
Rescan ==
    /\ Goes("loop", "enumerate")
    /\ callerWindow # "gone"
    /\ UNCHANGED <<resources, devices, sync, outside>>

WindowLost ==
    /\ Goes("loop", "release")
    /\ callerWindow = "gone"
    /\ lost' = TRUE
    /\ UNCHANGED <<resources, devices, sync, listed, ready>>

Stops ==
    /\ Goes("loop", "release")
    /\ cancelled
    /\ UNCHANGED <<resources, devices, sync, outside>>

-----------------------------------------------------------------------------
(* The deferred calls, last to first; releaseAll is ReleaseButton and
   ReleaseDevice while rpc = "release" *)

Unlist ==
    /\ Goes("release", "releaseDirectInput")
    /\ Entries = {}
    /\ listed' = {}
    /\ UNCHANGED <<resources, devices, sync, ready, lost>>

ReleaseDirectInput ==
    /\ Goes("releaseDirectInput", "destroyWindow")
    /\ directInput' = "released"
    /\ UNCHANGED <<window, objects, devices, sync, outside>>

DestroyWindow ==
    /\ Goes("destroyWindow", "returned")
    /\ window' = IF window = "own" THEN "destroyed" ELSE window
    /\ UNCHANGED <<directInput, objects, devices, sync, outside>>

-----------------------------------------------------------------------------
(* Around the thread *)

Around == UNCHANGED <<rpc, resources, devices, sync, outside>>

Plug(d) ==
    /\ d \notin present /\ present' = present \cup {d}
    /\ Around /\ UNCHANGED <<callerWindow, cancelled>>

Unplug(d) ==
    /\ d \in present /\ present' = present \ {d}
    /\ Around /\ UNCHANGED <<callerWindow, cancelled>>

CallerWindowGoes ==
    /\ callerWindow = "valid" /\ callerWindow' = "gone"
    /\ Around /\ UNCHANGED <<present, cancelled>>

Cancel ==
    /\ ~ cancelled /\ cancelled' = TRUE
    /\ Around /\ UNCHANGED <<present, callerWindow>>

-----------------------------------------------------------------------------
Synchronising(d) ==
    \/ SyncInitialised(d) \/ CreateDevice(d) \/ CreateDeviceFails(d)
    \/ Configure(d) \/ ConfigureEmpty(d) \/ ConfigureFails(d)

Releasing(d) == (\E b \in held[d] : ReleaseButton(d, b)) \/ ReleaseDevice(d)

\* The steps of the thread that bring a run, a rescan or a shutdown forward.
Working ==
    \/ WindowFound \/ WindowFails \/ CreateDirectInput \/ CreateDirectInputFails
    \/ EnumDevices \/ EnumDevicesFails
    \/ \E d \in Devices : Synchronising(d) \/ Releasing(d)
    \/ SetDevices \/ Ready \/ Rescan \/ WindowLost
    \/ Unlist \/ ReleaseDirectInput \/ DestroyWindow

Polling == \E d \in Devices : \E b \in DOMAIN layout[d].buttons : PollButton(d, b)

Surroundings == (\E d \in Devices : Plug(d) \/ Unplug(d)) \/ CallerWindowGoes \/ Cancel

Next == Working \/ Polling \/ Stops \/ Surroundings

Spec == Init /\ [][Next]_vars

\* Every call returns and the rescan ticks keep coming; the select of the loop
\* takes its context in the end; enumerating, and opening a device that is not
\* faulty, succeed if they are tried again and again.
Fairness ==
    /\ WF_vars(Working) /\ SF_vars(Stops) /\ SF_vars(EnumDevices)
    /\ \A d \in Devices \ Faulty :
        /\ SF_vars(CreateDevice(d)) /\ SF_vars(Configure(d) \/ ConfigureEmpty(d))

FairSpec == Spec /\ Fairness

-----------------------------------------------------------------------------
(* Properties *)

Phases == {"window", "directInput", "enumerate", "open", "configure", "ready", "loop",
           "release", "releaseDirectInput", "destroyWindow", "returned"}

\* Every variable holds a value of its type.
TypeOK ==
    /\ present \subseteq Devices /\ callerWindow \in {"none", "valid", "gone"}
    /\ cancelled \in BOOLEAN /\ lost \in BOOLEAN
    /\ rpc \in Phases
    /\ window \in {"none", "caller", "own", "destroyed"}
    /\ directInput \in {"none", "up", "released"}
    /\ seen \subseteq Devices /\ todo \subseteq seen /\ opening \in Devices \cup {None}
    /\ entry \in [Devices -> {"absent", "known", "open", "empty"}]
    /\ objects \in [Devices -> Int]
    /\ layout \in [Devices -> Layout]
    /\ held \in [Devices -> SUBSET (0 .. MaxButtons - 1)]
    /\ listed \subseteq Devices /\ ready \in {"none", "ok", "err"}

\* Whichever of its return paths run takes, and whatever failed before, nothing
\* it made is left: no device object, no DirectInput, no window of its own; the
\* caller's window is left alone, Start has its answer, no button is left
\* pressed and no device listed.
NothingOutlivesRun ==
    rpc = "returned" =>
        /\ \A d \in Devices : objects[d] = 0 /\ held[d] = {}
        /\ directInput # "up" /\ window # "own"
        /\ callerWindow # "none" => window # "destroyed"
        /\ listed = {} /\ ready # "none"

\* Device objects live inside DirectInput and DirectInput inside the life of
\* the window, on the way up, through every failed initialisation and on the
\* way down; and a device has the one object its entry, or the attempt to
\* initialise it, can still release.
ObjectsNest ==
    /\ \A d \in Devices :
        /\ objects[d] = IF entry[d] = "open" \/ opening = d THEN 1 ELSE 0
        /\ objects[d] > 0 => directInput = "up"
    /\ directInput = "up" => window \in {"caller", "own"}

\* Whatever order and repetitions DirectInput enumerates the objects of a device
\* in, today or after it was plugged in again, its controls are the same: the
\* instances it has, in increasing order.
LayoutIsTheDevice ==
    \A d \in Devices : entry[d] = "open" => \A e \in Enumerations[d] :
        LET l == layout[d]
        IN  /\ ToSet(l.buttons) = {b \in ToSet(e.buttons) : b < MaxButtons}
            /\ ToSet(l.axes) \subseteq ToSet(e.axes)
            /\ Len(l.axes) = IF Cardinality(ToSet(e.axes)) < MaxAxes
                             THEN Cardinality(ToSet(e.axes)) ELSE MaxAxes
            /\ \A a \in ToSet(l.axes), x \in ToSet(e.axes) \ ToSet(l.axes) : a < x
            /\ \A s \in {l.axes, l.buttons} : \A i, j \in DOMAIN s : i < j => s[i] < s[j]

\* The records of every control of an open device find that control, and no
\* other offset finds any.
RecordsFindTheirControl ==
    \A d \in Devices : entry[d] = "open" =>
        \A offset \in 0 .. Word - 1 :
            LET owners == {c \in Controls(layout[d]) : OffsetOf(layout[d], c) = offset}
            IN  IF owners = {} THEN Decode(layout[d], offset) = NoControl
                ELSE owners = {Decode(layout[d], offset)}

\* What the Manager relies on.
InRelease == rpc \in {"release", "releaseDirectInput", "destroyWindow"}

Contract == INSTANCE BackendContract WITH
    Buttons <- 0 .. MaxButtons - 1,
    phase <- IF rpc = "returned" THEN "returned" ELSE IF InRelease THEN "release"
             ELSE IF ready = "ok" THEN "run" ELSE "init",
    answer <- ready,
    attached <- IF rpc = "returned" \/ InRelease THEN {}
                ELSE {d \in Devices : entry[d] \in {"open", "empty"}},
    held <- UNION {{d} \X held[d] : d \in Devices}

\* run keeps its contract with the Manager, in the order of its calls as in
\* their number, on every path.
KeepsContract == Contract!Spec

\* A device that cannot be opened stands in nobody's way: every other device
\* that stays plugged in is opened in the end, unless the backend ends.
GoodDevicesOpen ==
    \A d \in Devices \ Faulty :
        <>[](d \in present) =>
            <>[](entry[d] \in {"open", "empty"} \/ InRelease \/ rpc = "returned")

\* A cancelled context and a window that is gone both end in a return.
RunEnds == cancelled \/ callerWindow = "gone" ~> rpc = "returned"

=============================================================================
