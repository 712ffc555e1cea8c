# Formal models of tracklogic-peripherals

This directory holds TLA+ models of the library in `src/`, the TLC runs that
check them on small instances, and TLAPS proofs of the theorems that hold for
every instance. File names without a directory below are
`pkg/controller/manager.go`, `pkg/controller/types.go`,
`pkg/controller/directinput_windows.go`, `pkg/hpr/driver/simagic/driver.go` and
`.../protocol.go`, `pkg/hpr/manager.go`, `pkg/hpr/types.go` and
`internal/hidtransport/windows.go`.

## The system

The library has two halves that share nothing but the repository.

**`pkg/controller`: input from any DirectInput game controller.**

| part | state | operations | talks to |
|---|---|---|---|
| `Manager` (manager.go) | `started`, `closed`, the devices and last axis values, one registered capture of either kind, three bounded channels, `done`, a WaitGroup, a `sync.Once` | `Start`, `Close`, `Capture`, `CaptureAxis`, `AxisEvents`, the readers of the channels; the sink calls `setDevices`, `syncAxis`, `emitButton`, `emitAxis`, `report`; `finish` | callers' goroutines on one side, the backend goroutine on the other |
| backend loop (`run`, `syncDevices`, directinput_windows.go) | the map of devices, the DirectInput object, two tickers | initialise, poll every 5 ms, rescan every 2 s, release everything | calls the sink; ends on the run context or on the loss of the caller's window |
| data format (`initializeDevice`, `poll`) | the sorted instances of each device | lay the controls out, find the control of a record again | the records DirectInput fills in |
| `runtimeDevice` | DirectInput handle, known button states and raw axis values | open and settle, poll, reacquire and reconcile, release | DirectInput, which changes by itself between any two calls |
| cooperative window | an HWND, its own or the caller's | create, validate, destroy | the backend loop |
| axis arithmetic (types.go) | none | `normalizedAxisTravel`, the capture condition | `emitAxis` |

**`pkg/hpr`: haptic pedals.**

| part | state | operations | talks to |
|---|---|---|---|
| `hpr.Manager` | the ordered drivers | `Scan`, the `Open` closures of its results | the HID scanner and the drivers |
| Simagic driver | per handle: `closed`, `last` command per pedal, `flushed`, a mutex | `Match`, `Describe`, `Open`, `Vibrate`, `Stop`, `Pulse`, `ReadPedal`, `ReadRawInput`, `Close` | one transport per handle; the pedals' motors are shared by all handles |
| HID transport | a file handle and a mutex | `Open`, `Close`, `SetFeature`, `Read`, `FlushQueue` | Windows |
| HID scanner | the handles of the collection it is at | `Scan` | Windows, any of whose calls may fail for one collection |

What is hard here: `Start`, `Close`, the captures and the backend interleave
around one mutex that is given up between steps that belong together; channels
are closed while another goroutine may send; input is lost and devices come and
go between two DirectInput calls; every call of the backend and of the scanner
can fail with objects of earlier calls alive; a handle remembers what it last sent to a
device others can command as well. The list with its lines is under `hazards`
in `PROJECT.json`.

What makes each part correct:

- *Manager*: no panic on a closed channel; one backend at most; nothing left
  running after a failed `Start` or the closing `Close`; everyone blocked in a
  call returns; the answer of a capture is the right one and given to the right
  caller; the edges a reader sees end in the state the backend holds.
- *backend loop*: whichever return path `run` takes, everything is given back and
  everyone told; a device that cannot be opened stands in nobody's way; a control
  has the same number whatever order DirectInput lists the objects in, and its
  records find it; the sink calls are those the Manager counts on.
- *runtimeDevice*: what the sink was told can still be taken back; after an
  input loss its view agrees with the device again; positions are measured
  before they are trusted; input recovers.
- *Simagic driver*: a command that is left out was unnecessary; `Close` and a
  failed `Open` have tried to stop every pedal; no transport leaks; positions are those of the pedal asked
  for, and not older than the first read.
- *hpr.Manager and scanner*: every supported device is found and claimed by the
  first driver that matches; the scanner keeps no handle, whatever failed.

## Modules

| module | models | run as |
|---|---|---|
| `AxisTravel` | travel and the capture condition, exact, over integers 0 .. `AxisMax` | part of `Manager` |
| `AxisTravel_proofs` | what the capture condition guarantees for any resolution and threshold | |
| `Manager` | manager.go, and `run` as the order of its phases and sink calls | |
| `CaptureService` | abstract: what the two captures promise together | refined by `Manager` |
| `ManagerProperties` | the properties and inductive invariants of `Manager`, and the refinement mapping `Service` | `MCManager` |
| `Manager_proofs` | proofs about `Manager` | |
| `InputFormat` | the object lists, the data format and its inversion for a record | part of `DirectInputRun` |
| `InputFormat_proofs` | what `sortInts`, `uniqueInts` and the cut of the lists compute, by induction | |
| `BackendContract` | abstract: what the Manager relies on when it runs a backend | refined by `DirectInputRun` |
| `DirectInputRun` | `run`, the cooperative window, `syncDevices`, `initializeDevice` and `releaseAll` for several devices, with every return path | `MCDirectInputRun` |
| `DirectInputRun_proofs` | proofs about `DirectInputRun` and the offsets of `InputFormat` | |
| `RuntimeDevice` | the inside of one open device: the settling of `initializeDevice`, `poll`, `acquireAndReconcile`, `reconcile`, `drainDeviceData`, `release` | itself |
| `RuntimeDevice_proofs` | proofs about `RuntimeDevice` | |
| `SimagicDevice` | driver.go: opening, commands, pulses, closing; the mutex a read holds | `MCSimagicDevice` |
| `SimagicDevice_proofs` | proofs about `SimagicDevice` | |
| `PedalInput` | driver.go and protocol.go: reading positions through the report queue | itself |
| `PedalInput_proofs` | proofs about `PedalInput` | |
| `HprScan` | the HID scanner call by call, `matchModel` and `Manager.Scan` | `MCHprScan` |
| `HprScan_proofs` | proofs about `HprScan` | |

Definitions keep the names of the code where they can. A definition whose
comment begins with *Slip* is a plausible mistake in the definition after it; it
is no part of the specification and serves to show that a property would notice.

**How the modules meet.** `Manager` takes its backend as the sequence of sink calls
it sees: devices attached and detached, lists, edges, one answer on `ready`, the
releases and the return. `BackendContract` states these as a specification of its
own, and `DirectInputRun` is shown to implement it. The contract separates the
empty list of `Unlist` from `Return`; `Manager` takes both in `BackendReleased`,
since no property tells them apart. `RuntimeDevice` is the inside of one entry of
`DirectInputRun`, where an open device is reduced to button records that find
their control.

**How actions relate to code.** In `Manager` an action is one critical section
of `Manager.mu`, one channel operation or one wait; the state between two of
them is what another goroutine can see. So `Start` is `StartBegin` (up to the
unlock at manager.go:125), `StartSpawn` (`wg.Add` and `go`), then the branches
of its select; `Close` is `CloseBegin`, `CloseCancel`, `CloseWait` or, without a
backend, the two halves of `finish`; `emitButton` is `EmitButton` up to its
unlock and `Send` after it, with the event in `pending` in between. The
one-place result channel of a capture request is `result`; its caller's select
may take the answer, its own context or `done`, whichever is ready. A `sync.Once` entered
by one goroutine is `finishOnce`. In `RuntimeDevice` an action is one DirectInput
call with what the code does with its answer; the device moves between any two.
In `DirectInputRun` it is one call that can fail, or the work up to the next one,
and `rpc` names the call that is next; devices are plugged in and out, the caller's
window goes and the context ends between any two. In `SimagicDevice` an action is
one `SetFeature` call under the handle's mutex (`phase` says which call holds it
for longer). In `HprScan` it is one Windows call of the scanner that can fail, then
one iteration of the loop in `Manager.Scan`.

History variables, marked as such, record what properties compare with: the
reader's `view`, the first press since a capture registered, the positions at its
start, what the sink was `told`, how much of the device's buffer was there when its
state was read (`seen`), which controls' latest change was thrown away or had no room
(`missed`), whether a driver was silent through all the settling rounds (`late`), and
which pedals last obeyed a `SetFeature` that reported a failure (`unsure`).

## Runs

Every property has a mutant in `PROJECT.json`: a slip of the code under which
TLC finds the property violated in the same run.

| run | instance | shows |
|---|---|---|
| `lifecycle` | 2 starters, 2 closers, one device without controls, stream and error buffers of 1 | `NoPanic`, `StartsOnce`, `StartErrorReleases`, `FirstCloseReleases`, and under fairness `CloseReturns`, `StartReturns`, `BackendEndClosesStreams` |
| `capture` | 2 callers (symmetric), 1 closer, 1 button, stream of 1 | `TypeOK`, `NoStrandedCapture`, `OneCaptureWaits`, `CaptureFindsFirstPress`, `NoStuckPress`, and the refinement `ServesCaptures` |
| `axis` | 1 caller, 1 axis with positions 0 .. 2, `AxisEvents` requested | `AxisBaselineIsStart`, `CancelEndsCaptures` |
| `close_race` | 1 starter, 1 closer | `CloseReleases` fails |
| `backend` | 2 devices, one of which lists 4 axes and 4 buttons in two orders and one of which is without controls and may refuse to open; `MaxButtons` 3, `MaxAxes` 2, offsets modulo 16 | `NothingOutlivesRun`, `ObjectsNest`, `LayoutIsTheDevice`, `RecordsFindTheirControl`, the refinement `KeepsContract`, `GoodDevicesOpen`, `RunEnds` |
| `device` | 1 button, 1 axis, a device buffer of 3 read one record at a time | `PressesAreHeld`, `CatchesUpUnlessMissed`, `SettledTellsReal`, `InputRecovers`, `UnpluggingReleases` |
| `device_recovery` | 1 button, a device buffer of 3 | `StateCatchesUp` fails |
| `device_centre` | 1 axis | `NoFalseAxisEvent` fails |
| `haptic` | 1 handle, 3 pedals, 2 goroutines that call `Pulse` | `StopIsEffective`, `StopAllReaches`, `TransportOwned`, `PulsesEnd`, `CloseEndsInSilence` |
| `haptic_two_handles` | 2 handles, 2 pedals | `StopIsEffective` fails |
| `pedal` | positions 0 and 6 in bytes of 4 values, reports of 6 and 7 bytes, a queue of 2, 3 reports | `AnswersItsPedal`, `NoAnswerFromBefore` |
| `scan` | 2 drivers; one collection of any kind with any fault, two of any kind, or three of two kinds with any faults | `FirstMatchWins`, `NothingMissed`, `HandlesReturned`, `ModelFitsName` |

**Why the bounds are enough.** The mutual exclusions are between two calls of a
kind, so two goroutines show a failure if any number does; a third would only
repeat one of them (and the theorems below cover every number). Buffers of one
and two are full, empty and in between, which are the cases the code tells
apart; the real 256, 16 and 256 differ only in how long that takes. Positions
0 .. 2 with a threshold of one half put a baseline at either end or in the
middle and let a movement be too small, enough, or away from an endpoint. The
device buffer overflows after four changes. Three reports overflow a queue of
two. A device of the backend that opens next to one that need not is enough for each to
stand in the other's way; with `MaxButtons` 3 and `MaxAxes` 2 the enumerations
hold an instance too high, an axis too many and duplicates, and offsets modulo 16
wrap around inside an axis. Three collections put a faulty one before, between and
after others. Two `Pulsers` are enough for two overlapping Pulses, on one pedal or on
two; a goroutine is in one `Pulse` at a time. `AxisMax`, `MaxReports`, `Base`,
`DeviceBuffer`, `MaxButtons`, `MaxAxes`, `MaxAmplitude`, `Word`, the buffer sizes and
the sets of goroutines, devices, controls, handles and pedals are the bounds; nothing
else in the models is capped.

**Deadlock.** All runs set `CHECK_DEADLOCK FALSE`: these systems do come to rest,
once closed, once every goroutine has returned, once `run` or `Scan` has
returned, or, in `pedal`, when `MaxReports` reports are made and
the reader waits. That they rest only where they may is what the liveness
properties say.

**Fairness.** *Manager*: a goroutine that can take its next step eventually does
(weak fairness of every internal step of `Start`, `Close`, the end of a capture and the
backend's end), initialisation ends one way or the other, and the backend's
select, which picks at random among ready cases, eventually picks its context
(strong fairness of `BackendStops`). Readers of the streams, callers' contexts and
users' presses get none. *RuntimeDevice*: the thread's calls return, the poll and
rescan ticks keep coming (strong for the rescan that finds a device gone, since
polls compete with it), and acquiring succeeds eventually if it is possible
again and again. Nothing is assumed of losses and replugging, nor of when a driver
publishes its first frame, if ever. *DirectInputRun*: every call of the thread returns and the rescan
ticks keep coming (`WF(Working)`); the select takes its context in the end although
ticks compete (`SF(Stops)`); enumerating, and creating and configuring a device
outside `Faulty`, succeed in the end if they are tried again and again. A faulty
device may refuse for ever, and nothing is assumed of plugging. *SimagicDevice*: calls return, a sleep ends, the device keeps
sending reports, the watchdog of a motor left alone stops it, and a `Pulse` that waits for the
mutex gets it although reads compete: Go's mutex hands itself over to a waiter
that has waited too long.

### What the failing runs show

- `close_race`: `Start` unlocks with `started` set and calls `wg.Add` only
  afterwards (manager.go:125-128). A `Close` in that gap waits for a counter of
  zero and returns; the backend is spawned after it and opens window and devices
  before it sees its cancelled context. Nothing panics and everything is released
  in the end, but not before `Close` has returned.
- `device_recovery`: `acquireAndReconcile` throws away the buffered records after
  it has read the state, those of changes made in between included, so that a
  control can keep a wrong value for as long as it does not change.
  `CatchesUpUnlessMissed` says that this, and the replay of old records of a control
  whose latest one found the buffer full, are the only ways to be wrong. Which
  controls are excepted is read off the records that are thrown away or have no room,
  not off the state the backend ends up with, so a `reconcile` that forgot a
  control would be noticed.
- `device_centre`: the settling rounds are skipped when the first acquisition
  fails, and then the default centre position can come out as an axis event.
  Settling itself only sleeps 5 ms and polls, twice, and goes on whether or not
  the driver has published by then (directinput_windows.go:296-300): `SettledTellsReal`
  says that no default position is left after the rounds if it published before the
  last sleep ended, and nothing of a driver that is slower (`late`).
- `haptic_two_handles`: the second handle's command does not clear what the first one
  remembers, so a `Stop` on the first is not sent. Within one handle it is
  also wrong after an On that reached the device although `SetFeature` failed
  (`AmbiguousErrors`); `StopEffective` below states when it is right, and
  `StopMissesExplained` that there is no third way to be wrong.

Divergences between text and code that need no model: `Scan` returns an empty
slice and a nil error where types.go:11 promises `ErrNoDevices`; `matchModel`
accepts 0x0483/0x0525 without any model name (protocol.go:65) where its comment
at 45 asks for `P1000`; `ReadPedal` answers with the oldest queued report where
types.go:131 says current; a `Close` that overlaps another one returns at once
while the backend is still running (manager.go:270).

## Proofs

All proofs are checked by TLAPS with its SMT, Zenon and LS4 backends. They hold
for any finite or infinite sets of goroutines, devices, axes and handles (the
controls of one `RuntimeDevice` are finite), any drivers and collections, and any
buffer, queue and format sizes, under the assumptions named in the modules:
`AxisAssumption`, `ManagerAssumption`, `NoneAssumption`, `DeviceAssumption`,
`FormatAssumption`, `RunAssumption`, `ObjectsAssumption`, `HapticAssumption`,
`PedalAssumption` and `ScanAssumption`, which say that sizes are positive, that what
is read fits the buffer and the format fits `Word`, that controls belong to devices,
and that the absent value is none of the present ones. `ObjectsAssumption` says that
two enumerations of one device differ in order and repetitions only: an open device
is compared with every enumeration it could have had, not with the one it was
opened by. Only `LayoutCorrect` needs it.

**Manager_proofs.** `TypeCorrect` is type correctness. `LifecycleCorrect`
proves `LifecycleInv`, a strengthening needed because none of the lifecycle
properties is inductive: that no two goroutines run `finish` depends on who may
reach it, so the invariant says that one `Start` owns the backend and the
WaitGroup counts it (`OwnerInv`), that `finish` belongs to the backend after its
last send or to a `Close` that came before every `Start` (`FinishInv`), and that
everything is given back before `finish` (`ReleaseInv`). `NoPanicEver`,
`OneStart`, `FailedStartReleases` and `CloseWaits` follow. `CapturesCorrect`
proves `CaptureInv` relative to it: a registered request belongs to a caller that has
not returned and has no answer (`SlotInv`), from which `NobodyStranded`,
`OneWaits`, `FirstPressFound` and `BaselineIsStart` follow. `CapturesAreServed`
is the refinement: `Manager` implements `CaptureService` with the two slots
mapped to one and the callers' positions to the four states of a call; every step
maps to a step or a stutter, using `CaptureInv`. `NeverStuck` relates what the
reader of Events has seen to the whole stream: the invariant is inductive with the
types, since sending an edge decides what is believed of its button and of no other
(`AppendDecides`), and receiving one decides nothing (`TailDecides`). `PressesAlternate` builds on
it: a press is only emitted of a button that is not held, hence not believed
pressed, hence follows a release; until a loss is reported the reader never gets a press
of a button after another press of it. `CloseCancelsWhatItMisses` says how far the
counterexample of `close_race` goes: a `Close` that has returned has cancelled the run
context or came before every `Start` (`DoomInv`), so a backend that outlives it was
spawned after it looked and finds its context done.

**AxisTravel_proofs.** `TravelIsAFraction` (no direction and no baseline make travel
leave zero to one, or divide by zero), `RestNeverCaptures`, `CaptureIsMonotone` (a
movement further in the direction captured never falls below the threshold again),
`EndpointCaptures` and `EveryAxisCanBeBound` (one end of an axis can be captured
from anywhere), in exact arithmetic for any `AxisMax` and any threshold.

**SimagicDevice_proofs.** `TypeCorrect` and `TransportsOwned` for any number of
handles and ambiguous errors; `StopEffective` and `StoppedIsQuiet`, with its corollary
`ClosedIsQuiet`, for one handle, the first when a failed `SetFeature` means that
nothing was sent. The inductive invariants add to the properties which pedals an
unfinished all-stop has reached.
For any number of handles, ambiguous errors included, `HandlesInv` accounts for every
vibration: a handle that is not open remembers none (`YetToVibrate`), a motor that runs
against the remembered Off of one handle does what another remembers, or obeys a
`SetFeature` that reported a failure (`OthersCommand`), and an all-stop has sent, has
ahead, or has failed to send an Off for every pedal (`OffsSent`). So what a suppressed
`Stop`, a finished `Close` or a failed `Open` leaves vibrating, on a pedal whose own
Off succeeded, comes from one of the two (`StopMissesExplained`,
`StoppedLeavesExplained`): the counterexample of `haptic_two_handles` and the
ambiguous error are all there is.

**RuntimeDevice_proofs.** `TypeCorrect`, `PressesHeld`, `SettledIsReal` and
`CatchesUp`. The inductive `DeviceInv` is the conjunction of what the thread may take
for granted at each call (`ThreadInv`: only an open, plugged device is acquired,
and a loss takes its buffer with it), what the sink was told (`PressInv`), what was
measured (`SettleInv`: past a settling round that was not `late` the driver has
published), what the buffer is good for (`ReplayInv`: reading it to its end gives every
control that is not `missed` the value it has) and what draining it may lose
(`DrainInv`: a control whose value the state did not have yet has a record behind the
ones that were there when the state was read). The last two are the hard
ones: they have to survive every move of the device, a full buffer and a partial read.

**DirectInputRun_proofs.** `Nests` and `ReturnsClean` come from `RunInv`: where in
the life of `run` the window and DirectInput exist (`WindowInv`), when Start has its
answer (`AnswerInv`), and that an entry has the one object that it, or the
attempt to initialise it, can release (`EntriesInv`). `RecordsFind` rests on three lemmas of
arithmetic about `OffsetOf` and `Decode`: the offset of a control leads back to it,
only such an offset leads anywhere, and one inside an axis wraps around past the
buttons. `ContractKept` is the refinement: every step of the backend is one of the
contract or a stutter. That no device is taken out before the answer, which the
contract demands, needs that the entries of the first enumeration are all in it
(`FirstSync`). `TypeCorrect` includes that the buttons of every layout are below
`MaxButtons`, which is `ButtonListIs` for each enumeration.

`LayoutCorrect` carries to every state that the lists of an open device are those of
one of its enumerations (`LayoutsInv`) and concludes with `InputFormat_proofs` that
they are those of the device, whatever the order of the enumeration.

**InputFormat_proofs.** The loops over a list are recursive functions over its
indices, so their results need inductions. No induction theorem of the library can be
used, since its hypothesis is an operator; `IntervalInduction` says the same of a set
of numbers, `1 .. n` in each use, and follows from the naturals being well-founded. With
it `SortIntsSorts` (in order, nothing lost or added), `UniqueIntsOfOrdered`,
`ButtonsOfNames`, `ButtonsOfAscending` and from them `ButtonListIs` and `AxesAre`, for
lists of any length. `enumButtons` and `initializeDevice` both leave out the instances
that cannot be named, and in between the list is cut at `MaxButtons`. That the cut
loses none is a counting argument: the first `MaxButtons` of an ascending list of
naturals reach at least that far.

**PedalInput_proofs.** `ReadInv` says that once a handle has flushed neither the queue
nor the last answer is from before the flush, and that every whole report is the
encoding of its pedals; `NeverFromBefore` and `AlwaysItsPedal` follow. The queue is
the HID class driver's: that it hands out the oldest report first is assumed, and no
property is stated of it.

**HprScan_proofs.** `EverythingReturned` from the handles at each call,
`FirstMatchAlwaysWins` and `ModelAlwaysFitsName` from what each entry was claimed as.
`NothingEverMissed` needs the most: `ListInv` says at each call that what was
already looked at, `raw` and `out` together, holds every collection passed that could be read,
in order and as it was reported, and that the rest lies ahead. Who is not claimed is
matched by no driver (`UnclaimedIsUnmatched`), as of the drivers that match there is a
first.

**Only model-checked.** Liveness: fairness and ENABLED are beyond the prover. Every
safety and action property of the passing runs has a theorem.

## Not modelled, and why

- COM vtables, callbacks, structure layouts, the HID descriptor parser
  (`PreparsedData`, `ValueCaps`, `GetUsages`): an ABI and one-shot calls without control
  of their own. The same goes for the transport operations nothing in the library
  calls.
- Which of the checks of a window refuses it: `WindowFails` is all of them.
- An enumeration by SetupDi that fails in the middle: the code takes it for the end, and so
  does `EnumEnds` with a shorter system.
- Several devices inside `RuntimeDevice`: the loop treats them one after the other and
  they share nothing but the sink; `DirectInputRun` has several.
- The bytes of a feature report, frequencies, substring search, UTF-16 decoding, float64
  rounding, names and timestamps: data no property tells apart. `AxisTravel` says
  what the exact arithmetic does.
- The `Open` closures of `ScannedDevice`: each calls its own driver with its own
  `DeviceInfo`, which nothing changes after the scan; what the call does is `Open` of
  `SimagicDevice`.
- How old an answer of `ReadPedal` may be, and reads of a device that has gone silent:
  neither the code nor a document bounds them (hazards without a property).
- The read-only `Devices` and `String`; checks of arguments no caller can fail.
- The example programs.

## Plan

Done so far: the Manager with its captures, one device, the backend as a whole, the
haptic driver, reading pedals and the scan, with the proofs above. What is left:

1. The Manager's backend and `BackendContract` compared in the other direction: that
   every step the contract allows is one the Manager is prepared for.
2. Several handles of different processes on one pedal set, with the HID class driver's
   queue of each.
