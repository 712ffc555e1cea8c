--------------------------- MODULE RuntimeDevice ---------------------------
(***************************************************************************)
(* One game controller as the DirectInput backend drives it                *)
(* (pkg/controller/directinput_windows.go): runtimeDevice together with    *)
(* the syncDevices and poll calls that concern it.                         *)
(*                                                                         *)
(* The backend is one thread, but the device is not: between any two calls *)
(* into DirectInput the user moves a control, the driver publishes a       *)
(* frame, acquisition is lost or the cable is pulled.  So an action of the *)
(* thread is one DirectInput call and what the code does with its answer.  *)
(* Other devices only repeat this one; the sink is what was last told it.  *)
(***************************************************************************)
EXTENDS Integers, Sequences, FiniteSets

CONSTANTS
    Buttons, Axes,   \* the controls of this device
    AxisMax,         \* axisRawMaximum
    DeviceBuffer,    \* records DirectInput keeps between two reads
    Batch,           \* records one GetDeviceData call can return
    MayLoseInput,    \* whether acquisition may be lost while plugged in
    None             \* an axis whose position was never read (hasState)

ASSUME DeviceAssumption ==
    /\ AxisMax \in Nat \ {0}
    /\ Batch \in Nat \ {0} /\ DeviceBuffer \in Nat /\ DeviceBuffer >= Batch
    /\ MayLoseInput \in BOOLEAN
    /\ Buttons \cap Axes = {} /\ IsFiniteSet(Buttons) /\ IsFiniteSet(Axes)
    /\ None \notin Nat

VARIABLES
    \* the device and its driver
    plugged,
    published,   \* the driver has delivered its first real frame
    frame,       \* the state DirectInput would report
    acquired,
    buffer,      \* buffered changes not yet read
    overflowed,  \* a change found the buffer full since the last read
    \* the thread and its runtimeDevice
    dpc,         \* the DirectInput call it is about to make
    emit,        \* whether a reconciliation emits what changed
    round,       \* settling rounds initializeDevice has left
    open,        \* device is not nil
    state,       \* buttonState and axes[].raw, or None without hasState
    \* history
    told,        \* the value of each control the sink was last given
    toldReal,    \* axes whose told value is from a published frame
    settled,     \* initializeDevice went through all its settling rounds
    late,        \* the driver was still silent when its last sleep ended
    falseEvent,  \* an axis event was emitted before the first real frame
    seen,        \* records buffered when the state being drained was read
    missed       \* controls whose latest change was lost or thrown away unread

driver  == <<plugged, published, frame, acquired, buffer, overflowed>>
thread  == <<dpc, emit, round, open, state>>
history == <<told, toldReal, settled, late, falseEvent, seen, missed>>
vars    == <<driver, thread, history>>

Controls  == Buttons \cup Axes
Values(c) == IF c \in Axes THEN 0 .. AxisMax ELSE {0, 1}
Frames    == {f \in [Controls -> 0 .. AxisMax \cup {1}] : \A c \in Controls : f[c] \in Values(c)}

\* What DirectInput reports until the driver speaks: axes centred, buttons up.
DefaultFrame == [c \in Controls |-> IF c \in Axes THEN (AxisMax + 1) \div 2 ELSE 0]
Unread       == [c \in Controls |-> IF c \in Axes THEN None ELSE 0]

Change == [control : Controls, value : 0 .. AxisMax \cup {1}]

\* Settling rounds of initializeDevice after its first reconciliation.
\* Slip: none at all.
NoSettleRounds == 0
SettleRounds == 2

Init ==
    /\ plugged \in BOOLEAN
    /\ published = FALSE /\ frame = DefaultFrame /\ acquired = FALSE
    /\ buffer = << >> /\ overflowed = FALSE
    /\ dpc = "loop" /\ emit = FALSE /\ round = 0 /\ open = FALSE
    /\ state = Unread
    /\ told = Unread /\ toldReal = {} /\ settled = FALSE
    /\ late = FALSE /\ falseEvent = FALSE /\ seen = 0 /\ missed = {}

-----------------------------------------------------------------------------
(* The device: buffered while acquired, a change without room is lost *)

ControlsOf(records) == {records[i].control : i \in DOMAIN records}

AtMost(n, s) == IF Len(s) < n THEN Len(s) ELSE n

Buffered(changes) ==
    IF acquired
    THEN LET room == AtMost(DeviceBuffer - Len(buffer), changes)
             kept == SubSeq(changes, 1, room)
             lost == SubSeq(changes, room + 1, Len(changes))
         IN  /\ buffer' = buffer \o kept
             /\ overflowed' = (overflowed \/ lost # << >>)
             /\ missed' = (missed \ ControlsOf(kept)) \cup ControlsOf(lost)
    ELSE UNCHANGED <<buffer, overflowed, missed>>

\* What the device does to the history besides.
Untold == UNCHANGED <<told, toldReal, settled, late, falseEvent, seen>>

Move(c, v) ==
    /\ plugged /\ published /\ v # frame[c]
    /\ frame' = [frame EXCEPT ![c] = v]
    /\ Buffered(<<[control |-> c, value |-> v]>>)
    /\ UNCHANGED <<plugged, published, acquired, thread>> /\ Untold

\* The first real frame replaces the default one: a change of every control that
\* differs, in some order.
Publish(f) ==
    /\ plugged /\ ~ published
    /\ published' = TRUE
    /\ frame' = f
    /\ LET changed == {c \in Controls : f[c] # frame[c]}
       IN  \E order \in [1 .. Cardinality(changed) -> changed] :
            /\ \A c \in changed : \E i \in DOMAIN order : order[i] = c
            /\ Buffered([i \in DOMAIN order |-> [control |-> order[i], value |-> f[order[i]]]])
    /\ UNCHANGED <<plugged, acquired, thread>> /\ Untold

LoseInput ==
    /\ MayLoseInput /\ acquired
    /\ acquired' = FALSE /\ buffer' = << >> /\ overflowed' = FALSE
    /\ UNCHANGED <<plugged, published, frame, thread, history>>

Unplug ==
    /\ plugged
    /\ plugged' = FALSE /\ published' = FALSE /\ frame' = DefaultFrame
    /\ acquired' = FALSE /\ buffer' = << >> /\ overflowed' = FALSE
    /\ settled' = FALSE
    /\ UNCHANGED <<thread, told, toldReal, late, falseEvent, seen, missed>>

Plug ==
    /\ ~ plugged /\ plugged' = TRUE
    /\ UNCHANGED <<published, frame, acquired, buffer, overflowed, thread, history>>

-----------------------------------------------------------------------------
(* Giving values to the sink *)

\* emitButtonIfChanged and emitAxisIfChanged, for each control that changed: the
\* entry and the sink end up with the last of its values.
Emit(changed, value) ==
    /\ state' = [c \in Controls |-> IF c \in changed THEN value[c] ELSE state[c]]
    /\ told'  = [c \in Controls |-> IF c \in changed THEN value[c] ELSE told[c]]
    /\ toldReal' = IF published THEN toldReal \cup (changed \cap Axes)
                                ELSE toldReal \ changed
    /\ falseEvent' = (falseEvent \/ (~ published /\ changed \cap Axes # {}))

\* Slip: only the axes are compared.
EmitFrameAxes == Emit({c \in Axes : frame[c] # state[c]}, frame)

\* reconcile compares the frame with the entry, control by control.
EmitFrame == Emit({c \in Controls : frame[c] # state[c]}, frame)

RecordsOf(c, records) == {i \in DOMAIN records : records[i].control = c}

LastOf(c, records) ==
    records[CHOOSE i \in RecordsOf(c, records) :
                \A j \in RecordsOf(c, records) : j <= i].value

\* poll does so with one record after another.
EmitRecords(records) ==
    Emit({c \in Controls : \E i \in RecordsOf(c, records) : records[i].value # state[c]},
         [c \in Controls |-> LastOf(c, records)])

\* reconcile without emitting: buttons silently, axes through syncAxis.
SyncAll ==
    /\ state' = frame
    /\ told' = [c \in Controls |-> IF c \in Axes THEN frame[c] ELSE told[c]]
    /\ toldReal' = IF published THEN Axes ELSE {}
    /\ UNCHANGED falseEvent

-----------------------------------------------------------------------------
(* initializeDevice, from syncDevices *)

Goto(pc) == dpc' = pc

Initialize ==
    /\ dpc = "loop" /\ ~ open /\ plugged
    /\ open' = TRUE /\ state' = Unread
    /\ emit' = FALSE /\ round' = SettleRounds
    /\ Goto("acquire")
    /\ settled' = FALSE /\ late' = FALSE
    /\ UNCHANGED <<driver, told, toldReal, falseEvent, seen, missed>>

\* acquireAndReconcile: the device may be taken by somebody else, and every
\* failure abandons the whole call, in initializeDevice too.
Acquire ==
    /\ dpc = "acquire" /\ plugged
    /\ acquired' = TRUE /\ Goto("reconcile")
    /\ UNCHANGED <<plugged, published, frame, buffer, overflowed>>
    /\ UNCHANGED <<emit, round, open, state, history>>

GiveUp ==
    /\ dpc \in {"acquire", "reconcile", "settle", "overflow"}
    /\ dpc = "acquire" \/ ~ acquired
    /\ Goto("loop")
    /\ UNCHANGED <<driver, emit, round, open, state, history>>

\* The frame makes good every change that was lost, unless older records of the
\* control are left to be read after it.
FrameRead ==
    IF dpc = "overflow"
    THEN /\ missed' = {c \in missed : RecordsOf(c, buffer) # {}}
         /\ UNCHANGED seen
    ELSE missed' = {} /\ seen' = Len(buffer)

\* Slip: the state is read, and not compared with what the sink was told.
ReconcileSilently ==
    /\ dpc \in {"reconcile", "overflow"} /\ acquired
    /\ SyncAll
    /\ FrameRead
    /\ Goto(IF dpc = "overflow" THEN "loop" ELSE "drain")
    /\ UNCHANGED <<driver, emit, round, open, settled, late>>

\* Poll and GetDeviceState.
Reconcile ==
    /\ dpc \in {"reconcile", "overflow"} /\ acquired
    /\ IF emit THEN EmitFrame ELSE SyncAll
    /\ FrameRead
    /\ Goto(IF dpc = "overflow" THEN "loop" ELSE "drain")
    /\ UNCHANGED <<driver, emit, round, open, settled, late>>

\* What follows drainDeviceData: the poll loop, or another settling round.
AfterDrain ==
    IF emit \/ round = 0
    THEN /\ Goto("loop") /\ UNCHANGED round
         /\ settled' = (settled \/ (~ emit /\ acquired))
    ELSE /\ Goto("settle") /\ round' = round - 1
         /\ UNCHANGED settled

\* One GetDeviceData call of drainDeviceData: its records are thrown away, those
\* that came after the state was read among them.
Drain ==
    /\ dpc = "drain"
    /\ LET n == AtMost(Batch, buffer)
       IN  /\ buffer' = SubSeq(buffer, n + 1, Len(buffer))
           /\ missed' = missed \cup ControlsOf(SubSeq(buffer, seen + 1, n))
           /\ seen' = IF seen > n THEN seen - n ELSE 0
           /\ IF n < Batch THEN AfterDrain ELSE UNCHANGED <<dpc, round, settled>>
    /\ overflowed' = FALSE
    /\ UNCHANGED <<plugged, published, frame, acquired, emit, open, state>>
    /\ UNCHANGED <<told, toldReal, late, falseEvent>>

\* time.Sleep(pollInterval) and Poll.  "Some wheel/pedal drivers publish their
\* first real axis frame only after one polling interval"; nothing waits for it.
Settle ==
    /\ dpc = "settle" /\ acquired
    /\ late' = ~ published
    /\ Goto("reconcile")
    /\ UNCHANGED <<driver, emit, round, open, state>>
    /\ UNCHANGED <<told, toldReal, settled, falseEvent, seen, missed>>

-----------------------------------------------------------------------------
(* poll and release *)

\* Slip: a failed poll just waits for the next tick.
PollOnly ==
    /\ dpc = "loop" /\ open /\ acquired
    /\ emit' = TRUE /\ Goto("read")
    /\ UNCHANGED <<driver, round, open, state, history>>

Poll ==
    /\ dpc = "loop" /\ open
    /\ emit' = TRUE
    /\ Goto(IF acquired THEN "read" ELSE "acquire")
    /\ UNCHANGED <<driver, round, open, state, history>>

\* GetDeviceData: a failure reacquires; an overflow ends in a reconciliation
\* that leaves the rest of the buffer for the next poll.
Read ==
    /\ dpc = "read" /\ acquired
    /\ LET n == AtMost(Batch, buffer)
       IN  /\ EmitRecords(SubSeq(buffer, 1, n))
           /\ buffer' = SubSeq(buffer, n + 1, Len(buffer))
           /\ Goto(IF overflowed THEN "overflow" ELSE IF n < Batch THEN "loop" ELSE "read")
    /\ overflowed' = FALSE
    /\ UNCHANGED <<plugged, published, frame, acquired, emit, round, open>>
    /\ UNCHANGED <<settled, late, seen, missed>>

ReadFails ==
    /\ dpc = "read" /\ ~ acquired
    /\ Goto("acquire")
    /\ UNCHANGED <<driver, emit, round, open, state, history>>

\* Slip: release(sink, false).
ReleasedQuietly ==
    /\ open' = FALSE /\ state' = Unread
    /\ acquired' = FALSE /\ buffer' = << >> /\ overflowed' = FALSE
    /\ missed' = {}
    /\ UNCHANGED <<plugged, published, frame, emit, round>>
    /\ UNCHANGED <<told, toldReal, settled, late, falseEvent, seen>>

\* release(sink, true): held buttons are released with an event each.
Released ==
    /\ open' = FALSE /\ state' = Unread
    /\ told' = [c \in Controls |-> IF state[c] = 1 /\ c \in Buttons THEN 0 ELSE told[c]]
    /\ acquired' = FALSE /\ buffer' = << >> /\ overflowed' = FALSE
    /\ missed' = {}
    /\ UNCHANGED <<plugged, published, frame, emit, round>>
    /\ UNCHANGED <<toldReal, settled, late, falseEvent, seen>>

\* syncDevices finds the device gone; releaseAll ends the run.
Detach == dpc = "loop" /\ open /\ ~ plugged /\ Released /\ UNCHANGED dpc
Stop == dpc = "loop" /\ Released /\ Goto("stopped")

Thread ==
    \/ Initialize \/ Acquire \/ GiveUp \/ Reconcile \/ Drain \/ Settle
    \/ Poll \/ Read \/ ReadFails \/ Detach \/ Stop

Device ==
    \/ \E c \in Controls, v \in 0 .. AxisMax \cup {1} : v \in Values(c) /\ Move(c, v)
    \/ \E f \in Frames : Publish(f)
    \/ LoseInput \/ Unplug \/ Plug

Next == Thread \/ Device

Spec == Init /\ [][Next]_vars

\* The thread's calls return.  Taking the device succeeds in the end if it can,
\* and the poll and rescan ticks both keep coming.
Fairness ==
    /\ WF_vars(Initialize) /\ SF_vars(Acquire) /\ WF_vars(GiveUp)
    /\ WF_vars(Reconcile) /\ WF_vars(Drain) /\ WF_vars(Settle)
    /\ WF_vars(Poll) /\ WF_vars(Read) /\ WF_vars(ReadFails) /\ SF_vars(Detach)

FairSpec == Spec /\ Fairness

-----------------------------------------------------------------------------
(* Properties *)

\* Every variable holds a value of its type; the buffer keeps to its size.
TypeOK ==
    /\ plugged \in BOOLEAN /\ published \in BOOLEAN /\ acquired \in BOOLEAN
    /\ overflowed \in BOOLEAN /\ emit \in BOOLEAN /\ open \in BOOLEAN
    /\ settled \in BOOLEAN /\ late \in BOOLEAN /\ falseEvent \in BOOLEAN
    /\ seen \in 0 .. DeviceBuffer
    /\ frame \in Frames
    /\ buffer \in Seq(Change) /\ Len(buffer) <= DeviceBuffer
    /\ dpc \in {"loop", "acquire", "reconcile", "drain", "settle", "read",
                "overflow", "stopped"}
    /\ round \in 0 .. SettleRounds
    /\ state \in [Controls -> 0 .. AxisMax \cup {1, None}]
    /\ told \in [Controls -> 0 .. AxisMax \cup {1, None}]
    /\ toldReal \subseteq Axes /\ missed \subseteq Controls

\* A press the sink was told of is one the device entry still holds, so that
\* the release of the button, an input loss, an unplugging or the shutdown can
\* still announce its end.
PressesAreHeld == \A b \in Buttons : told[b] = 1 => open /\ state[b] = 1

\* Between two polls, with nothing left to read.
Quiet == dpc = "loop" /\ open /\ acquired /\ buffer = << >>

\* Whatever was lost and reacquired before, the backend's view of a quiet
\* device is the device's own, except for a control whose latest change either
\* drainDeviceData threw away after the state was read, or found no room while
\* older changes of the same control were left to be read after it.
CatchesUpUnlessMissed == Quiet => \A c \in Controls \ missed : state[c] = frame[c]

\* "CaptureAxis cannot bind the transition from the default center position":
\* after the settling rounds every position the sink knows is a real one, if the
\* driver published in the time they give it: before the last sleep ended.
SettledTellsReal ==
    dpc = "loop" /\ open /\ settled /\ ~ late => Axes \subseteq toldReal

\* A device that stays plugged in is acquired again and again, however often
\* the input is lost.
InputRecovers == <>[]plugged => []<>(acquired \/ dpc = "stopped")

\* After the device is unplugged for good no button stays pressed.
UnpluggingReleases == <>[](~ plugged) => <>[](\A b \in Buttons : told[b] = 0)

(* The properties above are not inductive; the parts of DeviceInv that follow
   are, together, and imply them *)

\* What the thread is in the middle of, and what it may take for granted there.
ThreadInv ==
    /\ dpc \notin {"loop", "stopped"} => open
    /\ acquired => open /\ plugged /\ dpc # "acquire"
    /\ published => plugged
    /\ dpc \in {"read", "overflow"} => emit
    /\ dpc = "settle" => ~ emit
    /\ ~ acquired => buffer = << >> /\ ~ overflowed

\* Nothing is told pressed before the settling is over, nor forgotten after.
PressInv == \A b \in Buttons : told[b] = 1 => open /\ emit /\ state[b] = 1

\* Once past a settling sleep that was long enough the driver has published, and
\* once past the reconciliation after it every axis was told.
SettleInv ==
    /\ settled /\ ~ late => published /\ Axes \subseteq toldReal
    /\ ~ emit /\ dpc \in {"acquire", "reconcile", "drain", "settle"} => ~ settled
    /\ ~ emit /\ dpc = "acquire" => round = SettleRounds
    /\ ~ emit /\ dpc = "settle" => round < SettleRounds
    /\ ~ emit /\ acquired /\ round < SettleRounds /\ ~ late =>
        /\ dpc \in {"reconcile", "drain"} => published
        /\ dpc = "drain" => Axes \subseteq toldReal

\* Reading the buffer to its end gives a control the value it has.
Replays(c) ==
    /\ RecordsOf(c, buffer) = {} => state[c] = frame[c]
    /\ \A i \in RecordsOf(c, buffer) :
        (\A j \in RecordsOf(c, buffer) : j <= i) => buffer[i].value = frame[c]

ReplayInv ==
    acquired /\ dpc \in {"loop", "read", "overflow"} =>
        \A c \in Controls \ missed : Replays(c)

\* While the buffer is drained a control stands as it was read, or a change that
\* came after is in the buffer still.
DrainInv ==
    acquired /\ dpc = "drain" =>
        /\ seen <= Len(buffer)
        /\ \A c \in Controls \ missed :
            state[c] = frame[c] \/ \E i \in RecordsOf(c, buffer) : i > seen

DeviceInv == TypeOK /\ ThreadInv /\ PressInv /\ SettleInv /\ ReplayInv /\ DrainInv

(* What the documents promise, and the code does not keep *)

\* "Input-loss recovery": a quiet device is known as it is, without exception.
StateCatchesUp == Quiet => state = frame

\* No axis event carries the driver's initial centre frame.
NoFalseAxisEvent == ~ falseEvent

=============================================================================
