--------------------------- MODULE SimagicDevice ---------------------------
(***************************************************************************)
(* A Simagic pedal set opened through one or several hpr.Device handles    *)
(* (pkg/hpr/driver/simagic/driver.go over internal/hidtransport).          *)
(*                                                                         *)
(* Each handle serialises its calls with its own mutex and remembers the   *)
(* last command it sent to each pedal; the pedals' motors are shared by    *)
(* all handles of the device path and have a watchdog of their own.  One   *)
(* SetFeature call is one action.  Open and Close send three of them, a    *)
(* read waits for a report, and other handles work in between.             *)
(***************************************************************************)
EXTENDS Integers, Sequences

CONSTANTS
    Handles,          \* results of Driver.Open for the same device path
    Pulsers,          \* the goroutines that call Pulse
    Targets,          \* the pedals, in the order of stopAll
    MaxAmplitude,     \* the strongest vibration; zero means off
    AmbiguousErrors,  \* a SetFeature that fails may have reached the device
    None

Pedals    == {Targets[i] : i \in DOMAIN Targets}
Amplitude == 0 .. MaxAmplitude
Asked     == 0 .. MaxAmplitude + 1     \* a caller may ask for more
Off       == 0

ASSUME HapticAssumption ==
    /\ MaxAmplitude \in Nat \ {0}
    /\ AmbiguousErrors \in BOOLEAN
    /\ Targets \in Seq(Pedals)
    /\ None \notin Nat

VARIABLES
    motor,     \* what each pedal's motor does
    phase,     \* the call that holds each handle's mutex, if any
    todo,      \* targets stopAll has yet to send to
    failed,    \* the pedals the latest stopAll of each handle met an error on
    last,      \* the last map of each handle
    transport, \* the handles whose transport is open
    pulsing,   \* the Pulse calls asleep between their Vibrate and their Stop
    unsure     \* history: the pedals that last obeyed a SetFeature that failed

vars == <<motor, phase, todo, failed, last, transport, pulsing, unsure>>

Phase == {"none", "opening", "open", "reading", "closing", "closed"}

NothingSent == [t \in Pedals |-> None]

Init ==
    /\ motor \in [Pedals -> Amplitude]     \* whatever another program left
    /\ phase = [h \in Handles |-> "none"]
    /\ todo = [h \in Handles |-> << >>]
    /\ failed = [h \in Handles |-> {}]
    /\ last = [h \in Handles |-> NothingSent]
    /\ transport = {}
    /\ pulsing = {}
    /\ unsure = {}

-----------------------------------------------------------------------------
(* sendLocked *)

\* SetFeature refuses a transport that was closed.
Usable(h) == h \in transport

Applied(h, t, a) ==
    /\ Usable(h)
    /\ motor' = [motor EXCEPT ![t] = a]
    /\ last' = [last EXCEPT ![h][t] = a]
    /\ unsure' = unsure \ {t}

\* Slip: the command is remembered before it is known to have been sent.
NotAppliedRemembered(h, t, a) ==
    /\ last' = [last EXCEPT ![h][t] = a]
    /\ UNCHANGED <<motor, unsure>>

\* The remembered command changes only with a successful send.
NotApplied(h, t, a) ==
    /\ \/ UNCHANGED <<motor, unsure>>
       \/ /\ AmbiguousErrors /\ Usable(h)
          /\ motor' = [motor EXCEPT ![t] = a]
          /\ unsure' = unsure \cup {t}
    /\ UNCHANGED last

\* normalize: the amplitude is clamped to the strongest; frequencies are clamped
\* into a range without zero, so only the state and the amplitude can turn a
\* command into an Off.
Normalize(on, a) ==
    CASE ~ on                   -> Off
      [] on /\ a > MaxAmplitude -> MaxAmplitude
      [] OTHER                  -> a

\* An Off that repeats the last command is not sent; an On always is, for the
\* sake of the watchdog.
Deduplicated(h, t, a) == a = Off /\ last[h][t] = Off

-----------------------------------------------------------------------------
(* The calls *)

Open(h) ==
    /\ phase[h] = "none"
    /\ phase' = [phase EXCEPT ![h] = "opening"]
    /\ transport' = transport \cup {h}
    /\ todo' = [todo EXCEPT ![h] = Targets]
    /\ failed' = [failed EXCEPT ![h] = {}]
    /\ last' = [last EXCEPT ![h] = NothingSent]
    /\ UNCHANGED <<motor, pulsing, unsure>>

\* Slip: stopAll returns the first error at once.
StopAllSendsFew(h) ==
    /\ phase[h] \in {"opening", "closing"} /\ todo[h] # << >>
    /\ LET t == Head(todo[h])
       IN  \/ /\ Applied(h, t, Off) /\ UNCHANGED failed
              /\ todo' = [todo EXCEPT ![h] = Tail(todo[h])]
           \/ /\ NotApplied(h, t, Off)
              /\ failed' = [failed EXCEPT ![h] = @ \cup {t}]
              /\ todo' = [todo EXCEPT ![h] = << >>]
    /\ UNCHANGED <<phase, transport, pulsing>>

\* One forced Off of stopAll; an error does not stop the others.
StopAllSends(h) ==
    /\ phase[h] \in {"opening", "closing"} /\ todo[h] # << >>
    /\ LET t == Head(todo[h])
       IN  \/ Applied(h, t, Off) /\ UNCHANGED failed
           \/ NotApplied(h, t, Off) /\ failed' = [failed EXCEPT ![h] = @ \cup {t}]
    /\ todo' = [todo EXCEPT ![h] = Tail(todo[h])]
    /\ UNCHANGED <<phase, transport, pulsing>>

\* Slip: the error path of Open keeps the transport.
OpenDoneLeaking(h) ==
    /\ phase[h] = "opening" /\ todo[h] = << >>
    /\ phase' = [phase EXCEPT ![h] = IF failed[h] # {} THEN "none" ELSE "open"]
    /\ UNCHANGED <<motor, todo, failed, last, transport, pulsing, unsure>>

\* Open fails if any Off did, and closes the transport it opened.
OpenDone(h) ==
    /\ phase[h] = "opening" /\ todo[h] = << >>
    /\ phase' = [phase EXCEPT ![h] = IF failed[h] # {} THEN "none" ELSE "open"]
    /\ transport' = IF failed[h] # {} THEN transport \ {h} ELSE transport
    /\ UNCHANGED <<motor, todo, failed, last, pulsing, unsure>>

\* Vibrate and Stop alike: nothing to send, or a SetFeature that may fail.
SendOnce(h, t, a) ==
    /\ phase[h] = "open"
    /\ \/ Deduplicated(h, t, a) /\ UNCHANGED <<motor, last, unsure>>
       \/ ~ Deduplicated(h, t, a) /\ (Applied(h, t, a) \/ NotApplied(h, t, a))
    /\ UNCHANGED <<phase, todo, failed, transport>>

Vibrate(h, t, a) == \E on \in BOOLEAN : SendOnce(h, t, Normalize(on, a)) /\ UNCHANGED pulsing

Stop(h, t) == SendOnce(h, t, Off) /\ UNCHANGED pulsing

Asleep(p) == \E h \in Handles, t \in Pedals : <<p, h, t>> \in pulsing

\* Pulse begins with a Vibrate that succeeded, sleeps, and ends with a Stop
\* whatever happened to the pedal or the handle in the meantime: a Pulse of
\* another goroutine, on the same pedal too, may overlap it.
Pulse(p, h, t, a) ==
    /\ phase[h] = "open" /\ ~ Asleep(p)
    /\ LET n == Normalize(TRUE, a)
       IN  IF Deduplicated(h, t, n) THEN UNCHANGED <<motor, last, unsure>> ELSE Applied(h, t, n)
    /\ pulsing' = pulsing \cup {<<p, h, t>>}
    /\ UNCHANGED <<phase, todo, failed, transport>>

PulseEnds(p, h, t) ==
    /\ <<p, h, t>> \in pulsing /\ pulsing' = pulsing \ {<<p, h, t>>}
    /\ \/ SendOnce(h, t, Off)
       \/ phase[h] = "closed" /\ UNCHANGED <<motor, phase, todo, failed, last, transport, unsure>>

\* ReadPedal and ReadRawInput keep the mutex until a report arrives.
ReadBegin(h) ==
    /\ phase[h] = "open"
    /\ phase' = [phase EXCEPT ![h] = "reading"]
    /\ UNCHANGED <<motor, todo, failed, last, transport, pulsing, unsure>>

\* Slip: a return without unlocking the mutex.
ReadEndHolding(h) ==
    /\ phase[h] = "reading" /\ UNCHANGED vars

ReadEnd(h) ==
    /\ phase[h] = "reading"
    /\ phase' = [phase EXCEPT ![h] = "open"]
    /\ UNCHANGED <<motor, todo, failed, last, transport, pulsing, unsure>>

Close(h) ==
    /\ phase[h] = "open"
    /\ phase' = [phase EXCEPT ![h] = "closing"]
    /\ todo' = [todo EXCEPT ![h] = Targets]
    /\ failed' = [failed EXCEPT ![h] = {}]
    /\ UNCHANGED <<motor, last, transport, pulsing, unsure>>

\* Slip: Close returns the error of stopAll before it has closed anything.
CloseDoneEarly(h) ==
    /\ phase[h] = "closing" /\ todo[h] = << >>
    /\ phase' = [phase EXCEPT ![h] = IF failed[h] # {} THEN "open" ELSE "closed"]
    /\ transport' = IF failed[h] # {} THEN transport ELSE transport \ {h}
    /\ UNCHANGED <<motor, todo, failed, last, pulsing, unsure>>

\* Close reports the error of stopAll, and the handle is closed all the same.
CloseDone(h) ==
    /\ phase[h] = "closing" /\ todo[h] = << >>
    /\ phase' = [phase EXCEPT ![h] = "closed"]
    /\ transport' = transport \ {h}
    /\ UNCHANGED <<motor, todo, failed, last, pulsing, unsure>>

\* "Simagic HPR devices stop after their internal watchdog if the host does
\* not refresh the vibration command."
Watchdog(t) ==
    /\ motor[t] # Off
    /\ motor' = [motor EXCEPT ![t] = Off]
    /\ unsure' = unsure \ {t}
    /\ UNCHANGED <<phase, todo, failed, last, transport, pulsing>>

Handle(h) ==
    \/ Open(h) \/ StopAllSends(h) \/ OpenDone(h) \/ Close(h) \/ CloseDone(h)
    \/ ReadBegin(h) \/ ReadEnd(h)
    \/ \E t \in Pedals :
        \/ Stop(h, t)
        \/ \E a \in Asked : Vibrate(h, t, a)
        \/ \E p \in Pulsers : PulseEnds(p, h, t) \/ \E a \in Asked : Pulse(p, h, t, a)

Next == (\E h \in Handles : Handle(h)) \/ \E t \in Pedals : Watchdog(t)

Spec == Init /\ [][Next]_vars

\* Calls return, a sleep ends, the device keeps sending reports, and the
\* watchdog of a pedal nobody refreshes bites.  A mutex waited for by a Pulse
\* is obtained in the end although reads keep taking it.
Fairness ==
    /\ \A h \in Handles :
        /\ WF_vars(StopAllSends(h)) /\ WF_vars(OpenDone(h)) /\ WF_vars(CloseDone(h))
        /\ WF_vars(ReadEnd(h))
        /\ \A p \in Pulsers, t \in Pedals : SF_vars(PulseEnds(p, h, t))
    /\ \A t \in Pedals : WF_vars(Watchdog(t))

FairSpec == Spec /\ Fairness

-----------------------------------------------------------------------------
(* Properties *)

\* Every variable holds a value of its type.
TypeOK ==
    /\ motor \in [Pedals -> Amplitude]
    /\ phase \in [Handles -> Phase]
    /\ todo \in [Handles -> Seq(Pedals)]
    /\ failed \in [Handles -> SUBSET Pedals]
    /\ last \in [Handles -> [Pedals -> Amplitude \cup {None}]]
    /\ transport \subseteq Handles
    /\ pulsing \subseteq Pulsers \X Handles \X Pedals
    /\ unsure \subseteq Pedals

\* "Stop turns off the named target": the Stop that is not sent because the
\* last command was an Off would have changed nothing.  It holds for a single
\* handle whose errors mean that nothing was sent; two handles on one device,
\* or an On that was carried out although SetFeature failed, break it.
StopIsEffective ==
    \A h \in Handles, t \in Pedals :
        phase[h] = "open" /\ last[h][t] = Off => motor[t] = Off

\* The handle is done with and a stopAll was its last call: a Close, or an Open
\* that failed because of an Off.
AfterStopAll(h) == phase[h] = "closed" \/ (phase[h] = "none" /\ failed[h] # {})

\* Close and a failed Open leave quiet every pedal whose own Off got through: an
\* error on one pedal keeps none of the others from being stopped, and a Pulse
\* that wakes up later no longer reaches the device.  A Close that returned nil
\* thus leaves all of them quiet.
StopAllReaches ==
    \A h \in Handles : AfterStopAll(h) => \A t \in Pedals : motor[t] = Off \/ t \in failed[h]

\* "it must Close the transport (on its own, or via Device.Close) if it fails
\* partway through": a transport is open exactly while its device is usable or
\* being opened or closed.
TransportOwned ==
    \A h \in Handles : h \in transport <=> phase[h] \notin {"none", "closed"}

\* A Pulse that has begun returns, however often reads and other Pulses take
\* the mutex between the end of its sleep and its Stop, and whether or not the
\* handle was closed.
PulsesEnd ==
    \A p \in Pulsers, h \in Handles, t \in Pedals : <<p, h, t>> \in pulsing ~> <<p, h, t>> \notin pulsing

\* Even a Close whose Offs were all lost is followed by silence: no Vibrate, and
\* no Stop of a Pulse that wakes up late, refreshes a motor after it.
CloseEndsInSilence ==
    \A h \in Handles : phase[h] = "closing" ~> \A t \in Pedals : motor[t] = Off

=============================================================================
