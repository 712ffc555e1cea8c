------------------------ MODULE SimagicDevice_proofs ------------------------
(***************************************************************************)
(* Proofs about the Simagic device handles, for any pedals, amplitudes     *)
(* and, where it is not assumed otherwise, any number of handles.          *)
(***************************************************************************)
EXTENDS SimagicDevice, TLAPS

\* Clamping leaves an amplitude.
LEMMA NormalizeType == \A a \in Asked : Normalize(TRUE, a) \in Amplitude /\ Normalize(FALSE, a) \in Amplitude
BY HapticAssumption DEF Asked, Amplitude, Normalize, Off

\* What one SetFeature can do to the types.
LEMMA SentType ==
  ASSUME TypeOK, NEW h \in Handles, NEW t \in Pedals, NEW a \in Amplitude,
         Applied(h, t, a) \/ NotApplied(h, t, a)
  PROVE  /\ motor' \in [Pedals -> Amplitude]
         /\ last' \in [Handles -> [Pedals -> Amplitude \cup {None}]]
         /\ unsure' \subseteq Pedals
<1>1. motor' \in [Pedals -> Amplitude]
  BY DEF TypeOK, Applied, NotApplied
<1>2. last[h] \in [Pedals -> Amplitude \cup {None}]
  BY DEF TypeOK
<1>3. [last[h] EXCEPT ![t] = a] \in [Pedals -> Amplitude \cup {None}]
  BY <1>2
<1>4. last' = last \/ last' = [last EXCEPT ![h] = [last[h] EXCEPT ![t] = a]]
  BY DEF Applied, NotApplied
<1>5. last' \in [Handles -> [Pedals -> Amplitude \cup {None}]]
  BY <1>3, <1>4 DEF TypeOK
<1>6. unsure' \subseteq Pedals
  BY DEF TypeOK, Applied, NotApplied
<1> QED
  BY <1>1, <1>5, <1>6

\* Off is an amplitude.
LEMMA OffType == Off \in Amplitude
BY HapticAssumption DEF Amplitude, Off

\* A call that sends at most one command keeps the types.
LEMMA SendOnceType ==
  ASSUME TypeOK, NEW h \in Handles, NEW t \in Pedals, NEW a \in Amplitude, SendOnce(h, t, a),
         pulsing' \subseteq pulsing
  PROVE  TypeOK'
<1>1. /\ motor' \in [Pedals -> Amplitude] /\ unsure' \subseteq Pedals
      /\ last' \in [Handles -> [Pedals -> Amplitude \cup {None}]]
  BY SentType DEF SendOnce, TypeOK
<1> QED
  BY <1>1 DEF SendOnce, TypeOK

\* Every step of a handle keeps the types.
LEMMA HandleType == ASSUME TypeOK, NEW h \in Handles, Handle(h) PROVE TypeOK'
<1>1. CASE Open(h)
  BY <1>1, HapticAssumption DEF Open, TypeOK, Phase, NothingSent
<1>2. CASE StopAllSends(h)
  <2>1. todo[h] \in Seq(Pedals) /\ Head(todo[h]) \in Pedals /\ Tail(todo[h]) \in Seq(Pedals)
    BY <1>2 DEF StopAllSends, TypeOK
  <2>2. /\ motor' \in [Pedals -> Amplitude] /\ unsure' \subseteq Pedals
        /\ last' \in [Handles -> [Pedals -> Amplitude \cup {None}]]
    BY <1>2, <2>1, SentType, OffType DEF StopAllSends
  <2>3. failed' = failed \/ failed' = [failed EXCEPT ![h] = @ \cup {Head(todo[h])}]
    BY <1>2 DEF StopAllSends
  <2>4. failed' \in [Handles -> SUBSET Pedals]
    <3>1. failed \in [Handles -> SUBSET Pedals] /\ failed[h] \in SUBSET Pedals
      BY DEF TypeOK
    <3>2. failed[h] \cup {Head(todo[h])} \in SUBSET Pedals
      BY <2>1, <3>1
    <3> QED
      BY <2>3, <3>1, <3>2
  <2>5. todo' \in [Handles -> Seq(Pedals)]
    BY <1>2, <2>1 DEF StopAllSends, TypeOK
  <2> QED
    BY <1>2, <2>2, <2>4, <2>5 DEF StopAllSends, TypeOK
<1>3. CASE OpenDone(h)
  BY <1>3 DEF OpenDone, TypeOK, Phase
<1>4. CASE Close(h)
  BY <1>4, HapticAssumption DEF Close, TypeOK, Phase
<1>5. CASE CloseDone(h)
  BY <1>5 DEF CloseDone, TypeOK, Phase
<1>6. CASE ReadBegin(h) \/ ReadEnd(h)
  BY <1>6 DEF ReadBegin, ReadEnd, TypeOK, Phase
<1>7. ASSUME NEW t \in Pedals, Stop(h, t) PROVE TypeOK'
  BY <1>7, SendOnceType, OffType DEF Stop
<1>10. ASSUME NEW p \in Pulsers, NEW t \in Pedals, PulseEnds(p, h, t) PROVE TypeOK'
  BY <1>10, SendOnceType, OffType DEF PulseEnds, TypeOK
<1>8. ASSUME NEW t \in Pedals, NEW a \in Asked, Vibrate(h, t, a) PROVE TypeOK'
  BY <1>8, SendOnceType, NormalizeType DEF Vibrate
<1>9. ASSUME NEW p \in Pulsers, NEW t \in Pedals, NEW a \in Asked, Pulse(p, h, t, a) PROVE TypeOK'
  <2>1. /\ motor' \in [Pedals -> Amplitude] /\ unsure' \subseteq Pedals
        /\ last' \in [Handles -> [Pedals -> Amplitude \cup {None}]]
    BY <1>9, SentType, NormalizeType DEF Pulse, TypeOK
  <2> QED
    BY <1>9, <2>1 DEF Pulse, TypeOK
<1> QED
  BY <1>1, <1>2, <1>3, <1>4, <1>5, <1>6, <1>7, <1>8, <1>9, <1>10 DEF Handle

\* The types hold in every reachable state.
THEOREM TypeCorrect == Spec => []TypeOK
<1>1. Init => TypeOK
  BY DEF Init, TypeOK, Phase, NothingSent
<1>2. TypeOK /\ [Next]_vars => TypeOK'
  <2> SUFFICES ASSUME TypeOK, [Next]_vars PROVE TypeOK'
    OBVIOUS
  <2>1. ASSUME NEW t \in Pedals, Watchdog(t) PROVE TypeOK'
    BY <2>1, OffType DEF Watchdog, TypeOK
  <2>2. CASE UNCHANGED vars
    BY <2>2 DEF vars, TypeOK
  <2> QED
    BY <2>1, <2>2, HandleType DEF Next
<1> QED
  BY <1>1, <1>2, PTL DEF Spec

-----------------------------------------------------------------------------
(* Transports *)

\* A transport is open exactly while its device is in use, whatever fails and
\* however many handles there are.
THEOREM TransportsOwned == Spec => []TransportOwned
<1>1. Init => TransportOwned
  BY DEF Init, TransportOwned
<1>2. TypeOK /\ TransportOwned /\ [Next]_vars => TransportOwned'
  <2> SUFFICES ASSUME TypeOK, TransportOwned, [Next]_vars PROVE TransportOwned'
    OBVIOUS
  <2> USE DEF TypeOK, TransportOwned
  <2>1. ASSUME NEW h \in Handles, Open(h) \/ OpenDone(h) \/ Close(h) \/ CloseDone(h)
                                  \/ ReadBegin(h) \/ ReadEnd(h)
        PROVE  TransportOwned'
    BY <2>1 DEF Open, OpenDone, Close, CloseDone, ReadBegin, ReadEnd
  <2>2. ASSUME NEW h \in Handles, NEW t \in Pedals, NEW p \in Pulsers, NEW a \in Asked,
               Vibrate(h, t, a) \/ Pulse(p, h, t, a)
        PROVE  UNCHANGED <<phase, transport>>
    BY <2>2 DEF Vibrate, Pulse, SendOnce
  <2>3. ASSUME NEW t \in Pedals, Watchdog(t) PROVE UNCHANGED <<phase, transport>>
    BY <2>3 DEF Watchdog
  <2>4. ASSUME UNCHANGED <<phase, transport>> PROVE TransportOwned'
    BY <2>4
  <2>5. ASSUME NEW h \in Handles, StopAllSends(h) PROVE UNCHANGED <<phase, transport>>
    BY <2>5 DEF StopAllSends
  <2>6. ASSUME NEW h \in Handles, NEW t \in Pedals, NEW p \in Pulsers, PulseEnds(p, h, t)
        PROVE  UNCHANGED <<phase, transport>>
    BY <2>6 DEF PulseEnds, SendOnce
  <2>7. ASSUME NEW h \in Handles, NEW t \in Pedals,
               Stop(h, t) \/ \E a \in Asked : Vibrate(h, t, a)
        PROVE  UNCHANGED <<phase, transport>>
    BY <2>7 DEF Stop, Vibrate, SendOnce
  <2> QED
    BY <2>1, <2>2, <2>3, <2>4, <2>5, <2>6, <2>7 DEF Next, Handle, vars
<1> QED
  BY <1>1, <1>2, TypeCorrect, PTL DEF Spec

-----------------------------------------------------------------------------
(* Stop *)

\* A remembered Off is in force, whatever the handle is doing.
OffInForce == \A h \in Handles, t \in Pedals : last[h][t] = Off => motor[t] = Off

\* With one handle on the device, and errors that mean nothing was sent, the
\* Stop that is not sent would have changed nothing.
THEOREM StopEffective ==
  ASSUME ~ AmbiguousErrors, \A g, h \in Handles : g = h
  PROVE  Spec => []StopIsEffective
<1>1. Init => OffInForce
  BY HapticAssumption DEF Init, OffInForce, NothingSent, Off
<1>2. TypeOK /\ OffInForce /\ [Next]_vars => OffInForce'
  <2> SUFFICES ASSUME TypeOK, OffInForce, [Next]_vars PROVE OffInForce'
    OBVIOUS
  <2>1. ASSUME NEW h \in Handles, NEW t \in Pedals, NEW a,
               Applied(h, t, a) \/ NotApplied(h, t, a) \/ UNCHANGED <<motor, last>>
        PROVE  OffInForce'
    BY <2>1 DEF TypeOK, OffInForce, Applied, NotApplied
  <2>2. ASSUME NEW h \in Handles, StopAllSends(h) PROVE OffInForce'
    <3>1. Head(todo[h]) \in Pedals
      BY <2>2 DEF StopAllSends, TypeOK
    <3> QED
      BY <2>1, <2>2, <3>1 DEF StopAllSends
  <2>3. ASSUME NEW h \in Handles, NEW t \in Pedals, NEW a, SendOnce(h, t, a) PROVE OffInForce'
    BY <2>1, <2>3 DEF SendOnce
  <2>4. ASSUME NEW p \in Pulsers, NEW h \in Handles, NEW t \in Pedals, NEW a \in Asked,
               Pulse(p, h, t, a)
        PROVE  OffInForce'
    BY <2>1, <2>4 DEF Pulse
  <2>5. ASSUME NEW h \in Handles, Open(h) PROVE OffInForce'
    BY <2>5, HapticAssumption DEF Open, TypeOK, OffInForce, NothingSent, Off
  <2>6. ASSUME NEW h \in Handles,
               OpenDone(h) \/ Close(h) \/ CloseDone(h) \/ ReadBegin(h) \/ ReadEnd(h)
        PROVE  OffInForce'
    BY <2>6 DEF OpenDone, Close, CloseDone, ReadBegin, ReadEnd, OffInForce
  <2>7. ASSUME NEW t \in Pedals, Watchdog(t) PROVE OffInForce'
    BY <2>7 DEF Watchdog, TypeOK, OffInForce
  <2>8. CASE UNCHANGED vars
    BY <2>8 DEF vars, OffInForce
  <2>9. ASSUME NEW h \in Handles, NEW t \in Pedals,
               Stop(h, t) \/ \E p \in Pulsers : PulseEnds(p, h, t)
        PROVE  OffInForce'
    BY <2>3, <2>9 DEF Stop, PulseEnds, OffInForce
  <2>10. ASSUME NEW h \in Handles, NEW t \in Pedals, NEW a \in Asked, Vibrate(h, t, a) PROVE OffInForce'
    BY <2>3, <2>10 DEF Vibrate
  <2> QED
    BY <2>2, <2>4, <2>5, <2>6, <2>7, <2>8, <2>9, <2>10 DEF Next, Handle
<1>3. OffInForce => StopIsEffective
  BY DEF OffInForce, StopIsEffective
<1> QED
  BY <1>1, <1>2, <1>3, TypeCorrect, PTL DEF Spec
-----------------------------------------------------------------------------
(* Close *)

Ahead(h, t) == \E i \in 1 .. Len(todo[h]) : todo[h][i] = t

\* A stopAll on its way has met an error on every pedal that is not quiet yet,
\* or has the pedal's Off ahead.
QuietInv ==
    /\ \A h \in Handles : phase[h] \in {"opening", "closing"} =>
            \A t \in Pedals : motor[t] = Off \/ t \in failed[h] \/ Ahead(h, t)
    /\ StopAllReaches

\* Taking the next target from the list leaves the others on it.
LEMMA AheadOfTail ==
  ASSUME NEW q \in Seq(Pedals), q # << >>, NEW i \in 1 .. Len(q), q[i] # Head(q)
  PROVE  \E j \in 1 .. Len(Tail(q)) : Tail(q)[j] = q[i]
<1>1. i # 1 /\ i - 1 \in 1 .. Len(Tail(q)) /\ Tail(q)[i - 1] = q[i]
  OBVIOUS
<1> QED
  BY <1>1

\* The Close of the only handle, and its failed Open, leave quiet every pedal
\* whose own Off succeeded, and no Pulse that wakes up later disturbs them.
THEOREM StoppedIsQuiet ==
  ASSUME \A g, h \in Handles : g = h
  PROVE  Spec => []StopAllReaches
<1>1. Init => QuietInv
  BY DEF Init, QuietInv, StopAllReaches, AfterStopAll
<1>2. TypeOK /\ QuietInv /\ [Next]_vars => QuietInv'
  <2> SUFFICES ASSUME TypeOK, QuietInv, [Next]_vars PROVE QuietInv'
    OBVIOUS
  <2>1. ASSUME NEW h \in Handles, StopAllSends(h) PROVE QuietInv'
    <3> DEFINE t == Head(todo[h])
    <3>1. todo[h] \in Seq(Pedals) /\ todo[h] # << >> /\ t \in Pedals
      BY <2>1 DEF StopAllSends, TypeOK
    <3>2. phase[h] \in {"opening", "closing"} /\ UNCHANGED phase
      BY <2>1 DEF StopAllSends
    <3>3. todo' = [todo EXCEPT ![h] = Tail(todo[h])]
      BY <2>1 DEF StopAllSends
    <3>4. ASSUME NEW u \in Pedals, u # t, Ahead(h, u) PROVE Ahead(h, u)'
      <4>1. todo'[h] = Tail(todo[h])
        BY <3>3 DEF TypeOK
      <4> QED
        BY <3>1, <3>4, <4>1, AheadOfTail DEF Ahead
    <3>5. /\ motor'[t] = Off \/ t \in failed'[h]
          /\ \A u \in Pedals \ {t} : motor'[u] = motor[u]
          /\ failed[h] \subseteq failed'[h]
      BY <2>1, <3>1 DEF StopAllSends, Applied, NotApplied, TypeOK
    <3>6. ASSUME NEW u \in Pedals PROVE motor'[u] = Off \/ u \in failed'[h] \/ Ahead(h, u)'
      BY <3>2, <3>4, <3>5 DEF QuietInv
    <3> QED
      BY <3>2, <3>6 DEF QuietInv, StopAllReaches, AfterStopAll
  <2>2. ASSUME NEW h \in Handles, UNCHANGED <<phase, todo, failed>>,
               phase[h] = "open" \/ UNCHANGED motor
        PROVE  QuietInv'
    BY <2>2 DEF QuietInv, StopAllReaches, AfterStopAll, Ahead
  <2>3. ASSUME NEW h \in Handles, Close(h) \/ Open(h) PROVE QuietInv'
    <3>1. todo'[h] = Targets /\ phase'[h] \in {"opening", "closing"}
      BY <2>3 DEF Close, Open, TypeOK
    <3>2. \A t \in Pedals : Ahead(h, t)'
      BY <3>1, HapticAssumption DEF Ahead, Pedals
    <3> QED
      BY <3>1, <3>2 DEF QuietInv, StopAllReaches, AfterStopAll
  <2>4. ASSUME NEW h \in Handles, CloseDone(h) \/ OpenDone(h) PROVE QuietInv'
    <3>1. \A t \in Pedals : motor[t] = Off \/ t \in failed[h]
      BY <2>4 DEF CloseDone, OpenDone, QuietInv, Ahead
    <3>2. phase'[h] \in {"open", "none", "closed"} /\ UNCHANGED <<motor, failed>>
      BY <2>4 DEF CloseDone, OpenDone, TypeOK
    <3> QED
      BY <3>1, <3>2 DEF QuietInv, StopAllReaches, AfterStopAll
  <2>5. ASSUME NEW h \in Handles, ReadBegin(h) \/ ReadEnd(h) PROVE QuietInv'
    <3>1. phase'[h] \in {"open", "reading"}
      BY <2>5 DEF ReadBegin, ReadEnd, TypeOK
    <3> QED
      BY <3>1 DEF QuietInv, StopAllReaches, AfterStopAll
  <2>6. ASSUME NEW t \in Pedals, Watchdog(t) PROVE QuietInv'
    BY <2>6 DEF Watchdog, QuietInv, StopAllReaches, AfterStopAll, Ahead, TypeOK
  <2>7. CASE UNCHANGED vars
    BY <2>7 DEF vars, QuietInv, StopAllReaches, AfterStopAll, Ahead
  <2>8. ASSUME NEW h \in Handles, NEW t \in Pedals, NEW a,
               SendOnce(h, t, a) \/ \E p \in Pulsers : PulseEnds(p, h, t) \/ Pulse(p, h, t, a)
        PROVE  QuietInv'
    <3>1. UNCHANGED <<phase, todo, failed>>
      BY <2>8 DEF PulseEnds, Pulse, SendOnce
    <3>2. phase[h] = "open" \/ UNCHANGED motor
      BY <2>8 DEF PulseEnds, Pulse, SendOnce
    <3> QED
      BY <2>2, <3>1, <3>2
  <2>9. ASSUME NEW h \in Handles, NEW t \in Pedals,
               \/ Stop(h, t) \/ \E a \in Asked : Vibrate(h, t, a)
               \/ \E p \in Pulsers : PulseEnds(p, h, t) \/ \E a \in Asked : Pulse(p, h, t, a)
        PROVE  QuietInv'
    <3>1. ASSUME NEW a, SendOnce(h, t, a) PROVE QuietInv'
      BY <2>8, <3>1
    <3>2. ASSUME NEW p \in Pulsers, PulseEnds(p, h, t) PROVE QuietInv'
      BY <2>8, <3>2
    <3>3. ASSUME NEW p \in Pulsers, NEW a \in Asked, Pulse(p, h, t, a) PROVE QuietInv'
      BY <2>8, <3>3
    <3> QED
      BY <2>9, <3>1, <3>2, <3>3 DEF Stop, Vibrate
  <2> QED
    BY <2>1, <2>3, <2>4, <2>5, <2>6, <2>7, <2>9 DEF Next, Handle
<1> QED
  BY <1>1, <1>2, TypeCorrect, PTL DEF Spec, QuietInv

\* The Close of the only handle that returned nil leaves every pedal quiet.
COROLLARY ClosedIsQuiet ==
  ASSUME \A g, h \in Handles : g = h
  PROVE  Spec => [](\A h \in Handles : phase[h] = "closed" /\ failed[h] = {} =>
                        \A t \in Pedals : motor[t] = Off)
<1>1. StopAllReaches => \A h \in Handles : phase[h] = "closed" /\ failed[h] = {} =>
                           \A t \in Pedals : motor[t] = Off
  BY DEF StopAllReaches, AfterStopAll
<1> QED
  BY <1>1, StoppedIsQuiet, PTL
-----------------------------------------------------------------------------
(* Several handles on one device *)

\* A handle that is not open yet remembers no vibration.
YetToVibrate ==
    \A h \in Handles : phase[h] \in {"none", "opening"} => \A t \in Pedals : last[h][t] \in {None, Off}

\* A pedal that vibrates against the remembered Off of one handle obeys a
\* SetFeature that failed, or does what another handle was the last to tell it.
OthersCommand ==
    \A h \in Handles, t \in Pedals : last[h][t] = Off /\ motor[t] # Off =>
        t \in unsure \/ \E g \in Handles : last[g][t] = motor[t]

\* A stopAll has sent, has ahead, or has met an error on, the Off of every pedal.
OffsSent ==
    \A h \in Handles, t \in Pedals : t \notin failed[h] =>
        /\ phase[h] \in {"opening", "closing"} => last[h][t] = Off \/ Ahead(h, t)
        /\ AfterStopAll(h) => last[h][t] = Off

HandlesInv == YetToVibrate /\ OthersCommand /\ OffsSent

\* What one command, sent or failed, does to the memories: the handle that
\* vibrates is open, the others may be anywhere.
LEMMA SendKeepsHandles ==
  ASSUME TypeOK, NEW h \in Handles, NEW t \in Pedals, NEW a \in Amplitude,
         Applied(h, t, a) \/ NotApplied(h, t, a) \/ UNCHANGED <<motor, last, unsure>>,
         UNCHANGED phase,
         phase[h] \notin {"none", "opening"} \/ a = Off
  PROVE  /\ YetToVibrate => YetToVibrate'
         /\ OthersCommand => OthersCommand'
<1>1. CASE UNCHANGED <<motor, last, unsure>>
  BY <1>1 DEF YetToVibrate, OthersCommand
<1>2. CASE NotApplied(h, t, a)
  <2>1. /\ UNCHANGED last /\ unsure \subseteq unsure'
        /\ \A u \in Pedals : motor'[u] = motor[u] \/ u \in unsure'
    BY <1>2 DEF NotApplied, TypeOK
  <2> QED
    BY <2>1 DEF YetToVibrate, OthersCommand
<1>3. CASE Applied(h, t, a)
  <2>1. motor' = [motor EXCEPT ![t] = a] /\ motor \in [Pedals -> Amplitude]
    BY <1>3 DEF Applied, TypeOK
  <2>2. /\ last'[h][t] = a
        /\ \A g \in Handles, u \in Pedals : g # h \/ u # t => last'[g][u] = last[g][u]
        /\ unsure' = unsure \ {t}
    BY <1>3 DEF Applied, TypeOK
  <2>3. YetToVibrate => YetToVibrate'
    BY <2>2 DEF YetToVibrate
  <2>4. ASSUME OthersCommand, NEW g \in Handles, NEW u \in Pedals, last'[g][u] = Off, motor'[u] # Off
        PROVE  u \in unsure' \/ \E k \in Handles : last'[k][u] = motor'[u]
    <3>1. CASE u = t
      BY <2>1, <2>2, <3>1
    <3>2. CASE u # t
      BY <2>1, <2>2, <2>4, <3>2 DEF OthersCommand
    <3> QED
      BY <3>1, <3>2
  <2> QED
    BY <2>3, <2>4 DEF OthersCommand
<1> QED
  BY <1>1, <1>2, <1>3

\* The memories of the handles and the failed SetFeatures account for every
\* vibration, for any number of handles.
LEMMA HandlesInvHolds == Spec => []HandlesInv
<1>1. Init => HandlesInv
  <2>1. None # Off
    BY HapticAssumption DEF Off
  <2> QED
    BY <2>1 DEF Init, HandlesInv, YetToVibrate, OthersCommand, OffsSent, AfterStopAll, NothingSent
<1>2. TypeOK /\ HandlesInv /\ [Next]_vars => HandlesInv'
  <2> SUFFICES ASSUME TypeOK, HandlesInv, [Next]_vars PROVE HandlesInv'
    OBVIOUS
  <2>1. ASSUME NEW h \in Handles, StopAllSends(h) PROVE HandlesInv'
    <3> DEFINE t == Head(todo[h])
    <3>1. todo[h] \in Seq(Pedals) /\ todo[h] # << >> /\ t \in Pedals
      BY <2>1 DEF StopAllSends, TypeOK
    <3>2. phase[h] \in {"opening", "closing"} /\ UNCHANGED phase
      BY <2>1 DEF StopAllSends
    <3>3. todo' = [todo EXCEPT ![h] = Tail(todo[h])]
      BY <2>1 DEF StopAllSends
    <3>4. YetToVibrate' /\ OthersCommand'
      BY <2>1, <3>1, <3>2, SendKeepsHandles, OffType DEF StopAllSends, HandlesInv
    <3>5. ASSUME NEW u \in Pedals, u # t, Ahead(h, u) PROVE Ahead(h, u)'
      <4>1. todo'[h] = Tail(todo[h])
        BY <3>3 DEF TypeOK
      <4> QED
        BY <3>1, <3>5, <4>1, AheadOfTail DEF Ahead
    <3>6. /\ last'[h][t] = Off \/ t \in failed'[h]
          /\ \A u \in Pedals \ {t} : last'[h][u] = last[h][u]
          /\ failed[h] \subseteq failed'[h]
      BY <2>1, <3>1 DEF StopAllSends, Applied, NotApplied, TypeOK
    <3>7. ASSUME NEW u \in Pedals, u \notin failed'[h] PROVE last'[h][u] = Off \/ Ahead(h, u)'
      <4>1. last[h][u] = Off \/ Ahead(h, u)
        BY <3>2, <3>6, <3>7 DEF HandlesInv, OffsSent
      <4> QED
        BY <3>5, <3>6, <3>7, <4>1
    <3>8. \A g \in Handles \ {h} : last'[g] = last[g] /\ failed'[g] = failed[g] /\ todo'[g] = todo[g]
      BY <2>1 DEF StopAllSends, Applied, NotApplied, TypeOK
    <3>9. OffsSent'
      <4>1. ASSUME NEW g \in Handles \ {h}, NEW u \in Pedals, u \notin failed'[g]
            PROVE  /\ phase'[g] \in {"opening", "closing"} => last'[g][u] = Off \/ Ahead(g, u)'
                   /\ AfterStopAll(g)' => last'[g][u] = Off
        BY <3>2, <3>8, <4>1 DEF HandlesInv, OffsSent, Ahead, AfterStopAll
      <4>2. ~ AfterStopAll(h)'
        BY <3>2 DEF AfterStopAll
      <4> QED
        BY <3>7, <4>1, <4>2 DEF OffsSent
    <3> QED
      BY <3>4, <3>9 DEF HandlesInv
  <2>2. ASSUME NEW h \in Handles, NEW t \in Pedals, NEW a \in Amplitude,
               phase[h] = "open", UNCHANGED <<phase, todo, failed>>,
               Applied(h, t, a) \/ NotApplied(h, t, a) \/ UNCHANGED <<motor, last, unsure>>
        PROVE  HandlesInv'
    <3>1. YetToVibrate' /\ OthersCommand'
      BY <2>2, SendKeepsHandles DEF HandlesInv
    <3>2. \A g \in Handles \ {h} : last'[g] = last[g]
      BY <2>2 DEF Applied, NotApplied, TypeOK
    <3>3. OffsSent'
      BY <2>2, <3>2 DEF HandlesInv, OffsSent, Ahead, AfterStopAll
    <3> QED
      BY <3>1, <3>3 DEF HandlesInv
  <2>3. ASSUME NEW h \in Handles, NEW t \in Pedals, NEW a \in Amplitude, SendOnce(h, t, a)
        PROVE  HandlesInv'
    BY <2>2, <2>3 DEF SendOnce
  <2>4. ASSUME NEW h \in Handles, NEW t \in Pedals, NEW a \in Asked, Vibrate(h, t, a)
        PROVE  HandlesInv'
    BY <2>3, <2>4, NormalizeType DEF Vibrate
  <2>5. ASSUME NEW p \in Pulsers, NEW h \in Handles, NEW t \in Pedals, NEW a \in Asked,
               Pulse(p, h, t, a)
        PROVE  HandlesInv'
    BY <2>2, <2>5, NormalizeType DEF Pulse
  <2>6. ASSUME NEW h \in Handles, NEW t \in Pedals,
               Stop(h, t) \/ \E p \in Pulsers : PulseEnds(p, h, t)
        PROVE  HandlesInv'
    <3>1. CASE SendOnce(h, t, Off)
      BY <2>3, <3>1, OffType
    <3>2. CASE UNCHANGED <<motor, phase, todo, failed, last, transport, unsure>>
      BY <3>2 DEF HandlesInv, YetToVibrate, OthersCommand, OffsSent, Ahead, AfterStopAll
    <3> QED
      BY <2>6, <3>1, <3>2 DEF Stop, PulseEnds
  <2>7. ASSUME NEW h \in Handles, Open(h) PROVE HandlesInv'
    <3>1. None # Off /\ None \notin Amplitude
      BY HapticAssumption DEF Off, Amplitude
    <3>2. /\ phase[h] = "none" /\ phase' = [phase EXCEPT ![h] = "opening"]
          /\ \A u \in Pedals : last'[h][u] = None
          /\ \A g \in Handles \ {h} : last'[g] = last[g] /\ failed'[g] = failed[g] /\ todo'[g] = todo[g]
          /\ UNCHANGED <<motor, unsure>> /\ todo'[h] = Targets
      BY <2>7 DEF Open, TypeOK, NothingSent
    <3>3. YetToVibrate'
      BY <3>2 DEF HandlesInv, YetToVibrate, TypeOK
    <3>4. ASSUME NEW g \in Handles, NEW u \in Pedals, last'[g][u] = Off, motor'[u] # Off
          PROVE  u \in unsure' \/ \E k \in Handles : last'[k][u] = motor'[u]
      <4>1. g # h /\ last[g][u] = Off
        BY <3>1, <3>2, <3>4
      <4>2. ASSUME NEW k \in Handles, last[k][u] = motor[u] PROVE k # h
        BY <3>1, <3>2, <3>4, <4>2 DEF HandlesInv, YetToVibrate, TypeOK
      <4>3. u \in unsure \/ \E k \in Handles : last[k][u] = motor[u]
        BY <3>2, <3>4, <4>1 DEF HandlesInv, OthersCommand
      <4> QED
        BY <3>2, <4>2, <4>3
    <3>5. OffsSent'
      <4>1. phase'[h] = "opening" /\ \A g \in Handles \ {h} : phase'[g] = phase[g]
        BY <3>2 DEF TypeOK
      <4>2. \A t \in Pedals : Ahead(h, t)'
        BY <3>2, HapticAssumption DEF Ahead, Pedals
      <4> QED
        BY <3>2, <4>1, <4>2 DEF HandlesInv, OffsSent, Ahead, AfterStopAll
    <3> QED
      BY <3>3, <3>4, <3>5 DEF HandlesInv, OthersCommand
  <2>8. ASSUME NEW h \in Handles, Close(h) PROVE HandlesInv'
    <3>1. todo'[h] = Targets /\ phase' = [phase EXCEPT ![h] = "closing"]
      BY <2>8 DEF Close, TypeOK
    <3>2. \A t \in Pedals : Ahead(h, t)'
      BY <3>1, HapticAssumption DEF Ahead, Pedals
    <3>3. OffsSent'
      <4>1. ~ AfterStopAll(h)'
        BY <3>1 DEF AfterStopAll, TypeOK
      <4>2. \A g \in Handles \ {h} : /\ phase'[g] = phase[g] /\ last'[g] = last[g]
                                     /\ failed'[g] = failed[g] /\ todo'[g] = todo[g]
        BY <2>8 DEF Close, TypeOK
      <4> QED
        BY <3>2, <4>1, <4>2 DEF HandlesInv, OffsSent, Ahead, AfterStopAll
    <3>4. YetToVibrate' /\ OthersCommand'
      BY <2>8 DEF Close, HandlesInv, YetToVibrate, OthersCommand, TypeOK
    <3> QED
      BY <3>3, <3>4 DEF HandlesInv
  <2>9. ASSUME NEW h \in Handles, OpenDone(h) \/ CloseDone(h) \/ ReadBegin(h) \/ ReadEnd(h)
        PROVE  HandlesInv'
    <3>1. UNCHANGED <<motor, todo, failed, last, unsure>>
      BY <2>9 DEF OpenDone, CloseDone, ReadBegin, ReadEnd
    <3>2. OthersCommand'
      BY <3>1 DEF HandlesInv, OthersCommand
    <3>3. YetToVibrate'
      BY <2>9, <3>1 DEF OpenDone, CloseDone, ReadBegin, ReadEnd, HandlesInv, YetToVibrate, TypeOK
    <3>4. \A g \in Handles \ {h} : phase'[g] = phase[g]
      BY <2>9 DEF OpenDone, CloseDone, ReadBegin, ReadEnd, TypeOK
    <3>5. ASSUME NEW u \in Pedals, u \notin failed[h], AfterStopAll(h)' PROVE last[h][u] = Off
      <4>1. CloseDone(h) \/ OpenDone(h)
        BY <2>9, <3>5 DEF ReadBegin, ReadEnd, AfterStopAll, TypeOK
      <4>2. phase[h] \in {"opening", "closing"} /\ ~ Ahead(h, u)
        BY <4>1 DEF CloseDone, OpenDone, Ahead
      <4> QED
        BY <3>5, <4>2 DEF HandlesInv, OffsSent
    <3>6. phase'[h] \notin {"opening", "closing"}
      BY <2>9 DEF OpenDone, CloseDone, ReadBegin, ReadEnd, TypeOK
    <3>7. OffsSent'
      BY <3>1, <3>4, <3>5, <3>6 DEF HandlesInv, OffsSent, Ahead, AfterStopAll
    <3> QED
      BY <3>2, <3>3, <3>7 DEF HandlesInv
  <2>10. ASSUME NEW t \in Pedals, Watchdog(t) PROVE HandlesInv'
    BY <2>10 DEF Watchdog, HandlesInv, YetToVibrate, OthersCommand, OffsSent, Ahead, AfterStopAll, TypeOK
  <2>11. CASE UNCHANGED vars
    BY <2>11 DEF vars, HandlesInv, YetToVibrate, OthersCommand, OffsSent, Ahead, AfterStopAll
  <2> QED
    BY <2>1, <2>4, <2>5, <2>6, <2>7, <2>8, <2>9, <2>10, <2>11 DEF Next, Handle
<1> QED
  BY <1>1, <1>2, TypeCorrect, PTL DEF Spec

\* What a Stop that is not sent leaves vibrating, another handle commanded, or a
\* SetFeature that reported a failure: the duplicate a handle suppresses is never
\* a vibration it was told had begun.
SuppressedStopExplained ==
    \A h \in Handles, t \in Pedals : phase[h] = "open" /\ last[h][t] = Off /\ motor[t] # Off =>
        t \in unsure \/ \E g \in Handles \ {h} : last[g][t] = motor[t]

\* With any number of handles on the device, and whatever a failed SetFeature
\* may have done, a pedal that vibrates on after a suppressed Stop obeys the last
\* command of another handle or a command whose SetFeature failed.  Those are the
\* only two ways in which StopIsEffective fails.
THEOREM StopMissesExplained == Spec => []SuppressedStopExplained
<1>1. HandlesInv => SuppressedStopExplained
  BY DEF HandlesInv, OthersCommand, SuppressedStopExplained
<1> QED
  BY <1>1, HandlesInvHolds, PTL

\* A pedal that vibrates although its Off got through when a handle was closed,
\* or when its Open failed, obeys another handle or a failed SetFeature.
StoppedHandleExplained ==
    \A h \in Handles, t \in Pedals : AfterStopAll(h) /\ t \notin failed[h] /\ motor[t] # Off =>
        t \in unsure \/ \E g \in Handles \ {h} : last[g][t] = motor[t]

\* With any number of handles on the device, what a Close or a failed Open leaves
\* behind on a pedal whose Off succeeded, or what begins there afterwards, is
\* never a vibration that handle was told had begun, not even by a Pulse of it
\* that wakes up later.
THEOREM StoppedLeavesExplained == Spec => []StoppedHandleExplained
<1>1. HandlesInv => StoppedHandleExplained
  BY DEF HandlesInv, OthersCommand, OffsSent, StoppedHandleExplained
<1> QED
  BY <1>1, HandlesInvHolds, PTL
=============================================================================
