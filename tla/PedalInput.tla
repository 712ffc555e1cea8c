----------------------------- MODULE PedalInput -----------------------------
(***************************************************************************)
(* Reading pedal positions from a Simagic device (ReadPedal and            *)
(* ReadRawInput of pkg/hpr/driver/simagic/driver.go, parsePedalInput of    *)
(* protocol.go).                                                           *)
(*                                                                         *)
(* The HID class driver keeps the input reports that arrived since the     *)
(* handle was opened, the oldest first, and drops the oldest of a full     *)
(* queue.  A read takes one, and waits for it while there is none.         *)
(***************************************************************************)
EXTENDS Integers, SequencesExt

CONSTANTS
    Positions,   \* raw positions a pedal can be at
    Base,        \* values of one byte of a report
    AxisMax,     \* the largest raw position the report layout allows
    ReportSizes, \* bytes a read can return
    QueueSize,   \* reports the HID class driver keeps
    MaxReports,  \* bound: reports the device makes
    Raw,         \* stands for ReadRawInput where a target is expected
    None

ASSUME PedalAssumption ==
    /\ Base \in Nat \ {0} /\ AxisMax \in 1 .. Base * Base - 1
    /\ Positions \subseteq 0 .. AxisMax
    /\ ReportSizes \subseteq 0 .. 7
    /\ QueueSize \in Nat \ {0}
    /\ {Raw, None} \cap Nat = {}

Targets == 0 .. 2     \* clutch, brake, throttle
Pedals  == [Targets -> Positions]

VARIABLES
    made,     \* reports the device has made
    queue,    \* reports not read yet, with the positions they were made of
    flushed,  \* device.flushed
    reading,  \* what the call in progress asked for, if any
    answer,   \* the last call that returned
    fresh     \* reports made before the caller started polling

vars == <<made, queue, flushed, reading, answer, fresh>>

Init ==
    /\ made \in 0 .. 1 /\ queue = << >>
    /\ flushed = FALSE /\ reading = None
    /\ answer = None /\ fresh = 0

-----------------------------------------------------------------------------
(* protocol.go *)

\* Slip: big-endian.
LeUint16Swapped(raw, offset) ==
    IF offset + 1 >= Len(raw) THEN 0 ELSE Base * raw[offset + 1] + raw[offset + 2]

\* Bytes are numbered from zero in the code, from one here.
LeUint16(raw, offset) ==
    IF offset + 1 >= Len(raw) THEN 0 ELSE raw[offset + 1] + Base * raw[offset + 2]

\* Byte 0 is the report ID; a short report stands for released pedals.
ParsePedalInput(raw) ==
    [t \in Targets |-> IF Len(raw) < 7 THEN 0 ELSE LeUint16(raw, 1 + 2 * t)]

\* In units of 1 / AxisMax.
Normalised(in, t) == in[t]

-----------------------------------------------------------------------------
(* The device *)

\* The layout the protocol documents: ID, then clutch, brake and throttle with
\* the low byte first.
Encode(pedals) ==
    LET low(t)  == pedals[t] % Base
        high(t) == pedals[t] \div Base
    IN  <<1, low(0), high(0), low(1), high(1), low(2), high(2)>>

Newest(n, s) == IF Len(s) <= n THEN s ELSE SubSeq(s, Len(s) - n + 1, Len(s))

DeviceReports(pedals, size) ==
    /\ made < MaxReports /\ made' = made + 1
    /\ queue' = Newest(QueueSize, Append(queue,
                    [number |-> made', pedals |-> pedals, raw |-> SubSeq(Encode(pedals), 1, size)]))
    /\ UNCHANGED <<flushed, reading, answer, fresh>>

-----------------------------------------------------------------------------
(* The calls; the device's mutex is held from ReadBegin to the end *)

\* Slip: the queue is taken for flushed.
ReadBeginStale(what) ==
    /\ reading = None /\ reading' = what
    /\ flushed' = TRUE /\ fresh' = IF flushed THEN fresh ELSE made
    /\ UNCHANGED <<made, queue, answer>>

\* The first read flushes the queue.  A FlushQueue that fails ends the call and
\* leaves everything as it was.
ReadBegin(what) ==
    /\ reading = None /\ reading' = what
    /\ flushed' = TRUE /\ fresh' = IF flushed THEN fresh ELSE made
    /\ queue' = IF flushed THEN queue ELSE << >>
    /\ UNCHANGED <<made, answer>>

ReadEnd ==
    /\ reading # None /\ queue # << >>
    /\ LET report == Head(queue)
       IN  /\ queue' = Tail(queue)
           /\ answer' = [what |-> reading, report |-> report,
                         value |-> IF reading = Raw THEN None
                                   ELSE Normalised(ParsePedalInput(report.raw), reading)]
    /\ reading' = None
    /\ UNCHANGED <<made, flushed, fresh>>

\* ReadFile fails, when the device is gone.
ReadFails ==
    /\ reading # None /\ reading' = None
    /\ UNCHANGED <<made, queue, flushed, answer, fresh>>

Next ==
    \/ \E pedals \in Pedals, size \in ReportSizes : DeviceReports(pedals, size)
    \/ \E what \in Targets \cup {Raw} : ReadBegin(what)
    \/ ReadEnd \/ ReadFails

Spec == Init /\ [][Next]_vars

-----------------------------------------------------------------------------
(* Properties *)

\* ReadPedal answers with the position its own pedal had when the report was
\* made: the byte layout and the pedal are not mixed up.  A report too short to
\* hold the three positions reads as released pedals, without an error.
AnswersItsPedal ==
    answer # None /\ answer.what \in Targets =>
        answer.value = IF Len(answer.report.raw) = 7 THEN answer.report.pedals[answer.what] ELSE 0

\* "it flushes the queue to discard any stale reports that accumulated before
\* the caller started polling": no answer is from one of them, whether the
\* first reads succeeded or failed.
NoAnswerFromBefore == answer # None => answer.report.number > fresh

=============================================================================
