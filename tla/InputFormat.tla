---------------------------- MODULE InputFormat ----------------------------
(***************************************************************************)
(* How the controls of a device are numbered, and how a DirectInput record *)
(* finds its control again (pkg/controller/directinput_windows.go).        *)
(*                                                                         *)
(* initializeDevice sorts the objects DirectInput enumerates, throws the   *)
(* duplicates away and lays them out: four bytes for each axis, then one   *)
(* for each button.  runtimeDevice.poll inverts that layout for the offset *)
(* of every record, in the uint32 arithmetic of the record.                *)
(***************************************************************************)
EXTENDS Integers, SequencesExt

CONSTANTS
    MaxButtons,   \* maxButtons: instances from here on are not controls
    MaxAxes,      \* maxAxes: so many axes of a device are used
    Word          \* 2^32, the modulus of record.offset

ASSUME FormatAssumption ==
    /\ MaxButtons \in Nat /\ MaxAxes \in Nat
    /\ Word \in Nat \ {0} /\ 4 * MaxAxes + MaxButtons <= Word

\* What an enumeration lists: the instance numbers, in any order, repeated or not.
Enumeration == [axes : Seq(Nat), buttons : Seq(Nat)]

\* The lists of a runtimeDevice: instance numbers, those of the buttons so small
\* that a ButtonEvent can name them.
Layout   == [axes : Seq(Nat), buttons : Seq(0 .. MaxButtons - 1)]
NoLayout == [axes |-> << >>, buttons |-> << >>]

-----------------------------------------------------------------------------
(* The lists *)

\* One pass of the insertion sort: everything greater moves up by one.
Insert(sorted, x) ==
    LET place == CHOOSE p \in 0 .. Len(sorted) :
                     /\ p > 0 => sorted[p] <= x
                     /\ \A i \in p + 1 .. Len(sorted) : sorted[i] > x
    IN  InsertAt(sorted, place + 1, x)

\* Slip: the objects keep the order of their enumeration.
SortIntsNot(values) == values

SortInts(values) ==
    LET sorted[n \in 0 .. Len(values)] ==
            IF n = 0 THEN << >> ELSE Insert(sorted[n - 1], values[n])
    IN  sorted[Len(values)]

UniqueInts(values) ==
    LET written[n \in 0 .. Len(values)] ==
            IF n = 0 THEN << >>
            ELSE LET kept == written[n - 1]
                 IN  IF kept # << >> /\ kept[Len(kept)] = values[n]
                     THEN kept ELSE Append(kept, values[n])
    IN  written[Len(values)]

\* The instances a ButtonEvent can name.
ButtonsOf(instances) ==
    LET named[n \in 0 .. Len(instances)] ==
            IF n = 0 THEN << >>
            ELSE IF instances[n] < MaxButtons THEN Append(named[n - 1], instances[n])
            ELSE named[n - 1]
    IN  named[Len(instances)]

AtMost(n, s) == IF Len(s) <= n THEN s ELSE SubSeq(s, 1, n)

AxisList(e) == UniqueInts(SortInts(e.axes))

\* enumButtons leaves out what cannot be named, and initializeDevice once more.
EnumButtons(e) == ButtonsOf(e.buttons)
ButtonList(e)  == ButtonsOf(AtMost(MaxButtons, UniqueInts(SortInts(EnumButtons(e)))))

\* Of the axes the lowest instances are kept.
LayoutOf(e) == [axes |-> AtMost(MaxAxes, AxisList(e)), buttons |-> ButtonList(e)]

-----------------------------------------------------------------------------
(* The data format *)

Controls(l) ==
    [kind : {"axis"}, index : DOMAIN l.axes] \cup [kind : {"button"}, index : DOMAIN l.buttons]

NoControl == [kind |-> "none", index |-> 0]

AxisBytes(l) == 4 * Len(l.axes)

DataSize(l) == AxisBytes(l) + Len(l.buttons)

\* setInputDataFormat: where DirectInput puts a control.
OffsetOf(l, c) == IF c.kind = "axis" THEN 4 * (c.index - 1) ELSE AxisBytes(l) + c.index - 1

\* Slip: the offset of a button is not relative to the axes.
DecodeAbsolute(l, offset) ==
    IF offset < AxisBytes(l) /\ offset % 4 = 0
    THEN [kind |-> "axis", index |-> offset \div 4 + 1]
    ELSE IF offset < Len(l.buttons) THEN [kind |-> "button", index |-> offset + 1] ELSE NoControl

\* poll: the control a record with this offset is about.  Inside an axis the
\* subtraction wraps around and the record is skipped.
Decode(l, offset) ==
    LET buttonOffset == (offset - AxisBytes(l)) % Word
    IN  IF offset < AxisBytes(l) /\ offset % 4 = 0
        THEN [kind |-> "axis", index |-> offset \div 4 + 1]
        ELSE IF buttonOffset < Len(l.buttons)
             THEN [kind |-> "button", index |-> buttonOffset + 1]
             ELSE NoControl

=============================================================================
