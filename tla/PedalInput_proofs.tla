-------------------------- MODULE PedalInput_proofs --------------------------
(***************************************************************************)
(* Proofs about reading pedal positions, for any positions, byte values,   *)
(* report sizes and queue length.                                          *)
(***************************************************************************)
EXTENDS PedalInput, TLAPS

\* A report in the queue: of these pedals, cut off or whole.
Report == [number : Nat \ {0}, pedals : Pedals, raw : Seq(Nat)]

Answer == [what : Targets \cup {Raw}, report : Report, value : Nat \cup {None}]

\* Every variable holds a value of its type.
TypeOK ==
    /\ made \in Nat /\ fresh \in Nat
    /\ queue \in Seq(Report)
    /\ flushed \in BOOLEAN
    /\ reading \in Targets \cup {Raw, None}
    /\ answer \in Answer \cup {None}

\* No report of the queue is from the future, and once the queue was flushed none
\* is from before.
QueueInv ==
    /\ fresh <= made
    /\ \A i \in DOMAIN queue : queue[i].number <= made /\ (flushed => queue[i].number > fresh)

\* Only a flushed queue is read.
AnswerInv ==
    /\ reading # None \/ answer # None => flushed
    /\ answer # None => answer.report.number > fresh

\* A whole report is the encoding of its pedals; there are no longer ones.
EncodingInv ==
    \A i \in DOMAIN queue :
        /\ Len(queue[i].raw) <= 7
        /\ Len(queue[i].raw) = 7 => queue[i].raw = Encode(queue[i].pedals)

-----------------------------------------------------------------------------
(* Reports *)

\* None and Raw are no numbers.
LEMMA Absent == None \notin Nat /\ Raw \notin Nat
BY PedalAssumption

\* The sizes, without the bound on the positions.
LEMMA Sizes == Base \in Nat \ {0} /\ Positions \subseteq Nat /\ QueueSize \in Nat
<1>1. Base \in Nat \ {0} /\ Positions \subseteq 0 .. AxisMax /\ QueueSize \in Nat
  BY PedalAssumption
<1>2. 0 .. AxisMax \subseteq Nat
  OBVIOUS
<1> QED
  BY <1>1, <1>2

\* Cutting a number in two and putting it together again.
LEMMA LowAndHigh ==
  ASSUME NEW b \in Nat \ {0}, NEW p \in Nat
  PROVE  p % b \in Nat /\ p \div b \in Nat /\ (p % b) + b * (p \div b) = p
<1>1. p % b \in Nat
  OBVIOUS
<1>2. p \div b \in Int
  OBVIOUS
<1>3. p \div b >= 0
  OBVIOUS
<1>4. (p % b) + b * (p \div b) = p
  OBVIOUS
<1> QED
  BY <1>1, <1>2, <1>3, <1>4

\* Seven numbers.
LEMMA SevenNumbers ==
  ASSUME NEW a \in Nat, NEW b \in Nat, NEW c \in Nat, NEW d \in Nat, NEW e \in Nat, NEW f \in Nat
  PROVE  <<1, a, b, c, d, e, f>> \in Seq(Nat) /\ Len(<<1, a, b, c, d, e, f>>) = 7
OBVIOUS

\* An encoded report is one byte and three positions.
LEMMA EncodeType == ASSUME NEW p \in Pedals PROVE Encode(p) \in Seq(Nat) /\ Len(Encode(p)) = 7
<1>1. \A t \in Targets : p[t] \in Nat
  BY Sizes DEF Pedals
<1>2. \A t \in Targets : p[t] % Base \in Nat /\ p[t] \div Base \in Nat
  BY <1>1, Sizes, LowAndHigh
<1>3. {0, 1, 2} \subseteq Targets
  BY DEF Targets
<1> QED
  BY <1>2, <1>3, SevenNumbers DEF Encode

\* parsePedalInput reads from a whole report what was encoded in it.
LEMMA ParseInvertsEncode ==
  ASSUME NEW p \in Pedals, NEW t \in Targets
  PROVE  Normalised(ParsePedalInput(Encode(p)), t) = p[t]
<1>1. \A x \in Targets : p[x] \in Nat
  BY Sizes DEF Pedals
<1> DEFINE e == Encode(p)
<1>2. Len(e) = 7
  BY EncodeType
<1>3. /\ e[2] = p[0] % Base /\ e[3] = p[0] \div Base
      /\ e[4] = p[1] % Base /\ e[5] = p[1] \div Base
      /\ e[6] = p[2] % Base /\ e[7] = p[2] \div Base
  BY DEF Encode
<1> HIDE DEF e
<1>4. Normalised(ParsePedalInput(e), t) = e[2 * t + 2] + Base * e[2 * t + 3]
  BY <1>2 DEF Normalised, ParsePedalInput, LeUint16, Targets
<1>5. \A x \in Targets : (p[x] % Base) + Base * (p[x] \div Base) = p[x]
  <2> TAKE x \in Targets
  <2>1. p[x] \in Nat
    BY <1>1
  <2> QED
    BY <2>1, Sizes, LowAndHigh
<1>6. e[2 * t + 2] = p[t] % Base /\ e[2 * t + 3] = p[t] \div Base
  BY <1>3 DEF Targets
<1> QED
  BY <1>4, <1>5, <1>6 DEF e

\* The beginning of a sequence.
LEMMA Beginning ==
  ASSUME NEW S, NEW s \in Seq(S), NEW k \in 0 .. Len(s)
  PROVE  /\ SubSeq(s, 1, k) \in Seq(S) /\ Len(SubSeq(s, 1, k)) = k
         /\ k = Len(s) => SubSeq(s, 1, k) = s
<1>1. SubSeq(s, 1, k) \in Seq(S) /\ Len(SubSeq(s, 1, k)) = k
  OBVIOUS
<1>2. \A i \in 1 .. k : SubSeq(s, 1, k)[i] = s[i]
  OBVIOUS
<1> QED
  BY <1>1, <1>2

\* The end of a sequence.
LEMMA Ending ==
  ASSUME NEW S, NEW s \in Seq(S), NEW k \in 0 .. Len(s)
  PROVE  /\ SubSeq(s, k + 1, Len(s)) \in Seq(S) /\ Len(SubSeq(s, k + 1, Len(s))) = Len(s) - k
         /\ \A i \in 1 .. Len(s) - k : SubSeq(s, k + 1, Len(s))[i] = s[i + k]
OBVIOUS

\* The queue keeps an end of what was put into it.
LEMMA NewestKeeps ==
  ASSUME NEW S, NEW s \in Seq(S), NEW n \in Nat
  PROVE  /\ Newest(n, s) \in Seq(S)
         /\ \E k \in 0 .. Len(s) :
              /\ Len(Newest(n, s)) = Len(s) - k
              /\ \A i \in 1 .. Len(s) - k : Newest(n, s)[i] = s[i + k]
<1>1. Len(s) \in Nat
  OBVIOUS
<1>2. CASE Len(s) <= n
  <2>1. Newest(n, s) = s
    BY <1>2 DEF Newest
  <2>2. 0 \in 0 .. Len(s) /\ Len(s) = Len(s) - 0 /\ \A i \in 1 .. Len(s) - 0 : s[i] = s[i + 0]
    BY <1>1
  <2> QED
    BY <2>1, <2>2
<1>3. CASE Len(s) > n
  <2> DEFINE k == Len(s) - n
  <2>1. k \in 0 .. Len(s) /\ Newest(n, s) = SubSeq(s, k + 1, Len(s))
    BY <1>1, <1>3 DEF Newest
  <2>2. /\ SubSeq(s, k + 1, Len(s)) \in Seq(S) /\ Len(SubSeq(s, k + 1, Len(s))) = Len(s) - k
        /\ \A i \in 1 .. Len(s) - k : SubSeq(s, k + 1, Len(s))[i] = s[i + k]
    BY <2>1, Ending
  <2>3. /\ Newest(n, s) \in Seq(S) /\ Len(Newest(n, s)) = Len(s) - k
        /\ \A i \in 1 .. Len(s) - k : Newest(n, s)[i] = s[i + k]
    BY <2>1, <2>2
  <2> HIDE DEF k
  <2> QED
    BY <2>1, <2>3
<1> QED
  BY <1>1, <1>2, <1>3

-----------------------------------------------------------------------------
(* Steps *)

\* What the device adds to the queue.
LEMMA Reported ==
  ASSUME TypeOK, NEW pedals \in Pedals, NEW size \in ReportSizes, DeviceReports(pedals, size)
  PROVE  \E report \in Report, k \in 0 .. Len(queue) + 1 :
            LET all == Append(queue, report)
            IN  /\ report.number = made + 1
                /\ Len(report.raw) <= 7
                /\ Len(report.raw) = 7 => report.raw = Encode(report.pedals)
                /\ queue' \in Seq(Report) /\ Len(queue') = Len(queue) + 1 - k
                /\ \A i \in 1 .. Len(queue) + 1 - k : queue'[i] = all[i + k]
<1> DEFINE report == [number |-> made', pedals |-> pedals, raw |-> SubSeq(Encode(pedals), 1, size)]
           all == Append(queue, report)
<1>1. made' = made + 1 /\ made + 1 \in Nat \ {0}
  BY DEF DeviceReports, TypeOK
<1>2. size \in 0 .. 7
  BY PedalAssumption
<1>3. /\ SubSeq(Encode(pedals), 1, size) \in Seq(Nat)
      /\ Len(SubSeq(Encode(pedals), 1, size)) = size
      /\ size = 7 => SubSeq(Encode(pedals), 1, size) = Encode(pedals)
  BY <1>2, EncodeType, Beginning
<1>4. report \in Report
  BY <1>1, <1>3 DEF Report
<1>5. all \in Seq(Report) /\ Len(all) = Len(queue) + 1
  BY <1>4 DEF TypeOK
<1>6. queue' = Newest(QueueSize, all)
  BY DEF DeviceReports
<1>7. /\ Newest(QueueSize, all) \in Seq(Report)
      /\ \E k \in 0 .. Len(all) :
            /\ Len(Newest(QueueSize, all)) = Len(all) - k
            /\ \A i \in 1 .. Len(all) - k : Newest(QueueSize, all)[i] = all[i + k]
  BY <1>5, Sizes, NewestKeeps
<1>8. PICK k \in 0 .. Len(all) :
            /\ Len(Newest(QueueSize, all)) = Len(all) - k
            /\ \A i \in 1 .. Len(all) - k : Newest(QueueSize, all)[i] = all[i + k]
  BY <1>7
<1>9. /\ report.number = made + 1 /\ Len(report.raw) <= 7
      /\ Len(report.raw) = 7 => report.raw = Encode(report.pedals)
  BY <1>1, <1>2, <1>3
<1> HIDE DEF report, all
<1>10. k \in 0 .. Len(queue) + 1 /\ Len(all) - k = Len(queue) + 1 - k
  BY <1>5
<1>11. queue' \in Seq(Report) /\ Len(queue') = Len(queue) + 1 - k
  BY <1>6, <1>7, <1>8, <1>10
<1>12. \A i \in 1 .. Len(queue) + 1 - k : queue'[i] = all[i + k]
  BY <1>6, <1>8, <1>10
<1> WITNESS report \in Report, k \in 0 .. Len(queue) + 1
<1> QED
  BY <1>9, <1>11, <1>12 DEF all

\* The call in progress takes the oldest report.
LEMMA Taken ==
  ASSUME TypeOK, ReadEnd
  PROVE  /\ Len(queue) \in Nat \ {0} /\ 1 \in DOMAIN queue /\ queue[1] \in Report
         /\ queue' \in Seq(Report) /\ Len(queue') = Len(queue) - 1
         /\ \A i \in DOMAIN queue' : queue'[i] = queue[i + 1] /\ i + 1 \in DOMAIN queue
         /\ answer'.what = reading /\ answer'.report = queue[1]
         /\ answer'.value = IF reading = Raw THEN None
                            ELSE Normalised(ParsePedalInput(queue[1].raw), reading)
         /\ reading # None /\ reading' = None
<1>1. queue \in Seq(Report) /\ queue # << >> /\ queue' = Tail(queue)
  BY DEF TypeOK, ReadEnd
<1>2. answer' = [what |-> reading, report |-> Head(queue),
                 value |-> IF reading = Raw THEN None
                           ELSE Normalised(ParsePedalInput(Head(queue).raw), reading)]
  BY DEF ReadEnd
<1>3. Head(queue) = queue[1] /\ queue[1] \in Report /\ Len(queue) \in Nat \ {0}
  BY <1>1
<1>4. /\ queue' \in Seq(Report) /\ Len(queue') = Len(queue) - 1
      /\ \A i \in DOMAIN queue' : queue'[i] = queue[i + 1] /\ i + 1 \in DOMAIN queue
  BY <1>1, <1>3
<1> QED
  BY <1>1, <1>2, <1>3, <1>4 DEF ReadEnd

\* Every step keeps the types.
LEMMA NextType == ASSUME TypeOK, [Next]_vars PROVE TypeOK'
<1>1. ASSUME NEW pedals \in Pedals, NEW size \in ReportSizes, DeviceReports(pedals, size)
      PROVE  TypeOK'
  <2>1. queue' \in Seq(Report)
    BY <1>1, Reported
  <2> QED
    BY <1>1, <2>1 DEF DeviceReports, TypeOK
<1>2. ASSUME NEW what \in Targets \cup {Raw}, ReadBegin(what) PROVE TypeOK'
  BY <1>2 DEF ReadBegin, TypeOK
<1>3. CASE ReadEnd
  <2>1. queue' \in Seq(Report)
    BY <1>3, Taken
  <2>2. reading \in Targets \cup {Raw} /\ Head(queue) \in Report
    BY <1>3 DEF ReadEnd, TypeOK
  <2>3. ASSUME NEW raw \in Seq(Nat), NEW t \in Targets
        PROVE  Normalised(ParsePedalInput(raw), t) \in Nat
    <3>1. ASSUME NEW offset \in {1, 3, 5} PROVE LeUint16(raw, offset) \in Nat
      <4>1. CASE offset + 1 >= Len(raw)
        BY <4>1 DEF LeUint16
      <4>2. CASE ~ (offset + 1 >= Len(raw))
        <5>1. raw[offset + 1] \in Nat /\ raw[offset + 2] \in Nat
          BY <4>2
        <5>2. Base * raw[offset + 2] \in Nat
          BY <5>1, Sizes
        <5> QED
          BY <4>2, <5>1, <5>2 DEF LeUint16
      <4> QED
        BY <4>1, <4>2
    <3>2. 1 + 2 * t \in {1, 3, 5}
      BY DEF Targets
    <3>3. LeUint16(raw, 1 + 2 * t) \in Nat
      BY <3>1, <3>2
    <3>4. ParsePedalInput(raw)[t] = IF Len(raw) < 7 THEN 0 ELSE LeUint16(raw, 1 + 2 * t)
      BY DEF ParsePedalInput
    <3> QED
      BY <3>3, <3>4 DEF Normalised
  <2>4. answer' \in Answer
    <3> DEFINE value == IF reading = Raw THEN None
                        ELSE Normalised(ParsePedalInput(Head(queue).raw), reading)
    <3>1. value \in Nat \cup {None}
      BY <2>2, <2>3 DEF Report
    <3>2. answer' = [what |-> reading, report |-> Head(queue), value |-> value]
      BY <1>3 DEF ReadEnd
    <3> HIDE DEF value
    <3> QED
      BY <2>2, <3>1, <3>2 DEF Answer
  <2> QED
    BY <1>3, <2>1, <2>4 DEF ReadEnd, TypeOK
<1>4. CASE ReadFails \/ UNCHANGED vars
  BY <1>4 DEF ReadFails, vars, TypeOK
<1> QED
  BY <1>1, <1>2, <1>3, <1>4 DEF Next

\* The variables of the report queue and its reader keep their types.
THEOREM TypeCorrect == Spec => []TypeOK
<1>1. Init => TypeOK
  <2> SUFFICES ASSUME Init PROVE TypeOK
    OBVIOUS
  <2>1. << >> \in Seq(Report)
    OBVIOUS
  <2>2. queue \in Seq(Report)
    BY <2>1 DEF Init
  <2>3. made \in Nat
    BY DEF Init
  <2>4. fresh \in Nat /\ flushed \in BOOLEAN
    BY DEF Init
  <2>5. reading \in Targets \cup {Raw, None} /\ answer \in Answer \cup {None}
    BY DEF Init
  <2> QED
    BY <2>2, <2>3, <2>4, <2>5 DEF TypeOK
<1> QED
  BY <1>1, NextType, PTL DEF Spec

-----------------------------------------------------------------------------
(* Before and after the flush *)

\* The queue before a new report.
LEMMA OldReport ==
  ASSUME queue \in Seq(Report), NEW i \in 1 .. Len(queue), NEW report
  PROVE  i \in DOMAIN queue /\ Append(queue, report)[i] = queue[i] /\ queue[i].number \in Nat
<1>1. i \in DOMAIN queue /\ queue[i] \in Report
  OBVIOUS
<1>2. Append(queue, report)[i] = queue[i]
  OBVIOUS
<1>3. queue[i].number \in Nat
  BY <1>1 DEF Report
<1> QED
  BY <1>1, <1>2, <1>3

\* A new report comes behind everything there is.
LEMMA ReportInv ==
  ASSUME TypeOK, QueueInv, AnswerInv, EncodingInv,
         NEW pedals \in Pedals, NEW size \in ReportSizes, DeviceReports(pedals, size)
  PROVE  QueueInv' /\ AnswerInv' /\ EncodingInv'
<1>1. PICK report \in Report, k \in 0 .. Len(queue) + 1 :
            LET all == Append(queue, report)
            IN  /\ report.number = made + 1
                /\ Len(report.raw) <= 7
                /\ Len(report.raw) = 7 => report.raw = Encode(report.pedals)
                /\ queue' \in Seq(Report) /\ Len(queue') = Len(queue) + 1 - k
                /\ \A i \in 1 .. Len(queue) + 1 - k : queue'[i] = all[i + k]
  BY Reported
<1> DEFINE all == Append(queue, report)
<1>2. /\ made \in Nat /\ made' = made + 1 /\ UNCHANGED <<flushed, reading, answer, fresh>>
      /\ fresh \in Nat /\ flushed \in BOOLEAN /\ queue \in Seq(Report)
  BY DEF DeviceReports, TypeOK
<1>3. /\ Len(queue) \in Nat
      /\ \A i \in 1 .. Len(queue) : all[i] = queue[i] /\ queue[i] \in Report
      /\ all[Len(queue) + 1] = report
  BY <1>2
<1>4. \A i \in 1 .. Len(queue) + 1 :
        /\ all[i].number \in Nat /\ all[i].number <= made + 1
        /\ flushed => all[i].number > fresh
        /\ Len(all[i].raw) <= 7
        /\ Len(all[i].raw) = 7 => all[i].raw = Encode(all[i].pedals)
  <2> TAKE i \in 1 .. Len(queue) + 1
  <2>1. CASE i \in 1 .. Len(queue)
    <3>1. i \in DOMAIN queue /\ all[i] = queue[i] /\ queue[i].number \in Nat
      BY <1>2, <2>1, OldReport
    <3> HIDE DEF all
    <3> QED
      BY <1>2, <3>1 DEF QueueInv, EncodingInv
  <2>2. CASE i = Len(queue) + 1
    <3>1. all[i] = report
      BY <1>3, <2>2
    <3> HIDE DEF all
    <3> QED
      BY <1>1, <1>2, <3>1 DEF QueueInv
  <2> QED
    BY <1>3, <2>1, <2>2
<1>5. \A i \in DOMAIN queue' : i + k \in 1 .. Len(queue) + 1 /\ queue'[i] = all[i + k]
  BY <1>1, <1>3
<1> HIDE DEF all
<1>6. QueueInv'
  <2>1. fresh' <= made'
    BY <1>2 DEF QueueInv
  <2>2. \A i \in DOMAIN queue' :
            queue'[i].number <= made' /\ (flushed' => queue'[i].number > fresh')
    BY <1>2, <1>4, <1>5
  <2> QED
    BY <2>1, <2>2 DEF QueueInv
<1>7. AnswerInv'
  BY <1>2 DEF AnswerInv
<1>8. EncodingInv'
  BY <1>4, <1>5 DEF EncodingInv
<1> QED
  BY <1>6, <1>7, <1>8

\* A read that begins flushes the queue if no other did before.
LEMMA BeginInv ==
  ASSUME TypeOK, QueueInv, AnswerInv, EncodingInv, NEW what \in Targets \cup {Raw}, ReadBegin(what)
  PROVE  QueueInv' /\ AnswerInv' /\ EncodingInv'
<1>1. CASE flushed
  BY <1>1 DEF ReadBegin, QueueInv, AnswerInv, EncodingInv
<1>2. CASE ~ flushed
  <2>1. queue' = << >> /\ DOMAIN queue' = {} /\ fresh' = made /\ made' = made /\ made \in Nat
    BY <1>2 DEF ReadBegin, TypeOK
  <2>2. answer' = None /\ flushed'
    BY <1>2 DEF ReadBegin, AnswerInv
  <2> QED
    BY <2>1, <2>2 DEF QueueInv, AnswerInv, EncodingInv
<1> QED
  BY <1>1, <1>2 DEF TypeOK

\* A read that ends takes the oldest.
LEMMA EndInv ==
  ASSUME TypeOK, QueueInv, AnswerInv, EncodingInv, ReadEnd
  PROVE  QueueInv' /\ AnswerInv' /\ EncodingInv'
<1>1. /\ UNCHANGED <<made, flushed, fresh>> /\ flushed
      /\ Len(queue) \in Nat \ {0} /\ 1 \in DOMAIN queue /\ queue[1] \in Report
      /\ queue' \in Seq(Report)
      /\ \A i \in DOMAIN queue' : queue'[i] = queue[i + 1] /\ i + 1 \in DOMAIN queue
      /\ answer'.report = queue[1] /\ reading # None
  BY Taken DEF ReadEnd, AnswerInv
<1>2. QueueInv'
  BY <1>1 DEF QueueInv
<1>3. AnswerInv'
  BY <1>1 DEF AnswerInv, QueueInv
<1>4. EncodingInv'
  BY <1>1 DEF EncodingInv
<1> QED
  BY <1>2, <1>3, <1>4

ReadInv == TypeOK /\ QueueInv /\ AnswerInv /\ EncodingInv

\* What was reported before the first read is gone from the queue and from every
\* answer, and every whole report is the encoding of its pedals.
THEOREM ReadsCorrect == Spec => []ReadInv
<1>1. Init => QueueInv /\ AnswerInv /\ EncodingInv
  <2> SUFFICES ASSUME Init PROVE QueueInv /\ AnswerInv /\ EncodingInv
    OBVIOUS
  <2>1. DOMAIN queue = {} /\ made \in Nat /\ fresh = 0
    BY DEF Init
  <2>2. answer = None /\ reading = None
    BY DEF Init
  <2> QED
    BY <2>1, <2>2 DEF QueueInv, AnswerInv, EncodingInv
<1>2. ReadInv /\ [Next]_vars => QueueInv' /\ AnswerInv' /\ EncodingInv'
  <2> SUFFICES ASSUME ReadInv, [Next]_vars PROVE QueueInv' /\ AnswerInv' /\ EncodingInv'
    OBVIOUS
  <2> USE DEF ReadInv
  <2>1. ASSUME NEW pedals \in Pedals, NEW size \in ReportSizes, DeviceReports(pedals, size)
        PROVE  QueueInv' /\ AnswerInv' /\ EncodingInv'
    BY <2>1, ReportInv
  <2>2. ASSUME NEW what \in Targets \cup {Raw}, ReadBegin(what)
        PROVE  QueueInv' /\ AnswerInv' /\ EncodingInv'
    BY <2>2, BeginInv
  <2>3. CASE ReadEnd
    BY <2>3, EndInv
  <2>4. CASE ReadFails \/ UNCHANGED vars
    BY <2>4 DEF ReadFails, vars, QueueInv, AnswerInv, EncodingInv
  <2> QED
    BY <2>1, <2>2, <2>3, <2>4 DEF Next
<1> QED
  BY <1>1, <1>2, TypeCorrect, PTL DEF Spec, ReadInv

\* No answer is from before the first read.
THEOREM NeverFromBefore == Spec => []NoAnswerFromBefore
<1>1. ReadInv => NoAnswerFromBefore
  BY DEF ReadInv, AnswerInv, NoAnswerFromBefore
<1> QED
  BY <1>1, ReadsCorrect, PTL

\* ReadPedal answers with the position of its own pedal.
THEOREM AlwaysItsPedal == Spec => []AnswersItsPedal
<1>1. Init => AnswersItsPedal
  BY DEF Init, AnswersItsPedal
<1>2. ReadInv /\ AnswersItsPedal /\ [Next]_vars => AnswersItsPedal'
  <2> SUFFICES ASSUME ReadInv, AnswersItsPedal, [Next]_vars PROVE AnswersItsPedal'
    OBVIOUS
  <2>1. CASE ReadEnd
    <3> DEFINE report == queue[1]
    <3>1. /\ report \in Report /\ 1 \in DOMAIN queue
          /\ answer'.what = reading /\ answer'.report = report
          /\ answer'.value = IF reading = Raw THEN None
                             ELSE Normalised(ParsePedalInput(report.raw), reading)
      BY <2>1, Taken DEF ReadInv
    <3> DEFINE size == Len(report.raw)
    <3>2. /\ size \in Nat /\ size <= 7 /\ report.pedals \in Pedals
          /\ size = 7 => report.raw = Encode(report.pedals)
      BY <3>1 DEF ReadInv, EncodingInv, Report
    <3> HIDE DEF report
    <3> SUFFICES ASSUME reading \in Targets
                 PROVE  answer'.value = IF size = 7 THEN report.pedals[reading] ELSE 0
      BY <3>1 DEF AnswersItsPedal
    <3>3. reading # Raw
      BY Absent DEF Targets
    <3>4. answer'.value = Normalised(ParsePedalInput(report.raw), reading)
      BY <3>1, <3>3
    <3>5. Normalised(ParsePedalInput(Encode(report.pedals)), reading) = report.pedals[reading]
      BY <3>2, ParseInvertsEncode
    <3>6. size < 7 => Normalised(ParsePedalInput(report.raw), reading) = 0
      BY DEF Normalised, ParsePedalInput
    <3> HIDE DEF size
    <3>7. size = 7 \/ (size < 7 /\ size # 7)
      BY <3>2
    <3> QED
      BY <3>2, <3>4, <3>5, <3>6, <3>7
  <2>2. CASE UNCHANGED answer
    BY <2>2 DEF AnswersItsPedal
  <2> QED
    BY <2>1, <2>2 DEF Next, DeviceReports, ReadBegin, ReadFails, vars
<1> QED
  BY <1>1, <1>2, ReadsCorrect, PTL DEF Spec

=============================================================================
