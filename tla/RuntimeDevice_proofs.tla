------------------------ MODULE RuntimeDevice_proofs ------------------------
(***************************************************************************)
(* Proofs about one controller, for any controls, any size of its buffer   *)
(* and of a read, and whatever is lost or unplugged in between.            *)
(***************************************************************************)
EXTENDS RuntimeDevice, FiniteSetTheorems, WellFoundedInduction, TLAPS

USE DEF driver, thread, history, Goto

-----------------------------------------------------------------------------
(* Records *)

\* A set of positions that is not empty has a last one.
LEMMA LastPosition ==
  ASSUME NEW n \in Nat, NEW S \in SUBSET (1 .. n), S # {}
  PROVE  \E i \in S : \A j \in S : j <= i
<1> DEFINE T == {k \in Nat : n - k \in S}
<1>1. PICK s \in S : TRUE
  OBVIOUS
<1>2. T # {} /\ T \subseteq Nat
  <2>1. n - s \in T
    OBVIOUS
  <2> QED
    BY <2>1
<1>3. PICK k \in T : \A l \in T : ~ (<<l, k>> \in OpToRel(<, Nat))
  <2> HIDE DEF T
  <2> QED
    BY <1>2, NatLessThanWellFounded, WFMin
<1>4. n - k \in S /\ k \in Nat
  OBVIOUS
<1>5. ASSUME NEW j \in S PROVE j <= n - k
  <2>1. n - j \in T
    OBVIOUS
  <2>2. ~ (n - j < k)
    BY <1>3, <1>4, <2>1 DEF OpToRel
  <2> QED
    BY <1>4, <2>2
<1> QED
  BY <1>4, <1>5

\* The last record of a control that has one.
LEMMA LastRecord ==
  ASSUME NEW rs \in Seq(Change), NEW c, RecordsOf(c, rs) # {}
  PROVE  \E i \in RecordsOf(c, rs) :
            /\ \A j \in RecordsOf(c, rs) : j <= i
            /\ LastOf(c, rs) = rs[i].value
<1>1. Len(rs) \in Nat /\ RecordsOf(c, rs) \in SUBSET (1 .. Len(rs))
  BY DEF RecordsOf
<1>2. \E i \in RecordsOf(c, rs) : \A j \in RecordsOf(c, rs) : j <= i
  BY <1>1, LastPosition
<1> QED
  BY <1>2 DEF LastOf

\* Its value is a value of the buffer.
LEMMA LastOfType ==
  ASSUME NEW rs \in Seq(Change), NEW c, RecordsOf(c, rs) # {}
  PROVE  LastOf(c, rs) \in 0 .. AxisMax \cup {1}
<1>1. PICK i \in RecordsOf(c, rs) : LastOf(c, rs) = rs[i].value
  BY LastRecord
<1>2. rs[i] \in Change
  BY DEF RecordsOf
<1> QED
  BY <1>1, <1>2 DEF Change

\* A function on an initial segment is a sequence.
LEMMA FunctionSeq == ASSUME NEW S, NEW n \in Nat, NEW g \in [1 .. n -> S] PROVE g \in Seq(S)
OBVIOUS

\* Reading from the front.
LEMMA Split ==
  ASSUME NEW s \in Seq(Change), NEW n \in 0 .. Len(s)
  PROVE  /\ SubSeq(s, 1, n) \in Seq(Change) /\ Len(SubSeq(s, 1, n)) = n
         /\ SubSeq(s, n + 1, Len(s)) \in Seq(Change)
         /\ Len(SubSeq(s, n + 1, Len(s))) = Len(s) - n
         /\ \A i \in 1 .. n : SubSeq(s, 1, n)[i] = s[i]
         /\ \A i \in 1 .. Len(s) - n : SubSeq(s, n + 1, Len(s))[i] = s[i + n]
OBVIOUS

\* A read returns no more than there is.
LEMMA AtMostBounds ==
  ASSUME NEW s \in Seq(Change), NEW n \in Nat
  PROVE  AtMost(n, s) \in 0 .. Len(s) /\ AtMost(n, s) <= n
BY DEF AtMost

\* The controls of a list of changes.
LEMMA ControlsType ==
  ASSUME NEW rs \in Seq(Change) PROVE ControlsOf(rs) \subseteq Controls
<1>1. \A i \in DOMAIN rs : rs[i] \in Change
  OBVIOUS
<1> QED
  BY <1>1 DEF ControlsOf, Change

\* What the driver adds stands behind what was there, as far as there is room.
LEMMA Kept ==
  ASSUME buffer \in Seq(Change), Len(buffer) <= DeviceBuffer, acquired,
         NEW changes \in Seq(Change), Buffered(changes)
  PROVE  \E room \in 0 .. Len(changes) :
            /\ Len(buffer) + room <= DeviceBuffer
            /\ buffer' = buffer \o SubSeq(changes, 1, room)
            /\ overflowed' = (overflowed \/ SubSeq(changes, room + 1, Len(changes)) # << >>)
            /\ missed' = (missed \ ControlsOf(SubSeq(changes, 1, room)))
                            \cup ControlsOf(SubSeq(changes, room + 1, Len(changes)))
<1> DEFINE space == DeviceBuffer - Len(buffer)
<1>1. space \in Nat /\ Len(buffer) \in Nat
  BY DeviceAssumption
<1>2. AtMost(space, changes) \in 0 .. Len(changes) /\ AtMost(space, changes) <= space
  BY <1>1, AtMostBounds
<1>3. Len(buffer) + AtMost(space, changes) <= DeviceBuffer
  <2> HIDE DEF space
  <2>1. space + Len(buffer) = DeviceBuffer
    BY DeviceAssumption DEF space
  <2> QED
    BY <1>1, <1>2, <2>1
<1> QED
  BY <1>2, <1>3 DEF Buffered

\* What the driver adds keeps to the size of the buffer.
LEMMA BufferedType ==
  ASSUME buffer \in Seq(Change), overflowed \in BOOLEAN, Len(buffer) <= DeviceBuffer,
         missed \subseteq Controls, NEW changes \in Seq(Change), Buffered(changes)
  PROVE  /\ buffer' \in Seq(Change) /\ Len(buffer') <= DeviceBuffer
         /\ overflowed' \in BOOLEAN /\ missed' \subseteq Controls
<1>1. CASE acquired
  <2>1. PICK room \in 0 .. Len(changes) :
            /\ Len(buffer) + room <= DeviceBuffer
            /\ buffer' = buffer \o SubSeq(changes, 1, room)
            /\ overflowed' = (overflowed \/ SubSeq(changes, room + 1, Len(changes)) # << >>)
            /\ missed' = (missed \ ControlsOf(SubSeq(changes, 1, room)))
                            \cup ControlsOf(SubSeq(changes, room + 1, Len(changes)))
    BY <1>1, Kept
  <2>2. /\ SubSeq(changes, 1, room) \in Seq(Change) /\ Len(SubSeq(changes, 1, room)) = room
        /\ SubSeq(changes, room + 1, Len(changes)) \in Seq(Change)
    BY Split
  <2>3. buffer' \in Seq(Change) /\ Len(buffer') = Len(buffer) + room
    BY <2>1, <2>2
  <2>4. missed' \subseteq Controls
    BY <2>1, <2>2, ControlsType
  <2> QED
    BY <2>1, <2>3, <2>4
<1>2. CASE ~ acquired
  BY <1>2 DEF Buffered
<1> QED
  BY <1>1, <1>2

-----------------------------------------------------------------------------
(* Typing *)

\* The sets the values are taken from.
LEMMA Domains ==
  /\ AxisMax \in Nat \ {0} /\ DeviceBuffer \in Nat /\ Batch \in Nat \ {0}
  /\ None \notin Nat /\ IsFiniteSet(Controls)
  /\ DefaultFrame \in Frames
  /\ Unread \in [Controls -> 0 .. AxisMax \cup {1, None}]
  /\ \A f \in Frames : f \in [Controls -> 0 .. AxisMax \cup {1}]
<1>1. DefaultFrame \in Frames
  BY DeviceAssumption DEF DefaultFrame, Frames, Controls, Values
<1>2. IsFiniteSet(Controls)
  BY DeviceAssumption, FS_Union DEF Controls
<1> QED
  BY <1>1, <1>2, DeviceAssumption DEF Unread, Frames, Controls

\* An empty buffer keeps to every size.
LEMMA EmptyFits == << >> \in Seq(Change) /\ Len(<< >>) <= DeviceBuffer
BY Domains

\* What Emit does to the types.
LEMMA EmitType ==
  ASSUME TypeOK, NEW changed \in SUBSET Controls, NEW value,
         \A c \in changed : value[c] \in 0 .. AxisMax \cup {1},
         Emit(changed, value)
  PROVE  /\ state' \in [Controls -> 0 .. AxisMax \cup {1, None}]
         /\ told' \in [Controls -> 0 .. AxisMax \cup {1, None}]
         /\ toldReal' \subseteq Axes /\ falseEvent' \in BOOLEAN
<1>1. state' \in [Controls -> 0 .. AxisMax \cup {1, None}]
  BY DEF Emit, TypeOK
<1>2. told' \in [Controls -> 0 .. AxisMax \cup {1, None}]
  BY DEF Emit, TypeOK
<1>3. toldReal' \subseteq Axes
  BY DEF Emit, TypeOK
<1>4. falseEvent' \in BOOLEAN
  BY DEF Emit, TypeOK
<1> QED
  BY <1>1, <1>2, <1>3, <1>4

\* The initial state.
LEMMA InitType == Init => TypeOK
<1> SUFFICES ASSUME Init PROVE TypeOK
  OBVIOUS
<1> USE DEF Init
<1>1. frame \in Frames /\ buffer \in Seq(Change) /\ Len(buffer) <= DeviceBuffer
  BY Domains, EmptyFits
<1>2. /\ state \in [Controls -> 0 .. AxisMax \cup {1, None}]
      /\ told \in [Controls -> 0 .. AxisMax \cup {1, None}]
  BY Domains
<1>3. round \in 0 .. SettleRounds /\ seen \in 0 .. DeviceBuffer
  BY Domains DEF SettleRounds
<1> QED
  BY <1>1, <1>2, <1>3 DEF TypeOK

\* The device's own steps.
LEMMA DeviceType == ASSUME TypeOK, Device PROVE TypeOK'
<1> USE DEF TypeOK
<1>1. ASSUME NEW c \in Controls, NEW v \in 0 .. AxisMax \cup {1}, v \in Values(c), Move(c, v)
      PROVE  TypeOK'
  <2>1. <<[control |-> c, value |-> v]>> \in Seq(Change)
    BY <1>1 DEF Change
  <2>2. frame' \in Frames
    BY <1>1 DEF Move, Frames, Values
  <2>3. /\ buffer' \in Seq(Change) /\ Len(buffer') <= DeviceBuffer
        /\ overflowed' \in BOOLEAN /\ missed' \subseteq Controls
    BY <1>1, <2>1, BufferedType DEF Move
  <2> QED
    BY <1>1, <2>2, <2>3 DEF Move, Untold
<1>2. ASSUME NEW f \in Frames, Publish(f) PROVE TypeOK'
  <2> DEFINE changed == {c \in Controls : f[c] # frame[c]}
  <2>1. PICK order \in [1 .. Cardinality(changed) -> changed] :
            Buffered([i \in DOMAIN order |-> [control |-> order[i], value |-> f[order[i]]]])
    BY <1>2 DEF Publish
  <2>2. Cardinality(changed) \in Nat
    BY Domains, FS_Subset, FS_CardinalityType
  <2> DEFINE changes == [i \in DOMAIN order |-> [control |-> order[i], value |-> f[order[i]]]]
  <2>3. changes \in [1 .. Cardinality(changed) -> Change]
    BY Domains DEF Change
  <2>4. changes \in Seq(Change)
    BY <2>2, <2>3, FunctionSeq
  <2> HIDE DEF changes
  <2>5. /\ buffer' \in Seq(Change) /\ Len(buffer') <= DeviceBuffer
        /\ overflowed' \in BOOLEAN /\ missed' \subseteq Controls
    BY <2>1, <2>4, BufferedType DEF changes
  <2> QED
    BY <1>2, <2>5 DEF Publish, Untold
<1>3. CASE LoseInput
  BY <1>3, EmptyFits DEF LoseInput
<1>4. CASE Unplug
  BY <1>4, Domains, EmptyFits DEF Unplug
<1>5. CASE Plug
  BY <1>5 DEF Plug
<1> QED
  BY <1>1, <1>2, <1>3, <1>4, <1>5 DEF Device

\* The thread's reading of the frame.
LEMMA ReconcileType == ASSUME TypeOK, Reconcile PROVE TypeOK'
<1>1. /\ state' \in [Controls -> 0 .. AxisMax \cup {1, None}]
      /\ told' \in [Controls -> 0 .. AxisMax \cup {1, None}]
      /\ toldReal' \subseteq Axes /\ falseEvent' \in BOOLEAN
  <2>1. CASE emit
    <3>1. EmitFrame
      BY <2>1 DEF Reconcile
    <3>2. \A c \in Controls : frame[c] \in 0 .. AxisMax \cup {1}
      BY Domains DEF TypeOK
    <3> QED
      BY <3>1, <3>2, EmitType DEF EmitFrame
  <2>2. CASE ~ emit
    BY <2>2, Domains DEF TypeOK, Reconcile, SyncAll
  <2> QED
    BY <2>1, <2>2
<1>2. missed' \subseteq Controls /\ seen' \in 0 .. DeviceBuffer
  BY DEF TypeOK, Reconcile, FrameRead
<1> QED
  BY <1>1, <1>2 DEF TypeOK, Reconcile

\* The thread's reading of the buffer.
LEMMA ReadType == ASSUME TypeOK, Read PROVE TypeOK'
<1> DEFINE n == AtMost(Batch, buffer)
           rs == SubSeq(buffer, 1, n)
           rest == SubSeq(buffer, n + 1, Len(buffer))
<1>1. n \in 0 .. Len(buffer)
  BY Domains, AtMostBounds DEF TypeOK
<1>2. rs \in Seq(Change) /\ rest \in Seq(Change) /\ Len(rest) <= DeviceBuffer
  BY <1>1, Split, Domains DEF TypeOK
<1>3. EmitRecords(rs) /\ buffer' = rest
  BY DEF Read
<1> HIDE DEF n, rs, rest
<1>4. \A c \in Controls : RecordsOf(c, rs) # {} => LastOf(c, rs) \in 0 .. AxisMax \cup {1}
  BY <1>2, LastOfType
<1>5. /\ state' \in [Controls -> 0 .. AxisMax \cup {1, None}]
      /\ told' \in [Controls -> 0 .. AxisMax \cup {1, None}]
      /\ toldReal' \subseteq Axes /\ falseEvent' \in BOOLEAN
  <2> DEFINE changed == {c \in Controls : \E i \in RecordsOf(c, rs) : rs[i].value # state[c]}
             value == [c \in Controls |-> LastOf(c, rs)]
  <2>1. \A c \in changed : value[c] \in 0 .. AxisMax \cup {1}
    BY <1>4
  <2>2. Emit(changed, value)
    BY <1>3 DEF EmitRecords
  <2> HIDE DEF value
  <2> QED
    BY <2>1, <2>2, EmitType
<1> QED
  BY <1>2, <1>3, <1>5 DEF TypeOK, Read

\* The other steps of the thread.
LEMMA ThreadType == ASSUME TypeOK, Thread PROVE TypeOK'
<1>1. CASE Initialize
  <2>1. state' \in [Controls -> 0 .. AxisMax \cup {1, None}]
    BY <1>1, Domains DEF Initialize
  <2>2. round' \in 0 .. SettleRounds
    BY <1>1 DEF Initialize, SettleRounds
  <2> QED
    BY <1>1, <2>1, <2>2 DEF TypeOK, Initialize
<1>2. CASE Acquire
  BY <1>2 DEF TypeOK, Acquire
<1>3. CASE GiveUp
  BY <1>3 DEF TypeOK, GiveUp
<1>4. CASE Drain
  <2>1. AtMost(Batch, buffer) \in 0 .. Len(buffer)
    BY Domains, AtMostBounds DEF TypeOK
  <2>2. buffer' \in Seq(Change) /\ Len(buffer') <= DeviceBuffer
    <3> DEFINE n == AtMost(Batch, buffer)
    <3>1. buffer' = SubSeq(buffer, n + 1, Len(buffer))
      BY <1>4 DEF Drain
    <3> HIDE DEF n
    <3>2. n \in 0 .. Len(buffer) /\ Len(buffer) \in Nat
      BY <2>1 DEF n, TypeOK
    <3>3. /\ SubSeq(buffer, n + 1, Len(buffer)) \in Seq(Change)
          /\ Len(SubSeq(buffer, n + 1, Len(buffer))) = Len(buffer) - n
      BY <3>2, Split DEF TypeOK
    <3> QED
      BY <3>1, <3>2, <3>3, Domains DEF TypeOK
  <2>3. /\ round' \in 0 .. SettleRounds /\ settled' \in BOOLEAN
        /\ dpc' \in {"loop", "settle", "drain"}
    BY <1>4 DEF TypeOK, Drain, AfterDrain, SettleRounds
  <2>4. missed' \subseteq Controls
    <3> DEFINE n == AtMost(Batch, buffer)
    <3>1. SubSeq(buffer, seen + 1, n) \in Seq(Change)
      <4> HIDE DEF n
      <4> QED
        BY <2>1 DEF TypeOK, n
    <3>2. missed' = missed \cup ControlsOf(SubSeq(buffer, seen + 1, n))
      BY <1>4 DEF Drain
    <3> QED
      BY <3>1, <3>2, ControlsType DEF TypeOK
  <2>5. seen' \in 0 .. DeviceBuffer
    <3>1. seen' = (IF seen > AtMost(Batch, buffer) THEN seen - AtMost(Batch, buffer) ELSE 0)
      BY <1>4 DEF Drain
    <3> QED
      BY <2>1, <3>1, Domains DEF TypeOK
  <2> QED
    BY <1>4, <2>2, <2>3, <2>4, <2>5 DEF TypeOK, Drain
<1>5. CASE Settle
  BY <1>5 DEF TypeOK, Settle
<1>6. CASE Poll
  BY <1>6 DEF TypeOK, Poll
<1>7. CASE ReadFails
  BY <1>7 DEF TypeOK, ReadFails
<1>8. CASE Detach \/ Stop
  <2>1. Released /\ dpc' \in {dpc, "stopped"}
    BY <1>8 DEF Detach, Stop
  <2>2. buffer' \in Seq(Change) /\ Len(buffer') <= DeviceBuffer
    BY <2>1, EmptyFits DEF Released
  <2>3. state' \in [Controls -> 0 .. AxisMax \cup {1, None}]
    BY <2>1, Domains DEF Released
  <2>4. told' \in [Controls -> 0 .. AxisMax \cup {1, None}]
    BY <2>1, Domains DEF Released, TypeOK
  <2> QED
    BY <2>1, <2>2, <2>3, <2>4 DEF TypeOK, Released
<1> QED
  BY <1>1, <1>2, <1>3, <1>4, <1>5, <1>6, <1>7, <1>8, ReconcileType, ReadType DEF Thread

\* A step that changes nothing.
LEMMA StutterType == ASSUME TypeOK, UNCHANGED vars PROVE TypeOK'
BY DEF TypeOK, vars

\* Every variable of the device, the thread and the history keeps its type.
THEOREM TypeCorrect == Spec => []TypeOK
<1>1. TypeOK /\ [Next]_vars => TypeOK'
  BY DeviceType, ThreadType, StutterType DEF Next
<1> QED
  BY <1>1, InitType, PTL DEF Spec

-----------------------------------------------------------------------------
(* What the thread may take for granted *)

\* An acquisition that is lost, or was never there, takes its buffer with it.
LEMMA BufferedUnacquired ==
  ASSUME ThreadInv, NEW changes, Buffered(changes)
  PROVE  ~ acquired => buffer' = << >> /\ ~ overflowed'
BY DEF ThreadInv, Buffered

\* The device touches nothing of the thread, and takes a frame back only
\* together with the acquisition.
LEMMA DeviceEffect ==
  ASSUME Device
  PROVE  /\ UNCHANGED <<dpc, emit, round, open, state, told, toldReal, late, seen>>
         /\ settled' => settled
         /\ acquired' => acquired
         /\ published => published' \/ (~ settled' /\ ~ acquired')
<1>1. ASSUME NEW c \in Controls, NEW v \in 0 .. AxisMax \cup {1}, Move(c, v)
      PROVE  UNCHANGED <<thread, told, toldReal, settled, late, seen, published, acquired>>
  BY <1>1 DEF Move, Untold
<1>2. ASSUME NEW f \in Frames, Publish(f)
      PROVE  UNCHANGED <<thread, told, toldReal, settled, late, seen, acquired>> /\ published'
  BY <1>2 DEF Publish, Untold
<1>3. CASE LoseInput
  BY <1>3 DEF LoseInput
<1>4. CASE Unplug
  BY <1>4 DEF Unplug
<1>5. CASE Plug
  BY <1>5 DEF Plug
<1> QED
  BY <1>1, <1>2, <1>3, <1>4, <1>5 DEF Device

\* The device's own steps.
LEMMA DeviceThreadInv == ASSUME TypeOK, ThreadInv, Device PROVE ThreadInv'
<1>1. ASSUME NEW c \in Controls, NEW v \in 0 .. AxisMax \cup {1}, Move(c, v) PROVE ThreadInv'
  BY <1>1, BufferedUnacquired DEF Move, ThreadInv
<1>2. ASSUME NEW f \in Frames, Publish(f) PROVE ThreadInv'
  BY <1>2, BufferedUnacquired DEF Publish, ThreadInv
<1>3. CASE LoseInput
  BY <1>3 DEF LoseInput, ThreadInv
<1>4. CASE Unplug
  BY <1>4 DEF Unplug, ThreadInv
<1>5. CASE Plug
  BY <1>5 DEF Plug, ThreadInv
<1> QED
  BY <1>1, <1>2, <1>3, <1>4, <1>5 DEF Device

\* The thread's steps.
LEMMA ThreadThreadInv == ASSUME TypeOK, ThreadInv, Thread PROVE ThreadInv'
<1> USE DEF ThreadInv
<1>1. CASE Initialize
  BY <1>1 DEF Initialize
<1>2. CASE Acquire
  BY <1>2 DEF Acquire
<1>3. CASE GiveUp
  BY <1>3 DEF GiveUp
<1>4. CASE Reconcile
  BY <1>4 DEF Reconcile
<1>5. CASE Drain
  <2>1. ~ acquired => buffer' = << >>
    BY <1>5, Domains DEF Drain, AtMost
  <2> QED
    BY <1>5, <2>1 DEF Drain, AfterDrain
<1>6. CASE Settle
  BY <1>6 DEF Settle
<1>7. CASE Poll
  BY <1>7 DEF Poll
<1>8. CASE Read
  BY <1>8 DEF Read
<1>9. CASE ReadFails
  BY <1>9 DEF ReadFails
<1>10. CASE Detach \/ Stop
  BY <1>10 DEF Detach, Stop, Released
<1> QED
  BY <1>1, <1>2, <1>3, <1>4, <1>5, <1>6, <1>7, <1>8, <1>9, <1>10 DEF Thread

-----------------------------------------------------------------------------
(* Presses *)

\* No value of an axis is taken for a button's.
LEMMA ButtonsAreControls ==
  \A b \in Buttons : b \in Controls /\ b \notin Axes
BY DeviceAssumption DEF Controls

\* What was told in a step of Emit is in the entry.
LEMMA EmitPress ==
  ASSUME TypeOK, PressInv, NEW changed, NEW value, Emit(changed, value), NEW b \in Buttons
  PROVE  told'[b] = 1 => state'[b] = 1
BY ButtonsAreControls DEF Emit, PressInv, TypeOK

\* A press the sink knows of is one the entry holds.
LEMMA PressStep ==
  ASSUME TypeOK, ThreadInv, PressInv, [Next]_vars
  PROVE  PressInv'
<1> SUFFICES ASSUME NEW b \in Buttons, told'[b] = 1
             PROVE  open' /\ emit' /\ state'[b] = 1
  BY DEF PressInv
<1> USE DEF PressInv
<1>1. CASE Initialize
  BY <1>1 DEF Initialize
<1>2. CASE Acquire \/ GiveUp \/ Drain \/ Settle \/ ReadFails
  BY <1>2 DEF Acquire, GiveUp, Drain, Settle, ReadFails
<1>3. CASE Reconcile
  <2>1. CASE emit
    BY <1>3, <2>1, EmitPress DEF Reconcile, EmitFrame, ThreadInv
  <2>2. CASE ~ emit
    <3>1. told'[b] = told[b]
      BY <1>3, <2>2, ButtonsAreControls DEF Reconcile, SyncAll
    <3> QED
      BY <3>1, <2>2
  <2> QED
    BY <2>1, <2>2
<1>4. CASE Poll
  BY <1>4 DEF Poll
<1>5. CASE Read
  <2>1. state'[b] = 1
    BY <1>5, EmitPress DEF Read, EmitRecords
  <2> QED
    BY <1>5, <2>1 DEF Read, ThreadInv
<1>6. CASE Detach \/ Stop
  <2>1. told'[b] # 1
    BY <1>6, ButtonsAreControls DEF Detach, Stop, Released, TypeOK
  <2> QED
    BY <2>1
<1>7. CASE Device
  BY <1>7, DeviceEffect
<1>8. CASE UNCHANGED vars
  BY <1>8 DEF vars
<1> QED
  BY <1>1, <1>2, <1>3, <1>4, <1>5, <1>6, <1>7, <1>8 DEF Next, Thread

-----------------------------------------------------------------------------
(* Settling *)

\* Once the driver has published, what is told of an axis is real.
LEMMA EmitReal ==
  ASSUME NEW changed, NEW value, Emit(changed, value), published
  PROVE  Axes \subseteq toldReal => Axes \subseteq toldReal'
BY DEF Emit

\* The settling rounds end with every axis told from a published frame.
LEMMA SettleStep ==
  ASSUME TypeOK, ThreadInv, SettleInv, [Next]_vars
  PROVE  SettleInv'
<1> USE DEF SettleInv
<1>1. CASE Initialize
  BY <1>1 DEF Initialize
<1>2. CASE Acquire
  BY <1>2 DEF Acquire, SettleRounds
<1>3. CASE GiveUp
  BY <1>3 DEF GiveUp
<1>4. CASE Reconcile
  <2>1. CASE emit
    <3>1. settled /\ ~ late => Axes \subseteq toldReal'
      BY <1>4, <2>1, EmitReal DEF Reconcile, EmitFrame
    <3> QED
      BY <1>4, <2>1, <3>1 DEF Reconcile, ThreadInv
  <2>2. CASE ~ emit
    BY <1>4, <2>2 DEF Reconcile, SyncAll, ThreadInv
  <2> QED
    BY <2>1, <2>2
<1>5. CASE Drain
  <2>1. CASE emit \/ round = 0
    <3>1. settled' => settled \/ (~ emit /\ acquired /\ round = 0)
      BY <1>5, <2>1 DEF Drain, AfterDrain
    <3> QED
      BY <1>5, <2>1, <3>1 DEF Drain, AfterDrain, SettleRounds, TypeOK
  <2>2. CASE ~ emit /\ round # 0
    BY <1>5, <2>2 DEF Drain, AfterDrain, SettleRounds, TypeOK
  <2> QED
    BY <2>1, <2>2
<1>6. CASE Settle
  BY <1>6 DEF Settle, ThreadInv
<1>7. CASE Poll
  BY <1>7 DEF Poll
<1>8. CASE Read
  <2>1. settled /\ ~ late => Axes \subseteq toldReal'
    BY <1>8, EmitReal DEF Read, EmitRecords
  <2> QED
    BY <1>8, <2>1 DEF Read, ThreadInv
<1>9. CASE ReadFails
  BY <1>9 DEF ReadFails, ThreadInv
<1>10. CASE Detach \/ Stop
  BY <1>10 DEF Detach, Stop, Released
<1>11. CASE Device
  BY <1>11, DeviceEffect
<1>12. CASE UNCHANGED vars
  BY <1>12 DEF vars
<1> QED
  BY <1>1, <1>2, <1>3, <1>4, <1>5, <1>6, <1>7, <1>8, <1>9, <1>10, <1>11, <1>12 DEF Next, Thread

-----------------------------------------------------------------------------
(* Catching up *)

\* The driver's records of a control keep its replay, or restore it, if each of
\* them is the value it has.
LEMMA ReplaysAppended ==
  ASSUME TypeOK, NEW c \in Controls, NEW changes \in Seq(Change),
         buffer' = buffer \o changes, state' = state,
         \A i \in RecordsOf(c, changes) : changes[i].value = frame'[c],
         RecordsOf(c, changes) = {} => Replays(c) /\ frame'[c] = frame[c]
  PROVE  Replays(c)'
<1>1. /\ Len(buffer) \in Nat /\ Len(changes) \in Nat
      /\ Len(buffer') = Len(buffer) + Len(changes) /\ buffer' \in Seq(Change)
      /\ \A i \in 1 .. Len(buffer) : buffer'[i] = buffer[i]
      /\ \A i \in 1 .. Len(changes) : buffer'[i + Len(buffer)] = changes[i]
  BY DEF TypeOK
<1>2. \A i \in RecordsOf(c, buffer) : i \in RecordsOf(c, buffer')
  BY <1>1 DEF RecordsOf, TypeOK
<1>3. \A i \in RecordsOf(c, changes) : i + Len(buffer) \in RecordsOf(c, buffer')
  BY <1>1 DEF RecordsOf
<1>4. ASSUME NEW i \in RecordsOf(c, buffer')
      PROVE  \/ i \in RecordsOf(c, buffer) /\ buffer'[i] = buffer[i] /\ i <= Len(buffer)
             \/ /\ i - Len(buffer) \in RecordsOf(c, changes)
                /\ buffer'[i] = changes[i - Len(buffer)]
  <2>1. i \in 1 .. Len(buffer') /\ buffer'[i].control = c
    BY <1>1 DEF RecordsOf
  <2>2. CASE i <= Len(buffer)
    BY <1>1, <2>1, <2>2 DEF RecordsOf, TypeOK
  <2>3. CASE i > Len(buffer)
    <3>1. i - Len(buffer) \in 1 .. Len(changes) /\ i = (i - Len(buffer)) + Len(buffer)
      BY <1>1, <2>1, <2>3
    <3>2. buffer'[i] = changes[i - Len(buffer)]
      BY <1>1, <3>1
    <3> QED
      BY <2>1, <3>1, <3>2 DEF RecordsOf
  <2> QED
    BY <1>1, <2>1, <2>2, <2>3
<1>5. RecordsOf(c, buffer') = {} => state'[c] = frame'[c]
  BY <1>2, <1>3 DEF Replays
<1>6. ASSUME NEW i \in RecordsOf(c, buffer'), \A j \in RecordsOf(c, buffer') : j <= i
      PROVE  buffer'[i].value = frame'[c]
  <2>1. CASE i \in RecordsOf(c, buffer) /\ buffer'[i] = buffer[i] /\ i <= Len(buffer)
    <3>1. ASSUME NEW k \in RecordsOf(c, changes) PROVE FALSE
      <4>1. k + Len(buffer) <= i /\ k \in 1 .. Len(changes)
        BY <1>3, <1>6 DEF RecordsOf
      <4>2. i \in 1 .. Len(buffer)
        BY <2>1 DEF RecordsOf, TypeOK
      <4> QED
        BY <1>1, <4>1, <4>2
    <3>2. Replays(c) /\ frame'[c] = frame[c]
      BY <3>1
    <3>3. buffer[i].value = frame[c]
      BY <1>2, <1>6, <2>1, <3>2 DEF Replays
    <3> QED
      BY <2>1, <3>2, <3>3
  <2>2. CASE /\ i - Len(buffer) \in RecordsOf(c, changes)
             /\ buffer'[i] = changes[i - Len(buffer)]
    BY <2>2
  <2> QED
    BY <1>4, <2>1, <2>2
<1> QED
  BY <1>5, <1>6 DEF Replays

\* What the buffer keeps of the changes ends with the value of a control that
\* lost none of its own.
LEMMA KeptReal ==
  ASSUME TypeOK, acquired, NEW c \in Controls, c \notin missed',
         NEW changes \in Seq(Change), Buffered(changes),
         \A i \in RecordsOf(c, changes) : changes[i].value = frame'[c],
         RecordsOf(c, changes) = {} => frame'[c] = frame[c]
  PROVE  \E kept \in Seq(Change) :
            /\ buffer' = buffer \o kept
            /\ \A i \in RecordsOf(c, kept) : kept[i].value = frame'[c]
            /\ RecordsOf(c, kept) = {} => c \notin missed /\ frame'[c] = frame[c]
<1>1. PICK room \in 0 .. Len(changes) :
          /\ buffer' = buffer \o SubSeq(changes, 1, room)
          /\ missed' = (missed \ ControlsOf(SubSeq(changes, 1, room)))
                          \cup ControlsOf(SubSeq(changes, room + 1, Len(changes)))
  BY Kept DEF TypeOK
<1> DEFINE kept == SubSeq(changes, 1, room)
           lost == SubSeq(changes, room + 1, Len(changes))
<1>2. /\ kept \in Seq(Change) /\ Len(kept) = room
      /\ lost \in Seq(Change) /\ Len(lost) = Len(changes) - room
      /\ \A i \in 1 .. room : kept[i] = changes[i]
      /\ \A i \in 1 .. Len(changes) - room : lost[i] = changes[i + room]
      /\ Len(changes) \in Nat /\ room \in Nat /\ room <= Len(changes)
  BY Split
<1>3. buffer' = buffer \o kept /\ missed' = (missed \ ControlsOf(kept)) \cup ControlsOf(lost)
  BY <1>1
<1> HIDE DEF kept, lost
<1>4. \A i \in RecordsOf(c, kept) : i \in RecordsOf(c, changes) /\ kept[i] = changes[i]
  BY <1>2 DEF RecordsOf
<1>5. ASSUME NEW i \in RecordsOf(c, changes) PROVE i \in RecordsOf(c, kept)
  <2>1. i \in 1 .. Len(changes) /\ changes[i].control = c
    BY DEF RecordsOf
  <2>2. CASE i <= room
    BY <1>2, <2>1, <2>2 DEF RecordsOf
  <2>3. CASE i > room
    <3>1. i - room \in 1 .. Len(changes) - room /\ (i - room) + room = i
      BY <1>2, <2>1, <2>3
    <3>2. lost[i - room].control = c /\ i - room \in DOMAIN lost
      BY <1>2, <2>1, <3>1
    <3>3. c \in ControlsOf(lost)
      BY <3>2 DEF ControlsOf
    <3> QED
      BY <1>3, <3>3
  <2> QED
    BY <1>2, <2>1, <2>2, <2>3
<1>6. RecordsOf(c, kept) = {} => c \notin ControlsOf(kept)
  BY DEF ControlsOf, RecordsOf
<1>7. RecordsOf(c, kept) = {} => c \notin missed /\ frame'[c] = frame[c]
  <2>1. RecordsOf(c, kept) = {} => RecordsOf(c, changes) = {}
    BY <1>5
  <2>2. RecordsOf(c, kept) = {} => c \notin missed
    BY <1>3, <1>6
  <2> QED
    BY <2>1, <2>2
<1>8. \A i \in RecordsOf(c, kept) : kept[i].value = frame'[c]
  BY <1>4
<1>9. kept \in Seq(Change) /\ buffer' = buffer \o kept
  BY <1>2, <1>3
<1> QED
  BY <1>7, <1>8, <1>9

\* The driver buffers changes of what it reports: a control's records have the
\* value it has after, and one without a record keeps the value it had.
LEMMA DeviceChanges ==
  ASSUME TypeOK, ThreadInv, Device, acquired'
  PROVE  /\ acquired
         /\ \E changes \in Seq(Change) :
              /\ Buffered(changes)
              /\ \A c \in Controls :
                  /\ \A i \in RecordsOf(c, changes) : changes[i].value = frame'[c]
                  /\ RecordsOf(c, changes) = {} => frame'[c] = frame[c]
<1>1. acquired /\ plugged
  BY DeviceEffect DEF ThreadInv
<1>2. ASSUME NEW d \in Controls, NEW v \in 0 .. AxisMax \cup {1}, Move(d, v)
      PROVE  \E changes \in Seq(Change) :
                /\ Buffered(changes)
                /\ \A c \in Controls :
                    /\ \A i \in RecordsOf(c, changes) : changes[i].value = frame'[c]
                    /\ RecordsOf(c, changes) = {} => frame'[c] = frame[c]
  <2> DEFINE changes == <<[control |-> d, value |-> v]>>
  <2>1. changes \in Seq(Change) /\ Buffered(changes)
    BY <1>2 DEF Change, Move
  <2>2. ASSUME NEW c \in Controls
        PROVE  /\ \A i \in RecordsOf(c, changes) : changes[i].value = frame'[c]
               /\ RecordsOf(c, changes) = {} => frame'[c] = frame[c]
    <3>1. \A i \in RecordsOf(c, changes) : c = d /\ changes[i].value = v
      BY DEF RecordsOf
    <3>2. c = d => 1 \in RecordsOf(c, changes)
      BY DEF RecordsOf
    <3>3. frame'[c] = IF c = d THEN v ELSE frame[c]
      BY <1>2, Domains DEF Move, TypeOK
    <3> HIDE DEF changes
    <3> QED
      BY <3>1, <3>2, <3>3
  <2> HIDE DEF changes
  <2> QED
    BY <2>1, <2>2
<1>3. ASSUME NEW f \in Frames, Publish(f)
      PROVE  \E changes \in Seq(Change) :
                /\ Buffered(changes)
                /\ \A c \in Controls :
                    /\ \A i \in RecordsOf(c, changes) : changes[i].value = frame'[c]
                    /\ RecordsOf(c, changes) = {} => frame'[c] = frame[c]
  <2> DEFINE changed == {d \in Controls : f[d] # frame[d]}
  <2>1. PICK order \in [1 .. Cardinality(changed) -> changed] :
            /\ \A d \in changed : \E i \in DOMAIN order : order[i] = d
            /\ Buffered([i \in DOMAIN order |-> [control |-> order[i], value |-> f[order[i]]]])
    BY <1>3 DEF Publish
  <2>2. Cardinality(changed) \in Nat
    BY Domains, FS_Subset, FS_CardinalityType
  <2> DEFINE changes == [i \in DOMAIN order |-> [control |-> order[i], value |-> f[order[i]]]]
  <2>3. changes \in [1 .. Cardinality(changed) -> Change]
    BY Domains DEF Change
  <2>4. changes \in Seq(Change)
    BY <2>2, <2>3, FunctionSeq
  <2>5. ASSUME NEW c \in Controls, NEW i \in RecordsOf(c, changes)
        PROVE  changes[i].value = f[c]
    <3>1. i \in DOMAIN changes /\ changes[i].control = c
      BY DEF RecordsOf
    <3>2. changes[i] = [control |-> order[i], value |-> f[order[i]]]
      BY <3>1
    <3> HIDE DEF changes
    <3> QED
      BY <3>1, <3>2
  <2>6. \A c \in changed : RecordsOf(c, changes) # {}
    BY <2>1 DEF RecordsOf
  <2>7. Buffered(changes)
    BY <2>1
  <2>8. frame' = f
    BY <1>3 DEF Publish
  <2> HIDE DEF changes
  <2> QED
    BY <2>4, <2>5, <2>6, <2>7, <2>8
<1>4. CASE LoseInput \/ Unplug
  BY <1>4 DEF LoseInput, Unplug
<1>5. CASE Plug
  BY <1>1, <1>5 DEF Plug
<1> QED
  BY <1>1, <1>2, <1>3, <1>4, <1>5 DEF Device

\* So the buffer only grows, and ends with the value of a control that lost none
\* of its own changes.
LEMMA DeviceAdds ==
  ASSUME TypeOK, ThreadInv, Device, acquired'
  PROVE  /\ \E kept \in Seq(Change) : buffer' = buffer \o kept
         /\ \A c \in Controls \ missed' : \E kept \in Seq(Change) :
              /\ buffer' = buffer \o kept
              /\ \A i \in RecordsOf(c, kept) : kept[i].value = frame'[c]
              /\ RecordsOf(c, kept) = {} => c \notin missed /\ frame'[c] = frame[c]
<1>1. PICK changes \in Seq(Change) :
          /\ Buffered(changes)
          /\ \A c \in Controls :
              /\ \A i \in RecordsOf(c, changes) : changes[i].value = frame'[c]
              /\ RecordsOf(c, changes) = {} => frame'[c] = frame[c]
  BY DeviceChanges
<1>2. acquired
  BY DeviceChanges
<1>3. \E kept \in Seq(Change) : buffer' = buffer \o kept
  <2>1. PICK room \in 0 .. Len(changes) : buffer' = buffer \o SubSeq(changes, 1, room)
    BY <1>1, <1>2, Kept DEF TypeOK
  <2>2. SubSeq(changes, 1, room) \in Seq(Change)
    BY Split
  <2> QED
    BY <2>1, <2>2
<1>4. ASSUME NEW c \in Controls \ missed'
      PROVE  \E kept \in Seq(Change) :
                /\ buffer' = buffer \o kept
                /\ \A i \in RecordsOf(c, kept) : kept[i].value = frame'[c]
                /\ RecordsOf(c, kept) = {} => c \notin missed /\ frame'[c] = frame[c]
  BY <1>1, <1>2, KeptReal
<1> QED
  BY <1>3, <1>4

\* So the device's steps keep what is replayed.
LEMMA DeviceReplay == ASSUME TypeOK, ThreadInv, ReplayInv, Device PROVE ReplayInv'
<1> SUFFICES ASSUME acquired', dpc' \in {"loop", "read", "overflow"},
                    NEW c \in Controls, c \notin missed'
             PROVE  Replays(c)'
  BY DEF ReplayInv
<1>1. acquired /\ dpc \in {"loop", "read", "overflow"} /\ state' = state
  BY DeviceEffect
<1>2. PICK kept \in Seq(Change) :
          /\ buffer' = buffer \o kept
          /\ \A i \in RecordsOf(c, kept) : kept[i].value = frame'[c]
          /\ RecordsOf(c, kept) = {} => c \notin missed /\ frame'[c] = frame[c]
  BY DeviceAdds
<1>3. c \notin missed => Replays(c)
  BY <1>1 DEF ReplayInv
<1> QED
  BY <1>1, <1>2, <1>3, ReplaysAppended

\* And what is known while the buffer is drained.
LEMMA DeviceDrain == ASSUME TypeOK, ThreadInv, DrainInv, Device PROVE DrainInv'
<1> SUFFICES ASSUME acquired', dpc' = "drain"
             PROVE  /\ seen' <= Len(buffer')
                    /\ \A c \in Controls \ missed' :
                        state'[c] = frame'[c] \/ \E i \in RecordsOf(c, buffer') : i > seen'
  BY DEF DrainInv
<1>1. acquired /\ plugged /\ dpc = "drain" /\ state' = state /\ seen' = seen
  BY DeviceEffect DEF ThreadInv
<1>2. /\ seen \in Nat /\ seen <= Len(buffer) /\ Len(buffer) \in Nat /\ buffer \in Seq(Change)
      /\ \A c \in Controls \ missed :
            state[c] = frame[c] \/ \E i \in RecordsOf(c, buffer) : i > seen
  BY <1>1, Domains DEF DrainInv, TypeOK
<1>3. ASSUME NEW c \in Controls, c \notin missed'
      PROVE  state[c] = frame'[c] \/ \E i \in RecordsOf(c, buffer') : i > seen
  <2>1. PICK kept \in Seq(Change) :
            /\ buffer' = buffer \o kept
            /\ RecordsOf(c, kept) = {} => c \notin missed /\ frame'[c] = frame[c]
    BY <1>3, DeviceAdds
  <2>2. /\ Len(kept) \in Nat /\ Len(buffer') = Len(buffer) + Len(kept)
        /\ buffer' \in Seq(Change)
        /\ \A i \in 1 .. Len(buffer) : buffer'[i] = buffer[i]
        /\ \A i \in 1 .. Len(kept) : buffer'[i + Len(buffer)] = kept[i]
    BY <1>2, <2>1
  <2>3. ASSUME NEW i \in RecordsOf(c, buffer) PROVE i \in RecordsOf(c, buffer')
    <3>1. i \in 1 .. Len(buffer) /\ buffer[i].control = c
      BY <1>2 DEF RecordsOf
    <3>2. i \in 1 .. Len(buffer') /\ buffer'[i] = buffer[i]
      BY <1>2, <2>2, <3>1
    <3> QED
      BY <2>2, <3>1, <3>2 DEF RecordsOf
  <2>4. CASE RecordsOf(c, kept) = {}
    BY <1>2, <1>3, <2>1, <2>2, <2>3, <2>4
  <2>5. CASE RecordsOf(c, kept) # {}
    <3>1. PICK k \in RecordsOf(c, kept) : TRUE
      BY <2>5
    <3>2. k \in 1 .. Len(kept) /\ kept[k].control = c
      BY DEF RecordsOf
    <3>3. k + Len(buffer) \in RecordsOf(c, buffer') /\ k + Len(buffer) > seen
      BY <1>2, <2>2, <3>2 DEF RecordsOf
    <3> QED
      BY <1>2, <2>2, <3>3
  <2> QED
    BY <2>4, <2>5
<1>4. seen <= Len(buffer')
  <2>1. PICK kept \in Seq(Change) : buffer' = buffer \o kept
    BY DeviceAdds
  <2> QED
    BY <1>2, <2>1
<1> QED
  BY <1>1, <1>3, <1>4

\* The thread reads on.
LEMMA ReadReplay == ASSUME TypeOK, ReplayInv, Read PROVE ReplayInv'
<1> SUFFICES ASSUME acquired', dpc' \in {"loop", "read", "overflow"},
                    NEW c \in Controls, c \notin missed'
             PROVE  Replays(c)'
  BY DEF ReplayInv
<1> DEFINE n == AtMost(Batch, buffer)
           rs == SubSeq(buffer, 1, n)
           rest == SubSeq(buffer, n + 1, Len(buffer))
<1>1. /\ EmitRecords(rs) /\ buffer' = rest /\ frame' = frame
      /\ acquired /\ dpc = "read" /\ c \notin missed
  BY DEF Read, TypeOK
<1>2. n \in 0 .. Len(buffer) /\ Len(buffer) \in Nat
  BY Domains, AtMostBounds DEF TypeOK
<1>3. /\ rs \in Seq(Change) /\ Len(rs) = n /\ rest \in Seq(Change) /\ Len(rest) = Len(buffer) - n
      /\ \A i \in 1 .. n : rs[i] = buffer[i]
      /\ \A i \in 1 .. Len(buffer) - n : rest[i] = buffer[i + n]
  BY <1>2, Split DEF TypeOK
<1> HIDE DEF n, rs, rest
<1>4. ASSUME NEW i \in RecordsOf(c, rs)
      PROVE  i \in RecordsOf(c, buffer) /\ rs[i] = buffer[i] /\ i <= n
  <2>1. i \in 1 .. n /\ rs[i].control = c
    BY <1>2, <1>3 DEF RecordsOf
  <2>2. rs[i] = buffer[i] /\ i \in 1 .. Len(buffer) /\ i <= n
    BY <1>2, <1>3, <2>1
  <2>3. DOMAIN buffer = 1 .. Len(buffer)
    BY DEF TypeOK
  <2> QED
    BY <2>1, <2>2, <2>3 DEF RecordsOf
<1>5. ASSUME NEW i \in RecordsOf(c, rest)
      PROVE  i + n \in RecordsOf(c, buffer) /\ rest[i] = buffer[i + n]
  <2>1. i \in 1 .. Len(rest) /\ rest[i].control = c
    BY <1>3 DEF RecordsOf
  <2>2. i \in 1 .. Len(buffer) - n /\ i + n \in 1 .. Len(buffer)
    BY <1>2, <1>3, <2>1
  <2>3. rest[i] = buffer[i + n]
    BY <1>3, <2>2
  <2>4. DOMAIN buffer = 1 .. Len(buffer)
    BY DEF TypeOK
  <2> QED
    BY <2>1, <2>2, <2>3, <2>4 DEF RecordsOf
<1>6. ASSUME NEW i \in RecordsOf(c, buffer)
      PROVE  i \in RecordsOf(c, rs) \/ (i - n \in RecordsOf(c, rest) /\ i \in Nat)
  <2>1. i \in 1 .. Len(buffer) /\ buffer[i].control = c
    BY DEF RecordsOf, TypeOK
  <2>2. CASE i <= n
    BY <1>2, <1>3, <2>1, <2>2 DEF RecordsOf
  <2>3. CASE i > n
    <3>1. i - n \in 1 .. Len(rest) /\ (i - n) + n = i
      BY <1>2, <1>3, <2>1, <2>3
    <3>2. rest[i - n] = buffer[i]
      BY <1>3, <3>1
    <3> QED
      BY <1>3, <2>1, <3>1, <3>2 DEF RecordsOf
  <2> QED
    BY <1>2, <2>1, <2>2, <2>3
<1>7. Replays(c)
  BY <1>1 DEF ReplayInv
<1>8. ASSUME RecordsOf(c, rest) = {} PROVE state'[c] = frame[c]
  <2> DEFINE changed == {d \in Controls : \E i \in RecordsOf(d, rs) : rs[i].value # state[d]}
  <2>1. state'[c] = IF c \in changed THEN LastOf(c, rs) ELSE state[c]
    BY <1>1 DEF EmitRecords, Emit
  <2>2. CASE RecordsOf(c, rs) = {}
    <3>1. RecordsOf(c, buffer) = {} /\ c \notin changed
      BY <1>6, <1>8, <2>2
    <3> QED
      BY <1>7, <2>1, <3>1 DEF Replays
  <2>3. CASE RecordsOf(c, rs) # {}
    <3>1. PICK i \in RecordsOf(c, rs) :
              (\A j \in RecordsOf(c, rs) : j <= i) /\ LastOf(c, rs) = rs[i].value
      BY <1>3, <2>3, LastRecord
    <3>2. \A j \in RecordsOf(c, buffer) : j <= i
      BY <1>6, <1>8, <3>1
    <3>3. rs[i].value = frame[c]
      BY <1>4, <1>7, <3>2 DEF Replays
    <3> QED
      BY <2>1, <3>1, <3>3
  <2> QED
    BY <2>2, <2>3
<1>9. ASSUME NEW i \in RecordsOf(c, rest), \A j \in RecordsOf(c, rest) : j <= i
      PROVE  rest[i].value = frame[c]
  <2>1. i \in Nat \ {0}
    BY <1>3 DEF RecordsOf
  <2>2. ASSUME NEW j \in RecordsOf(c, buffer) PROVE j <= i + n
    <3>1. CASE j \in RecordsOf(c, rs)
      <4>1. j <= n /\ j \in Nat
        BY <1>3, <1>4, <3>1 DEF RecordsOf
      <4> QED
        BY <1>2, <2>1, <4>1
    <3>2. CASE j - n \in RecordsOf(c, rest) /\ j \in Nat
      <4>1. j - n <= i
        BY <1>9, <3>2
      <4> QED
        BY <1>2, <2>1, <3>2, <4>1
    <3> QED
      BY <1>6, <3>1, <3>2
  <2> QED
    BY <1>5, <1>7, <2>2 DEF Replays
<1> QED
  BY <1>1, <1>8, <1>9 DEF Replays

\* A record that came after the state was read and is thrown away marks its
\* control as missed.
LEMMA DrainedAreMissed ==
  ASSUME TypeOK, Drain, NEW c, c \notin missed', NEW i \in RecordsOf(c, buffer), i > seen
  PROVE  ~ (i <= AtMost(Batch, buffer))
<1> DEFINE n == AtMost(Batch, buffer)
           thrown == SubSeq(buffer, seen + 1, n)
<1>1. n \in 0 .. Len(buffer) /\ Len(buffer) \in Nat /\ seen \in Nat
  <2>1. n \in 0 .. Len(buffer)
    BY Domains, AtMostBounds DEF TypeOK
  <2>2. Len(buffer) \in Nat /\ seen \in Nat
    BY Domains DEF TypeOK
  <2> QED
    BY <2>1, <2>2
<1>2. i \in 1 .. Len(buffer) /\ buffer[i].control = c
  BY DEF RecordsOf, TypeOK
<1>3. c \notin ControlsOf(thrown)
  BY DEF Drain
<1> HIDE DEF n
<1>4. ASSUME i <= n PROVE FALSE
  <2>1. i - seen \in DOMAIN thrown /\ thrown[i - seen] = buffer[i]
    BY <1>1, <1>2, <1>4 DEF TypeOK
  <2> HIDE DEF thrown
  <2> QED
    BY <1>2, <1>3, <2>1 DEF ControlsOf
<1> QED
  BY <1>4 DEF n

\* The thread compares the frame with what it knows.
LEMMA FrameReal ==
  ASSUME TypeOK, Reconcile
  PROVE  \A c \in Controls : state'[c] = frame'[c]
<1>1. frame' = frame
  BY DEF Reconcile
<1>2. CASE emit
  BY <1>1, <1>2 DEF Reconcile, EmitFrame, Emit
<1>3. CASE ~ emit
  BY <1>1, <1>3 DEF Reconcile, SyncAll
<1> QED
  BY <1>2, <1>3

\* A control that is not marked as missed is replayed to the value it has.
LEMMA ReplayStep ==
  ASSUME TypeOK, ThreadInv, ReplayInv, DrainInv, [Next]_vars
  PROVE  ReplayInv'
<1>1. CASE Initialize
  BY <1>1 DEF Initialize, ThreadInv, ReplayInv
<1>2. CASE Acquire \/ Settle \/ ReadFails
  BY <1>2 DEF Acquire, Settle, ReadFails, ReplayInv
<1>3. CASE GiveUp
  BY <1>3 DEF GiveUp, ThreadInv, ReplayInv
<1>4. CASE Reconcile
  <2> SUFFICES ASSUME dpc' \in {"loop", "read", "overflow"}, NEW c \in Controls, c \notin missed'
               PROVE  Replays(c)'
    BY <1>4 DEF ReplayInv
  <2>1. /\ acquired /\ dpc = "overflow" /\ buffer' = buffer /\ frame' = frame
        /\ c \notin missed \/ RecordsOf(c, buffer) = {}
    BY <1>4 DEF Reconcile, FrameRead
  <2>2. state'[c] = frame'[c]
    BY <1>4, FrameReal
  <2>3. c \notin missed => Replays(c)
    BY <2>1 DEF ReplayInv
  <2> QED
    BY <2>1, <2>2, <2>3 DEF Replays
<1>5. CASE Drain
  <2> SUFFICES ASSUME acquired', dpc' \in {"loop", "read", "overflow"},
                      NEW c \in Controls, c \notin missed'
               PROVE  Replays(c)'
    BY DEF ReplayInv
  <2>1. AtMost(Batch, buffer) < Batch
    BY <1>5 DEF Drain, AfterDrain
  <2>2. AtMost(Batch, buffer) = Len(buffer) /\ Len(buffer) \in Nat
    BY <2>1, Domains DEF AtMost, TypeOK
  <2>3. buffer' = << >>
    BY <1>5, <2>2 DEF Drain, TypeOK
  <2>4. ASSUME NEW i \in RecordsOf(c, buffer), i > seen PROVE FALSE
    <3>1. ~ (i <= AtMost(Batch, buffer))
      BY <1>5, <2>4, DrainedAreMissed
    <3>2. i \in 1 .. Len(buffer)
      BY DEF RecordsOf, TypeOK
    <3> QED
      BY <2>2, <3>1, <3>2
  <2>5. state'[c] = frame'[c]
    BY <1>5, <2>4 DEF Drain, DrainInv
  <2> QED
    BY <2>3, <2>5 DEF Replays, RecordsOf
<1>6. CASE Poll
  BY <1>6 DEF Poll, ReplayInv, Replays
<1>7. CASE Detach \/ Stop
  BY <1>7 DEF Detach, Stop, Released, ReplayInv
<1>8. CASE UNCHANGED vars
  BY <1>8 DEF vars, ReplayInv, Replays
<1> QED
  BY <1>1, <1>2, <1>3, <1>4, <1>5, <1>6, <1>7, <1>8, DeviceReplay, ReadReplay DEF Next, Thread

\* What is known of a control while the buffer is drained.
LEMMA DrainStep ==
  ASSUME TypeOK, ThreadInv, DrainInv, [Next]_vars
  PROVE  DrainInv'
<1>1. CASE Initialize \/ Acquire \/ Settle \/ GiveUp \/ Poll \/ Read \/ ReadFails
  BY <1>1 DEF Initialize, Acquire, Settle, GiveUp, Poll, Read, ReadFails, DrainInv
<1>2. CASE Reconcile
  <2> SUFFICES ASSUME dpc' = "drain" PROVE seen' <= Len(buffer')
    BY <1>2, FrameReal DEF DrainInv
  <2>1. seen' = Len(buffer) /\ buffer' = buffer /\ Len(buffer) \in Nat
    BY <1>2 DEF Reconcile, FrameRead, TypeOK
  <2> QED
    BY <2>1
<1>3. CASE Drain
  <2> SUFFICES ASSUME acquired', dpc' = "drain"
               PROVE  /\ seen' <= Len(buffer')
                      /\ \A c \in Controls \ missed' :
                          state'[c] = frame'[c] \/ \E i \in RecordsOf(c, buffer') : i > seen'
    BY DEF DrainInv
  <2> DEFINE n == AtMost(Batch, buffer)
             rest == SubSeq(buffer, n + 1, Len(buffer))
  <2>1. n \in 0 .. Len(buffer)
    BY Domains, AtMostBounds DEF TypeOK
  <2>2. /\ buffer' = rest /\ state' = state /\ frame' = frame
        /\ seen' = (IF seen > n THEN seen - n ELSE 0)
        /\ \A c \in Controls : c \notin missed' => c \notin missed
    BY <1>3 DEF Drain
  <2>3. ASSUME NEW c \in Controls, c \notin missed', NEW i \in RecordsOf(c, buffer), i > seen
        PROVE  ~ (i <= n)
    BY <1>3, <2>3, DrainedAreMissed
  <2> HIDE DEF n
  <2>4. /\ n \in Nat /\ Len(buffer) \in Nat /\ n <= Len(buffer) /\ seen \in Nat
        /\ Len(rest) = Len(buffer) - n /\ rest \in Seq(Change)
        /\ \A i \in 1 .. Len(buffer) - n : rest[i] = buffer[i + n]
    BY <2>1, Split, Domains DEF TypeOK
  <2> HIDE DEF rest
  <2>5. /\ seen <= Len(buffer)
        /\ \A c \in Controls \ missed :
              state[c] = frame[c] \/ \E i \in RecordsOf(c, buffer) : i > seen
    BY <1>3 DEF Drain, DrainInv
  <2>6. seen' <= Len(buffer')
    BY <2>2, <2>4, <2>5
  <2>7. ASSUME NEW c \in Controls, c \notin missed', state[c] # frame[c]
        PROVE  \E i \in RecordsOf(c, rest) : i > seen'
    <3>1. PICK i \in RecordsOf(c, buffer) : i > seen
      BY <2>2, <2>5, <2>7
    <3>2. i \in 1 .. Len(buffer) /\ buffer[i].control = c /\ ~ (i <= n)
      BY <2>3, <2>7, <3>1 DEF RecordsOf, TypeOK
    <3>3. i - n \in 1 .. Len(buffer) - n /\ (i - n) + n = i
      BY <2>4, <3>2
    <3>4. i - n \in RecordsOf(c, rest)
      BY <2>4, <3>2, <3>3 DEF RecordsOf
    <3>5. i - n > seen'
      BY <2>2, <2>4, <3>1, <3>2
    <3> QED
      BY <3>4, <3>5
  <2> QED
    BY <2>2, <2>6, <2>7
<1>4. CASE Detach \/ Stop
  BY <1>4 DEF Detach, Stop, Released, DrainInv
<1>5. CASE UNCHANGED vars
  BY <1>5 DEF vars, DrainInv
<1> QED
  BY <1>1, <1>2, <1>3, <1>4, <1>5, DeviceDrain DEF Next, Thread

-----------------------------------------------------------------------------
(* The theorems *)

\* The parts of the invariant hold together, whatever the device does between
\* the calls of the thread.
THEOREM DeviceCorrect == Spec => []DeviceInv
<1>1. Init => DeviceInv
  <2> SUFFICES ASSUME Init PROVE DeviceInv
    OBVIOUS
  <2>1. ThreadInv /\ SettleInv /\ ReplayInv /\ DrainInv
    BY DEF Init, ThreadInv, SettleInv, ReplayInv, DrainInv
  <2>2. PressInv
    BY ButtonsAreControls DEF Init, PressInv, Unread
  <2> QED
    BY <2>1, <2>2, InitType DEF DeviceInv
<1>2. DeviceInv /\ [Next]_vars => DeviceInv'
  <2> SUFFICES ASSUME DeviceInv, [Next]_vars PROVE DeviceInv'
    OBVIOUS
  <2>1. TypeOK /\ ThreadInv /\ PressInv /\ SettleInv /\ ReplayInv /\ DrainInv
    BY DEF DeviceInv
  <2>2. TypeOK'
    BY <2>1, DeviceType, ThreadType, StutterType DEF Next
  <2>3. ThreadInv'
    <3>1. CASE UNCHANGED vars
      BY <2>1, <3>1 DEF ThreadInv, vars
    <3> QED
      BY <2>1, <3>1, DeviceThreadInv, ThreadThreadInv DEF Next
  <2>4. PressInv' /\ SettleInv' /\ ReplayInv' /\ DrainInv'
    BY <2>1, PressStep, SettleStep, ReplayStep, DrainStep
  <2> QED
    BY <2>2, <2>3, <2>4 DEF DeviceInv
<1> QED
  BY <1>1, <1>2, PTL DEF Spec

\* Every press the sink was told of can still be taken back.
THEOREM PressesHeld == Spec => []PressesAreHeld
<1>1. DeviceInv => PressesAreHeld
  BY DEF DeviceInv, PressInv, PressesAreHeld
<1> QED
  BY <1>1, DeviceCorrect, PTL

\* After the settling rounds every position the sink knows was measured, if the
\* driver published before the last of their sleeps ended.
THEOREM SettledIsReal == Spec => []SettledTellsReal
<1>1. DeviceInv => SettledTellsReal
  BY DEF DeviceInv, SettleInv, SettledTellsReal
<1> QED
  BY <1>1, DeviceCorrect, PTL

\* A quiet device is known as it is, except for a control whose latest change was
\* lost to a full buffer or thrown away after the state was read.
THEOREM CatchesUp == Spec => []CatchesUpUnlessMissed
<1>1. DeviceInv => CatchesUpUnlessMissed
  BY DEF DeviceInv, ReplayInv, Replays, RecordsOf, Quiet, CatchesUpUnlessMissed
<1> QED
  BY <1>1, DeviceCorrect, PTL

=============================================================================
