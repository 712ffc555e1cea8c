------------------------ MODULE DirectInputRun_proofs ------------------------
(***************************************************************************)
(* Proofs about the DirectInput backend as a whole: for any devices, any   *)
(* of which may refuse to be opened, and whatever call fails when.         *)
(***************************************************************************)
EXTENDS DirectInputRun, InputFormat_proofs

-----------------------------------------------------------------------------
(* What run holds *)

\* The types the resources depend on.
CoreType ==
    /\ rpc \in Phases /\ callerWindow \in {"none", "valid", "gone"}
    /\ ready \in {"none", "ok", "err"}
    /\ present \subseteq Devices /\ seen \subseteq Devices /\ todo \subseteq seen
    /\ opening \in Devices \cup {None}
    /\ entry \in [Devices -> {"absent", "known", "open", "empty"}]
    /\ objects \in [Devices -> Int]
    /\ DOMAIN held = Devices

Synced == {"enumerate", "open", "configure", "ready", "loop"}

\* Where in the life of run the window and DirectInput exist, and whose window
\* it is.
WindowInv ==
    /\ rpc = "window" => window = "none"
    /\ rpc \in Synced \cup {"directInput", "release", "releaseDirectInput"} =>
            window \in {"caller", "own"}
    /\ rpc = "destroyWindow" => window \in {"none", "caller", "own"}
    /\ rpc = "returned" => window \in {"none", "caller", "destroyed"}
    /\ callerWindow # "none" => window \in {"none", "caller"}
    /\ directInput = "up" <=> rpc \in Synced \cup {"release", "releaseDirectInput"}

\* When Start has its answer, and devices are listed.
AnswerInv ==
    /\ rpc \in {"loop", "release", "releaseDirectInput", "destroyWindow", "returned"} =>
            ready # "none"
    /\ rpc = "ready" => ready = "none"
    /\ listed # {} => rpc \in Synced \cup {"release"}

\* Entries exist between the first enumeration and the release, and each has
\* the object it can release; only an open one holds buttons down.
EntriesInv ==
    /\ Entries # {} => rpc \in Synced \cup {"release"}
    /\ opening # None <=> rpc = "configure"
    /\ opening # None => entry[opening] = "known"
    /\ \A d \in Devices : objects[d] = IF entry[d] = "open" \/ opening = d THEN 1 ELSE 0
    /\ \A d \in Devices : held[d] # {} => entry[d] = "open"

RunInv == CoreType /\ WindowInv /\ AnswerInv /\ EntriesInv

\* An instance that is being opened is a device.
LEMMA NoneIsNoDevice == None \notin Devices
BY RunAssumption

\* Steps that leave the devices alone.
Stationary ==
    \/ WindowFound \/ WindowFails \/ CreateDirectInput \/ CreateDirectInputFails
    \/ EnumDevices \/ EnumDevicesFails \/ SetDevices \/ Ready \/ Rescan \/ WindowLost \/ Stops
    \/ Unlist \/ ReleaseDirectInput \/ DestroyWindow

\* Steps on the way up, around the loop and on the way down.
LEMMA StationaryInv == ASSUME RunInv, Stationary PROVE RunInv'
<1> USE DEF RunInv, Goes, surroundings, resources, devices, sync, outside
<1>1. UNCHANGED <<objects, entry, held, opening>>
  BY DEF Stationary, WindowFound, WindowFails, CreateDirectInput, CreateDirectInputFails,
         EnumDevices, EnumDevicesFails, SetDevices, Ready, Rescan, WindowLost, Stops, Unlist,
         ReleaseDirectInput, DestroyWindow
<1>2. CoreType' /\ WindowInv' /\ AnswerInv'
  <2>1. CASE WindowFound
    <3>1. CoreType'
      BY <1>1, <2>1 DEF WindowFound, CoreType, Phases, Synced, Entries, EntriesInv
    <3>2. WindowInv'
      BY <1>1, <2>1 DEF WindowFound, CoreType, WindowInv, AnswerInv, Phases, Synced, Entries,
                        EntriesInv
    <3>3. AnswerInv'
      BY <1>1, <2>1 DEF WindowFound, CoreType, WindowInv, AnswerInv, Phases, Synced, Entries,
                        EntriesInv
    <3> QED
      BY <3>1, <3>2, <3>3
  <2>2. CASE WindowFails
    <3>1. CoreType'
      BY <1>1, <2>2 DEF WindowFails, CoreType, Phases, Synced, Entries, EntriesInv
    <3>2. WindowInv'
      BY <1>1, <2>2 DEF WindowFails, CoreType, WindowInv, AnswerInv, Phases, Synced, Entries,
                        EntriesInv
    <3>3. AnswerInv'
      BY <1>1, <2>2 DEF WindowFails, CoreType, WindowInv, AnswerInv, Phases, Synced, Entries,
                        EntriesInv
    <3> QED
      BY <3>1, <3>2, <3>3
  <2>3. CASE CreateDirectInput
    <3>1. CoreType'
      BY <1>1, <2>3 DEF CreateDirectInput, CoreType, Phases, Synced, Entries, EntriesInv
    <3>2. WindowInv'
      BY <1>1, <2>3 DEF CreateDirectInput, CoreType, WindowInv, AnswerInv, Phases, Synced,
                        Entries, EntriesInv
    <3>3. AnswerInv'
      BY <1>1, <2>3 DEF CreateDirectInput, CoreType, WindowInv, AnswerInv, Phases, Synced,
                        Entries, EntriesInv
    <3> QED
      BY <3>1, <3>2, <3>3
  <2>4. CASE CreateDirectInputFails
    <3>1. CoreType'
      BY <1>1, <2>4 DEF CreateDirectInputFails, CoreType, Phases, Synced, Entries, EntriesInv
    <3>2. WindowInv'
      BY <1>1, <2>4 DEF CreateDirectInputFails, CoreType, WindowInv, AnswerInv, Phases, Synced,
                        Entries, EntriesInv
    <3>3. AnswerInv'
      BY <1>1, <2>4 DEF CreateDirectInputFails, CoreType, WindowInv, AnswerInv, Phases, Synced,
                        Entries, EntriesInv
    <3> QED
      BY <3>1, <3>2, <3>3
  <2>5. CASE EnumDevices
    <3>1. CoreType'
      BY <1>1, <2>5 DEF EnumDevices, CoreType, Phases, Synced, Entries, EntriesInv
    <3>2. WindowInv'
      BY <1>1, <2>5 DEF EnumDevices, CoreType, WindowInv, AnswerInv, Phases, Synced, Entries,
                        EntriesInv
    <3>3. AnswerInv'
      BY <1>1, <2>5 DEF EnumDevices, CoreType, WindowInv, AnswerInv, Phases, Synced, Entries,
                        EntriesInv
    <3> QED
      BY <3>1, <3>2, <3>3
  <2>6. CASE EnumDevicesFails
    <3>1. CoreType'
      BY <1>1, <2>6 DEF EnumDevicesFails, CoreType, Phases, Synced, Entries, EntriesInv
    <3>2. WindowInv'
      BY <1>1, <2>6 DEF EnumDevicesFails, CoreType, WindowInv, AnswerInv, Phases, Synced,
                        Entries, EntriesInv
    <3>3. AnswerInv'
      BY <1>1, <2>6 DEF EnumDevicesFails, CoreType, WindowInv, AnswerInv, Phases, Synced,
                        Entries, EntriesInv
    <3> QED
      BY <3>1, <3>2, <3>3
  <2>7. CASE SetDevices
    <3>1. CoreType'
      BY <1>1, <2>7 DEF SetDevices, CoreType, Phases, Synced, Entries, EntriesInv
    <3>2. WindowInv'
      BY <1>1, <2>7 DEF SetDevices, CoreType, WindowInv, AnswerInv, Phases, Synced, Entries,
                        EntriesInv
    <3>3. AnswerInv'
      BY <1>1, <2>7 DEF SetDevices, CoreType, WindowInv, AnswerInv, Phases, Synced, Entries,
                        EntriesInv
    <3> QED
      BY <3>1, <3>2, <3>3
  <2>8. CASE Ready
    <3>1. CoreType'
      BY <1>1, <2>8 DEF Ready, CoreType, Phases, Synced, Entries, EntriesInv
    <3>2. WindowInv'
      BY <1>1, <2>8 DEF Ready, CoreType, WindowInv, AnswerInv, Phases, Synced, Entries,
                        EntriesInv
    <3>3. AnswerInv'
      BY <1>1, <2>8 DEF Ready, CoreType, WindowInv, AnswerInv, Phases, Synced, Entries,
                        EntriesInv
    <3> QED
      BY <3>1, <3>2, <3>3
  <2>9. CASE Rescan
    <3>1. CoreType'
      BY <1>1, <2>9 DEF Rescan, CoreType, Phases, Synced, Entries, EntriesInv
    <3>2. WindowInv'
      BY <1>1, <2>9 DEF Rescan, CoreType, WindowInv, AnswerInv, Phases, Synced, Entries,
                        EntriesInv
    <3>3. AnswerInv'
      BY <1>1, <2>9 DEF Rescan, CoreType, WindowInv, AnswerInv, Phases, Synced, Entries,
                        EntriesInv
    <3> QED
      BY <3>1, <3>2, <3>3
  <2>10. CASE WindowLost
    <3>1. CoreType'
      BY <1>1, <2>10 DEF WindowLost, CoreType, Phases, Synced, Entries, EntriesInv
    <3>2. WindowInv'
      BY <1>1, <2>10 DEF WindowLost, CoreType, WindowInv, AnswerInv, Phases, Synced, Entries,
                         EntriesInv
    <3>3. AnswerInv'
      BY <1>1, <2>10 DEF WindowLost, CoreType, WindowInv, AnswerInv, Phases, Synced, Entries,
                         EntriesInv
    <3> QED
      BY <3>1, <3>2, <3>3
  <2>11. CASE Stops
    <3>1. CoreType'
      BY <1>1, <2>11 DEF Stops, CoreType, Phases, Synced, Entries, EntriesInv
    <3>2. WindowInv'
      BY <1>1, <2>11 DEF Stops, CoreType, WindowInv, AnswerInv, Phases, Synced, Entries,
                         EntriesInv
    <3>3. AnswerInv'
      BY <1>1, <2>11 DEF Stops, CoreType, WindowInv, AnswerInv, Phases, Synced, Entries,
                         EntriesInv
    <3> QED
      BY <3>1, <3>2, <3>3
  <2>12. CASE Unlist
    <3>1. CoreType'
      BY <1>1, <2>12 DEF Unlist, CoreType, Phases, Synced, Entries, EntriesInv
    <3>2. WindowInv'
      BY <1>1, <2>12 DEF Unlist, CoreType, WindowInv, AnswerInv, Phases, Synced, Entries,
                         EntriesInv
    <3>3. AnswerInv'
      BY <1>1, <2>12 DEF Unlist, CoreType, WindowInv, AnswerInv, Phases, Synced, Entries,
                         EntriesInv
    <3> QED
      BY <3>1, <3>2, <3>3
  <2>13. CASE ReleaseDirectInput
    <3>1. CoreType'
      BY <1>1, <2>13 DEF ReleaseDirectInput, CoreType, Phases, Synced, Entries, EntriesInv
    <3>2. WindowInv'
      BY <1>1, <2>13 DEF ReleaseDirectInput, CoreType, WindowInv, AnswerInv, Phases, Synced,
                         Entries, EntriesInv
    <3>3. AnswerInv'
      BY <1>1, <2>13 DEF ReleaseDirectInput, CoreType, WindowInv, AnswerInv, Phases, Synced,
                         Entries, EntriesInv
    <3> QED
      BY <3>1, <3>2, <3>3
  <2>14. CASE DestroyWindow
    <3>1. CoreType'
      BY <1>1, <2>14 DEF DestroyWindow, CoreType, Phases, Synced, Entries, EntriesInv
    <3>2. WindowInv'
      BY <1>1, <2>14 DEF DestroyWindow, CoreType, WindowInv, AnswerInv, Phases, Synced,
                         Entries, EntriesInv
    <3>3. AnswerInv'
      BY <1>1, <2>14 DEF DestroyWindow, CoreType, WindowInv, AnswerInv, Phases, Synced,
                         Entries, EntriesInv
    <3> QED
      BY <3>1, <3>2, <3>3
  <2> QED
    BY <2>1, <2>2, <2>3, <2>4, <2>5, <2>6, <2>7, <2>8, <2>9, <2>10, <2>11, <2>12, <2>13,
       <2>14 DEF Stationary
<1>3. EntriesInv'
  <2>1. Entries' = Entries
    BY <1>1 DEF Entries
  <2>2. rpc # "configure" /\ rpc' # "configure"
    BY DEF Stationary, WindowFound, WindowFails, CreateDirectInput, CreateDirectInputFails,
           EnumDevices, EnumDevicesFails, SetDevices, Ready, Rescan, WindowLost, Stops, Unlist,
           ReleaseDirectInput, DestroyWindow
  <2>3. Entries # {} => rpc' \in Synced \cup {"release"}
    BY DEF Stationary, WindowFound, WindowFails, CreateDirectInput, CreateDirectInputFails,
           EnumDevices, EnumDevicesFails, SetDevices, Ready, Rescan, WindowLost, Stops, Unlist,
           ReleaseDirectInput, DestroyWindow, EntriesInv, Synced
  <2> QED
    BY <1>1, <2>1, <2>2, <2>3 DEF EntriesInv
<1> QED
  BY <1>2, <1>3

\* Steps that begin to open a device, or find it opened.
LEMMA BeginsInv ==
  ASSUME RunInv, NEW d \in Devices,
         SyncInitialised(d) \/ CreateDevice(d) \/ CreateDeviceFails(d)
  PROVE  RunInv'
<1> USE DEF RunInv, Goes, surroundings, resources, devices, sync, outside, Handle
<1>1. /\ rpc = "open" /\ window \in {"caller", "own"} /\ opening = None /\ d \in seen
      /\ directInput = "up" /\ todo' \subseteq seen /\ rpc' \in {"open", "configure"}
      /\ UNCHANGED <<surroundings, window, directInput, outside, seen, held>>
  BY DEF SyncInitialised, CreateDevice, CreateDeviceFails, CoreType, WindowInv, EntriesInv,
         Synced
<1>2. CoreType'
  BY <1>1 DEF SyncInitialised, CreateDevice, CreateDeviceFails, CoreType, Phases
<1>3. WindowInv' /\ AnswerInv'
  BY <1>1 DEF WindowInv, AnswerInv, Synced
<1>4. EntriesInv'
  <2>1. CASE SyncInitialised(d)
    BY <1>1, <2>1 DEF SyncInitialised, EntriesInv, Entries, Synced
  <2>2. CASE CreateDevice(d)
    BY <1>1, <2>2, NoneIsNoDevice DEF CreateDevice, EntriesInv, Entries, Synced, CoreType
  <2>3. CASE CreateDeviceFails(d)
    BY <1>1, <2>3 DEF CreateDeviceFails, EntriesInv, Entries, Synced, CoreType
  <2> QED
    BY <2>1, <2>2, <2>3
<1> QED
  BY <1>2, <1>3, <1>4

\* Steps that end the opening of a device.
LEMMA EndsInv ==
  ASSUME RunInv, NEW d \in Devices, Configure(d) \/ ConfigureEmpty(d) \/ ConfigureFails(d)
  PROVE  RunInv'
<1> USE DEF RunInv, Goes, surroundings, resources, devices, sync, outside, Opened
<1>1. /\ rpc = "configure" /\ rpc' = "open" /\ d = opening /\ opening' = None
      /\ entry[d] = "known" /\ objects[d] = 1 /\ held[d] = {}
      /\ UNCHANGED <<surroundings, window, directInput, outside, seen, todo>>
  BY DEF Configure, ConfigureEmpty, ConfigureFails, EntriesInv
<1>2. CoreType'
  BY <1>1 DEF Configure, ConfigureEmpty, ConfigureFails, CoreType, Phases
<1>3. WindowInv' /\ AnswerInv'
  BY <1>1 DEF WindowInv, AnswerInv, Synced
<1>4. EntriesInv'
  <2>1. CASE Configure(d)
    BY <1>1, <2>1, NoneIsNoDevice DEF Configure, EntriesInv, Entries, Synced, CoreType
  <2>2. CASE ConfigureEmpty(d)
    BY <1>1, <2>2, NoneIsNoDevice DEF ConfigureEmpty, EntriesInv, Entries, Synced, CoreType
  <2>3. CASE ConfigureFails(d)
    BY <1>1, <2>3, NoneIsNoDevice DEF ConfigureFails, EntriesInv, Entries, Synced, CoreType
  <2> QED
    BY <2>1, <2>2, <2>3
<1> QED
  BY <1>2, <1>3, <1>4

\* Steps that take an entry out.
LEMMA LeavesInv ==
  ASSUME RunInv, NEW d \in Devices, Releasing(d)
  PROVE  RunInv'
<1> USE DEF RunInv, surroundings, resources, devices, sync, outside, ReleaseStays, Leaving
<1>1. /\ rpc \in {"open", "release"} /\ opening = None /\ entry[d] # "absent"
      /\ UNCHANGED <<surroundings, rpc, sync, window, directInput, outside>>
  BY DEF Releasing, ReleaseButton, ReleaseDevice, EntriesInv, Entries
<1>2. CoreType'
  BY <1>1 DEF Releasing, ReleaseButton, ReleaseDevice, CoreType
<1>3. WindowInv' /\ AnswerInv'
  BY <1>1 DEF WindowInv, AnswerInv, Synced
<1>4. EntriesInv'
  <2>1. CASE \E b \in held[d] : ReleaseButton(d, b)
    BY <1>1, <2>1 DEF ReleaseButton, EntriesInv, Entries, Synced, CoreType
  <2>2. CASE ReleaseDevice(d)
    BY <1>1, <2>2, NoneIsNoDevice DEF ReleaseDevice, EntriesInv, Entries, Synced, CoreType
  <2> QED
    BY <2>1, <2>2 DEF Releasing
<1> QED
  BY <1>2, <1>3, <1>4

\* A poll.
LEMMA PollsInv == ASSUME RunInv, Polling PROVE RunInv'
<1> PICK d \in Devices : \E b \in DOMAIN layout[d].buttons : PollButton(d, b)
  BY DEF Polling
<1>1. /\ rpc = "loop" /\ entry[d] = "open" /\ \E hs : held' = [held EXCEPT ![d] = hs]
      /\ UNCHANGED <<surroundings, rpc, resources, entry, sync, outside>>
  BY DEF PollButton, Goes
<1>2. CoreType' /\ WindowInv' /\ AnswerInv'
  BY <1>1 DEF RunInv, CoreType, WindowInv, AnswerInv, surroundings, resources, sync, outside,
              Synced
<1>3. EntriesInv'
  BY <1>1 DEF RunInv, CoreType, EntriesInv, surroundings, resources, sync, outside, Entries,
              Synced
<1> QED
  BY <1>2, <1>3 DEF RunInv

\* What happens around the thread.
LEMMA AroundInv == ASSUME RunInv, Surroundings PROVE RunInv'
<1> USE DEF RunInv, Around, resources, devices, sync, outside, Surroundings, Plug, Unplug,
            CallerWindowGoes, Cancel
<1>1. UNCHANGED <<rpc, resources, devices, sync, outside>> /\ present' \subseteq Devices
  BY DEF CoreType
<1>2. callerWindow' = callerWindow \/ (callerWindow = "valid" /\ callerWindow' = "gone")
  OBVIOUS
<1>3. CoreType' /\ WindowInv' /\ AnswerInv'
  BY <1>1, <1>2 DEF CoreType, WindowInv, AnswerInv
<1>4. EntriesInv'
  BY <1>1 DEF EntriesInv, Entries
<1> QED
  BY <1>3, <1>4

LEMMA RunStep == ASSUME RunInv, [Next]_vars PROVE RunInv'
<1>1. CASE UNCHANGED vars
  BY <1>1 DEF RunInv, CoreType, WindowInv, AnswerInv, EntriesInv, Entries, vars, surroundings,
              resources, devices, sync, outside
<1>2. CASE Stationary
  BY <1>2, StationaryInv
<1>3. CASE \E d \in Devices : Synchronising(d)
  BY <1>3, BeginsInv, EndsInv DEF Synchronising
<1>4. CASE \E d \in Devices : Releasing(d)
  BY <1>4, LeavesInv
<1>5. CASE Polling
  BY <1>5, PollsInv
<1>6. CASE Surroundings
  BY <1>6, AroundInv
<1> QED
  BY <1>1, <1>2, <1>3, <1>4, <1>5, <1>6 DEF Next, Working, Stationary

LEMMA RunCorrect == Spec => []RunInv
<1>1. Init => RunInv
  BY NoneIsNoDevice DEF Init, RunInv, CoreType, WindowInv, AnswerInv, EntriesInv, Entries,
                        Phases,
                        Synced
<1> QED
  BY <1>1, RunStep, PTL DEF Spec

\* Device objects, DirectInput and the window nest, however many devices there
\* are and whichever call fails: syncDevices and initializeDevice leave no
\* object behind that no entry can release.
THEOREM Nests == Spec => []ObjectsNest
<1>1. RunInv => ObjectsNest
  <2> SUFFICES ASSUME RunInv PROVE ObjectsNest
    OBVIOUS
  <2>1. directInput = "up" => window \in {"caller", "own"}
    BY DEF RunInv, WindowInv, Synced
  <2>2. ASSUME NEW d \in Devices, objects[d] > 0 PROVE directInput = "up"
    <3>1. entry[d] = "open" \/ opening = d
      BY <2>2 DEF RunInv, EntriesInv
    <3>2. opening = d => rpc = "configure"
      BY NoneIsNoDevice DEF RunInv, EntriesInv
    <3>3. entry[d] = "open" => rpc \in Synced \cup {"release"}
      BY DEF RunInv, EntriesInv, Entries
    <3> QED
      BY <3>1, <3>2, <3>3 DEF RunInv, WindowInv, Synced
  <2> QED
    BY <2>1, <2>2 DEF RunInv, EntriesInv, ObjectsNest
<1> QED
  BY <1>1, RunCorrect, PTL

\* On every return path of run everything is given back and everyone told.
THEOREM ReturnsClean == Spec => []NothingOutlivesRun
<1>1. RunInv => NothingOutlivesRun
  <2> SUFFICES ASSUME RunInv, rpc = "returned" PROVE NothingOutlivesRun
    BY DEF NothingOutlivesRun
  <2>1. Entries = {} /\ opening = None
    BY DEF RunInv, EntriesInv, Synced
  <2>2. ASSUME NEW d \in Devices PROVE objects[d] = 0 /\ held[d] = {}
    BY <2>1, NoneIsNoDevice DEF RunInv, EntriesInv, Entries
  <2>3. directInput # "up" /\ window # "own" /\ (callerWindow # "none" => window # "destroyed")
    BY DEF RunInv, WindowInv, Synced
  <2>4. listed = {} /\ ready # "none"
    BY DEF RunInv, AnswerInv, Synced
  <2> QED
    BY <2>2, <2>3, <2>4 DEF NothingOutlivesRun
<1> QED
  BY <1>1, RunCorrect, PTL

-----------------------------------------------------------------------------
(* The layouts and their records *)

\* What the format has room for.
Bounded(l) ==
    /\ l \in Layout
    /\ l.axes \in Seq(Nat) /\ Len(l.axes) <= MaxAxes
    /\ l.buttons \in Seq(0 .. MaxButtons - 1) /\ Len(l.buttons) <= MaxButtons

LEMMA LayoutsBounded ==
  ASSUME NEW d \in Devices, NEW l \in Layouts[d]
  PROVE  Bounded(l)
<1>1. PICK e \in Enumeration : l = LayoutOf(e)
  BY RunAssumption DEF Layouts
<1> DEFINE xs == AtMost(MaxAxes, AxisList(e))
           bs == ButtonList(e)
<1>2. xs \in Seq(Nat) /\ Len(xs) <= MaxAxes
  BY Zenon, AxesAre
<1>3. bs \in Seq(0 .. MaxButtons - 1) /\ Len(bs) <= MaxButtons
  BY Zenon, ButtonListIs
<1>4. l = [axes |-> xs, buttons |-> bs]
  BY <1>1 DEF LayoutOf
<1> HIDE DEF xs, bs
<1> QED
  BY <1>2, <1>3, <1>4 DEF Layout, Bounded

LEMMA FitsWord ==
  ASSUME NEW a \in Nat, NEW b \in Nat, a <= MaxAxes, b <= MaxButtons
  PROVE  4 * a + b <= Word
BY FormatAssumption

\* poll's subtraction: an offset inside an axis wraps around past the buttons.
LEMMA ButtonOffset ==
  ASSUME NEW W \in Nat \ {0}, NEW a \in Nat, NEW b \in Nat, 4 * a + b <= W,
         NEW o \in 0 .. W - 1, (o - 4 * a) % W < b
  PROVE  o >= 4 * a /\ (o - 4 * a) % W = o - 4 * a
<1>1. o - 4 * a \in Int /\ 0 - W <= o - 4 * a /\ o - 4 * a < W
  OBVIOUS
<1>2. o - 4 * a < 0 => (o - 4 * a) % W = o - 4 * a + W
  BY <1>1
<1>3. o - 4 * a >= 0 => (o - 4 * a) % W = o - 4 * a
  BY <1>1
<1> QED
  BY <1>1, <1>2, <1>3

\* The place of a control leads back to it.
LEMMA DecodeInverts ==
  ASSUME NEW l, Bounded(l), NEW c \in Controls(l)
  PROVE  /\ OffsetOf(l, c) \in 0 .. DataSize(l) - 1
         /\ Decode(l, OffsetOf(l, c)) = c
<1> DEFINE A == Len(l.axes)
           B == Len(l.buttons)
<1>1. A \in Nat /\ B \in Nat /\ A <= MaxAxes /\ B <= MaxButtons
      /\ DOMAIN l.axes = 1 .. A /\ DOMAIN l.buttons = 1 .. B
  BY DEF Bounded
<1>2. CASE c \in [kind : {"axis"}, index : 1 .. A]
  <2>1. PICK i \in 1 .. A : c = [kind |-> "axis", index |-> i]
    BY <1>2
  <2>2. OffsetOf(l, c) = 4 * (i - 1)
    BY <2>1 DEF OffsetOf
  <2>3. (4 * (i - 1)) % 4 = 0 /\ (4 * (i - 1)) \div 4 = i - 1
    BY <1>1
  <2>4. AxisBytes(l) = 4 * A /\ DataSize(l) = 4 * A + B
    BY DEF AxisBytes, DataSize
  <2> HIDE DEF A, B
  <2>5. 4 * (i - 1) < 4 * A /\ 4 * (i - 1) \in 0 .. 4 * A + B - 1
    BY <1>1
  <2> QED
    BY <1>1, <2>1, <2>2, <2>3, <2>4, <2>5 DEF Decode
<1>3. CASE c \in [kind : {"button"}, index : 1 .. B]
  <2>1. PICK i \in 1 .. B : c = [kind |-> "button", index |-> i]
    BY <1>3
  <2>2. OffsetOf(l, c) = AxisBytes(l) + i - 1
    BY <2>1 DEF OffsetOf
  <2>3. (AxisBytes(l) + i - 1) - AxisBytes(l) = i - 1 /\ AxisBytes(l) \in Nat
    BY <1>1 DEF AxisBytes
  <2>4. i - 1 \in 0 .. Word - 1
    BY <1>1, FormatAssumption
  <2>5. (i - 1) % Word = i - 1
    BY <2>4, FormatAssumption
  <2>6. OffsetOf(l, c) \in 0 .. DataSize(l) - 1 /\ ~ (OffsetOf(l, c) < AxisBytes(l))
    BY <1>1, <2>2, <2>3 DEF DataSize
  <2> QED
    BY <1>1, <2>1, <2>2, <2>3, <2>5, <2>6 DEF Decode
<1> QED
  BY <1>1, <1>2, <1>3 DEF Controls

\* And an offset that leads to a control is the place of that control.
LEMMA DecodeIsPlace ==
  ASSUME NEW l, Bounded(l), NEW offset \in 0 .. Word - 1, Decode(l, offset) # NoControl
  PROVE  Decode(l, offset) \in Controls(l) /\ OffsetOf(l, Decode(l, offset)) = offset
<1> DEFINE A == Len(l.axes)
           B == Len(l.buttons)
<1>1. A \in Nat /\ B \in Nat /\ A <= MaxAxes /\ B <= MaxButtons
      /\ DOMAIN l.axes = 1 .. A /\ DOMAIN l.buttons = 1 .. B /\ AxisBytes(l) = 4 * A
  BY DEF Bounded, AxisBytes
<1>2. CASE offset < AxisBytes(l) /\ offset % 4 = 0
  <2>1. Decode(l, offset) = [kind |-> "axis", index |-> offset \div 4 + 1]
    BY <1>2 DEF Decode
  <2>2. offset \div 4 + 1 \in 1 .. A /\ 4 * (offset \div 4 + 1 - 1) = offset
    BY <1>1, <1>2, FormatAssumption
  <2> QED
    BY <1>1, <2>1, <2>2 DEF Controls, OffsetOf
<1>3. CASE ~ (offset < AxisBytes(l) /\ offset % 4 = 0)
  <2> DEFINE r == (offset - AxisBytes(l)) % Word
  <2>1. Decode(l, offset) = [kind |-> "button", index |-> r + 1] /\ r < B
    BY <1>3 DEF Decode
  <2>2. 4 * A + B <= Word
    BY <1>1, FitsWord
  <2>3. Word \in Nat \ {0} /\ (offset - 4 * A) % Word < B
    BY <1>1, <2>1, FormatAssumption
  <2> HIDE DEF A, B
  <2>4. offset >= 4 * A /\ r = offset - 4 * A
    BY <1>1, <2>2, <2>3, ButtonOffset
  <2>5. r + 1 \in 1 .. B /\ AxisBytes(l) + (r + 1) - 1 = offset
    BY <1>1, <2>1, <2>4
  <2> HIDE DEF r
  <2> QED
    BY <1>1, <2>1, <2>5 DEF Controls, OffsetOf
<1> QED
  BY <1>2, <1>3

\* Decoding is the inverse of laying out.
LEMMA DecodeExact ==
  ASSUME NEW l, Bounded(l), NEW offset \in 0 .. Word - 1
  PROVE  LET owners == {c \in Controls(l) : OffsetOf(l, c) = offset}
         IN  IF owners = {} THEN Decode(l, offset) = NoControl
             ELSE owners = {Decode(l, offset)}
<1> DEFINE owners == {c \in Controls(l) : OffsetOf(l, c) = offset}
<1>1. \A c \in owners : c = Decode(l, offset)
  BY DecodeInverts
<1>2. Decode(l, offset) # NoControl => Decode(l, offset) \in owners
  BY DecodeIsPlace
<1> HIDE DEF owners
<1>3. IF owners = {} THEN Decode(l, offset) = NoControl ELSE owners = {Decode(l, offset)}
  BY <1>1, <1>2
<1> QED
  BY <1>3 DEF owners

-----------------------------------------------------------------------------
(* What the Manager is told *)

\* Until Start has its answer no device is taken out again.
FirstSync ==
    /\ rpc \in {"window", "directInput"} => ready = "none"
    /\ rpc \in Synced => ready # "err"
    /\ rpc \in Synced /\ ready = "none" => Entries \subseteq seen
    /\ rpc = "enumerate" /\ ready = "none" => Entries = {}

\* A device holds down its own buttons.
ButtonsInv ==
    /\ DOMAIN layout = Devices
    /\ \A d \in Devices : Bounded(layout[d])
    /\ held \in [Devices -> SUBSET (0 .. MaxButtons - 1)]

FullInv == RunInv /\ FirstSync /\ ButtonsInv

LEMMA FirstSyncStep == ASSUME RunInv, FirstSync, [Next]_vars PROVE FirstSync'
<1> USE DEF RunInv, FirstSync, Goes, surroundings, resources, devices, sync, outside, Synced
<1>1. CASE UNCHANGED vars \/ Surroundings
  BY <1>1 DEF vars, Surroundings, Plug, Unplug, CallerWindowGoes, Cancel, Around, Entries
<1>2. CASE WindowFound \/ WindowFails \/ CreateDirectInput \/ CreateDirectInputFails
  BY <1>2 DEF WindowFound, WindowFails, CreateDirectInput, CreateDirectInputFails, Entries,
              EntriesInv
<1>3. CASE EnumDevices \/ EnumDevicesFails \/ SetDevices \/ Ready
  BY <1>3 DEF EnumDevices, EnumDevicesFails, SetDevices, Ready, Entries, AnswerInv
<1>4. CASE Rescan \/ WindowLost \/ Stops \/ Unlist \/ ReleaseDirectInput \/ DestroyWindow
  BY <1>4 DEF Rescan, WindowLost, Stops, Unlist, ReleaseDirectInput, DestroyWindow, Entries,
              AnswerInv
<1>5. ASSUME NEW d \in Devices, SyncInitialised(d) \/ CreateDevice(d) \/ CreateDeviceFails(d)
      PROVE  FirstSync'
  BY <1>5 DEF SyncInitialised, CreateDevice, CreateDeviceFails, Handle, Entries, CoreType
<1>6. ASSUME NEW d \in Devices, Configure(d) \/ ConfigureEmpty(d) \/ ConfigureFails(d)
      PROVE  FirstSync'
  <2>1. entry[d] = "known"
    BY <1>6 DEF Configure, ConfigureEmpty, ConfigureFails, EntriesInv, CoreType
  <2> QED
    BY <1>6, <2>1 DEF Configure, ConfigureEmpty, ConfigureFails, Opened, Entries, CoreType
<1>7. ASSUME NEW d \in Devices, Releasing(d) PROVE FirstSync'
  BY <1>7 DEF Releasing, ReleaseButton, ReleaseDevice, ReleaseStays, Leaving, Entries, CoreType
<1>8. CASE Polling
  BY <1>8 DEF Polling, PollButton, Entries
<1> QED
  BY <1>1, <1>2, <1>3, <1>4, <1>5, <1>6, <1>7, <1>8 DEF Next, Working, Synchronising

LEMMA NoLayoutBounded == Bounded(NoLayout)
BY FormatAssumption DEF Bounded, Layout, NoLayout

LEMMA Elements ==
  ASSUME NEW S, NEW s \in Seq(S)
  PROVE  ToSet(s) \subseteq S /\ \A i \in 1 .. Len(s) : s[i] \in S
BY DEF ToSet

LEMMA BoundedButtons ==
  ASSUME NEW l, Bounded(l)
  PROVE  ToSet(l.buttons) \subseteq 0 .. MaxButtons - 1
BY Elements DEF Bounded

\* A button record names a button of its device.
LEMMA DecodedButton ==
  ASSUME NEW l, Bounded(l), NEW offset \in Int, Decode(l, offset).kind = "button"
  PROVE  l.buttons[Decode(l, offset).index] \in 0 .. MaxButtons - 1
<1> DEFINE r == (offset - AxisBytes(l)) % Word
<1>1. Decode(l, offset) = [kind |-> "button", index |-> r + 1] /\ r < Len(l.buttons)
  BY DEF Decode, NoControl
<1>2. AxisBytes(l) \in Int /\ Word \in Nat \ {0}
  BY FormatAssumption DEF AxisBytes, Bounded
<1>3. r \in Nat
  BY <1>2
<1> HIDE DEF r
<1>4. r + 1 \in 1 .. Len(l.buttons)
  BY <1>1, <1>3 DEF Bounded
<1>5. l.buttons \in Seq(0 .. MaxButtons - 1)
  BY DEF Bounded
<1>6. l.buttons[r + 1] \in 0 .. MaxButtons - 1
  BY <1>4, <1>5, Elements
<1> QED
  BY <1>1, <1>6

LEMMA ButtonsStep ==
  ASSUME RunInv, ButtonsInv, [Next]_vars
  PROVE  ButtonsInv'
<1> USE DEF ButtonsInv, Goes, surroundings, resources, devices, sync, outside
<1>1. CASE UNCHANGED vars \/ Surroundings
  BY <1>1 DEF vars, Surroundings, Plug, Unplug, CallerWindowGoes, Cancel, Around
<1>2. CASE Stationary
  BY <1>2 DEF Stationary, WindowFound, WindowFails, CreateDirectInput, CreateDirectInputFails,
              EnumDevices, EnumDevicesFails, SetDevices, Ready, Rescan, WindowLost, Stops, Unlist,
              ReleaseDirectInput, DestroyWindow
<1>3. ASSUME NEW d \in Devices,
             \/ SyncInitialised(d) \/ CreateDevice(d) \/ CreateDeviceFails(d)
             \/ ConfigureEmpty(d) \/ ConfigureFails(d)
      PROVE  ButtonsInv'
  BY <1>3 DEF SyncInitialised, CreateDevice, CreateDeviceFails, ConfigureEmpty, ConfigureFails,
              Handle
<1>4. ASSUME NEW d \in Devices, Configure(d) PROVE ButtonsInv'
  <2>1. PICK l \in Layouts[d] :
            /\ layout' = [layout EXCEPT ![d] = l]
            /\ \E down \in SUBSET ToSet(l.buttons) : held' = [held EXCEPT ![d] = down]
    BY <1>4 DEF Configure
  <2>2. Bounded(l) /\ ToSet(l.buttons) \subseteq 0 .. MaxButtons - 1
    BY LayoutsBounded, BoundedButtons
  <2> QED
    BY <2>1, <2>2
<1>5. ASSUME NEW d \in Devices, Releasing(d) PROVE ButtonsInv'
  BY <1>5, NoLayoutBounded DEF Releasing, ReleaseButton, ReleaseDevice
<1>6. ASSUME NEW d \in Devices, NEW b \in DOMAIN layout[d].buttons, PollButton(d, b)
      PROVE  ButtonsInv'
  <2> DEFINE offset == OffsetOf(layout[d], [kind |-> "button", index |-> b])
             button == layout[d].buttons[Decode(layout[d], offset).index]
  <2>1. b \in Int
    BY DEF Bounded
  <2>2. offset \in Int
    BY <2>1 DEF OffsetOf, AxisBytes, Bounded
  <2> HIDE DEF offset
  <2>3. /\ Decode(layout[d], offset).kind = "button" /\ UNCHANGED layout
        /\ held' = [held EXCEPT ![d] = IF button \in @ THEN @ \ {button} ELSE @ \cup {button}]
    BY <1>6 DEF PollButton, offset
  <2>4. button \in 0 .. MaxButtons - 1
    BY <2>2, <2>3, DecodedButton
  <2> HIDE DEF button
  <2> QED
    BY <2>3, <2>4
<1> QED
  BY <1>1, <1>2, <1>3, <1>4, <1>5, <1>6
     DEF Next, Working, Stationary, Synchronising, Polling

LEMMA FullCorrect == Spec => []FullInv
<1>1. Init => FullInv
  BY NoneIsNoDevice, NoLayoutBounded
     DEF Init, FullInv, RunInv, CoreType, WindowInv, AnswerInv, EntriesInv, Entries, Phases,
         Synced, FirstSync, ButtonsInv
<1>2. FullInv /\ [Next]_vars => FullInv'
  BY RunStep, FirstSyncStep, ButtonsStep DEF FullInv
<1> QED
  BY <1>1, <1>2, PTL DEF Spec

\* The rest of the types.
TypeRest ==
    /\ cancelled \in BOOLEAN /\ lost \in BOOLEAN
    /\ window \in {"none", "caller", "own", "destroyed"}
    /\ directInput \in {"none", "up", "released"}
    /\ listed \subseteq Devices /\ layout \in [Devices -> Layout]

LEMMA TypeRestStep ==
  ASSUME FullInv, TypeRest, [Next]_vars
  PROVE  TypeRest'
<1> USE DEF TypeRest, Goes, surroundings, resources, devices, sync, outside
<1>1. CASE UNCHANGED vars \/ Surroundings
  BY <1>1 DEF vars, Surroundings, Plug, Unplug, CallerWindowGoes, Cancel, Around
<1>2. CASE Stationary
  BY <1>2 DEF Stationary, WindowFound, WindowFails, CreateDirectInput, CreateDirectInputFails,
              EnumDevices, EnumDevicesFails, SetDevices, Ready, Rescan, WindowLost, Stops, Unlist,
              ReleaseDirectInput, DestroyWindow, Entries
<1>3. ASSUME NEW d \in Devices, Synchronising(d) PROVE TypeRest'
  <2>1. \A l \in Layouts[d] : l \in Layout
    BY LayoutsBounded DEF Bounded
  <2> QED
    BY <1>3, <2>1 DEF Synchronising, SyncInitialised, CreateDevice, CreateDeviceFails,
                      Configure,
                      ConfigureEmpty, ConfigureFails, Handle, Opened
<1>4. ASSUME NEW d \in Devices, Releasing(d) PROVE TypeRest'
  BY <1>4, NoLayoutBounded DEF Releasing, ReleaseButton, ReleaseDevice, ReleaseStays, Bounded
<1>5. CASE Polling
  BY <1>5 DEF Polling, PollButton
<1> QED
  BY <1>1, <1>2, <1>3, <1>4, <1>5 DEF Next, Working, Stationary

\* Every variable of the backend keeps to its type.
THEOREM TypeCorrect == Spec => []TypeOK
<1>1. Init => TypeRest
  BY NoLayoutBounded DEF Init, TypeRest, Bounded
<1>2. FullInv /\ TypeRest /\ [Next]_vars => TypeRest'
  BY TypeRestStep
<1>3. FullInv /\ TypeRest => TypeOK
  BY DEF FullInv, RunInv, CoreType, ButtonsInv, TypeRest, TypeOK
<1> QED
  BY <1>1, <1>2, <1>3, FullCorrect, PTL DEF Spec

\* Every control of an open device answers to the offset it was given and to no
\* other, in the uint32 arithmetic of the records, for any number of axes and
\* buttons the format has room for.
THEOREM RecordsFind == Spec => []RecordsFindTheirControl
<1>1. FullInv => RecordsFindTheirControl
  <2> SUFFICES ASSUME FullInv, NEW d \in Devices, NEW offset \in 0 .. Word - 1
               PROVE  LET owners == {c \in Controls(layout[d]) : OffsetOf(layout[d], c) = offset}
                      IN  IF owners = {} THEN Decode(layout[d], offset) = NoControl
                          ELSE owners = {Decode(layout[d], offset)}
    BY DEF RecordsFindTheirControl
  <2>1. Bounded(layout[d])
    BY DEF FullInv, ButtonsInv
  <2> QED
    BY <2>1, DecodeExact
<1> QED
  BY <1>1, FullCorrect, PTL

\* What an open device was given is the layout of one of its listings.
LayoutsInv == \A d \in Devices : entry[d] = "open" => layout[d] \in Layouts[d]

LEMMA LayoutsStep ==
  ASSUME FullInv, LayoutsInv, [Next]_vars
  PROVE  LayoutsInv'
<1> USE DEF LayoutsInv, Goes, surroundings, resources, devices, sync, outside
<1>0. entry \in [Devices -> {"absent", "known", "open", "empty"}] /\ DOMAIN layout = Devices
  BY DEF FullInv, RunInv, CoreType, ButtonsInv
<1>1. CASE UNCHANGED vars \/ Surroundings
  BY <1>1 DEF vars, Surroundings, Plug, Unplug, CallerWindowGoes, Cancel, Around
<1>2. CASE Stationary
  BY <1>2 DEF Stationary, WindowFound, WindowFails, CreateDirectInput, CreateDirectInputFails,
              EnumDevices, EnumDevicesFails, SetDevices, Ready, Rescan, WindowLost, Stops, Unlist,
              ReleaseDirectInput, DestroyWindow
<1>3. ASSUME NEW d \in Devices, Synchronising(d) PROVE LayoutsInv'
  <2>1. CASE Configure(d)
    <3>1. PICK l \in Layouts[d] : layout' = [layout EXCEPT ![d] = l]
      BY <2>1 DEF Configure
    <3>2. entry' = [entry EXCEPT ![d] = "open"]
      BY <2>1 DEF Configure
    <3> QED
      BY <1>0, <3>1, <3>2
  <2>2. CASE ~ Configure(d)
    BY <1>0, <1>3, <2>2 DEF Synchronising, SyncInitialised, CreateDevice, CreateDeviceFails,
                            ConfigureEmpty, ConfigureFails, Handle, Opened
  <2> QED
    BY <2>1, <2>2
<1>4. ASSUME NEW d \in Devices, Releasing(d) PROVE LayoutsInv'
  BY <1>0, <1>4 DEF Releasing, ReleaseButton, ReleaseDevice, ReleaseStays
<1>5. CASE Polling
  BY <1>5 DEF Polling, PollButton
<1> QED
  BY <1>1, <1>2, <1>3, <1>4, <1>5 DEF Next, Working, Stationary

\* However DirectInput lists the objects of a device, an open one has the same
\* controls: its axes and buttons in increasing order, cut off where the code
\* cuts them off, of any number of objects in any order.
THEOREM LayoutCorrect == Spec => []LayoutIsTheDevice
<1>1. Init => LayoutsInv
  BY DEF Init, LayoutsInv
<1>2. FullInv /\ LayoutsInv /\ [Next]_vars => LayoutsInv'
  BY LayoutsStep
<1>3. LayoutsInv => LayoutIsTheDevice
  <2> SUFFICES ASSUME LayoutsInv, NEW d \in Devices, entry[d] = "open", NEW e \in Enumerations[d]
               PROVE  LET l == layout[d]
                      IN  /\ ToSet(l.buttons) = {b \in ToSet(e.buttons) : b < MaxButtons}
                          /\ ToSet(l.axes) \subseteq ToSet(e.axes)
                          /\ Len(l.axes) = IF Cardinality(ToSet(e.axes)) < MaxAxes
                                           THEN Cardinality(ToSet(e.axes)) ELSE MaxAxes
                          /\ \A a \in ToSet(l.axes), x \in ToSet(e.axes) \ ToSet(l.axes) : a < x
                          /\ \A s \in {l.axes, l.buttons} :
                                \A i, j \in DOMAIN s : i < j => s[i] < s[j]
    BY Zenon DEF LayoutIsTheDevice
  <2>1. PICK f \in Enumerations[d] : layout[d] = LayoutOf(f)
    BY DEF LayoutsInv, Layouts
  <2>2. e \in Enumeration /\ f \in Enumeration
    BY RunAssumption
  <2>3. ToSet(e.axes) = ToSet(f.axes) /\ ToSet(e.buttons) = ToSet(f.buttons)
    BY Zenon, ObjectsAssumption
  <2> DEFINE xs == AtMost(MaxAxes, AxisList(f))
             bs == ButtonList(f)
  <2>4. layout[d].axes = xs /\ layout[d].buttons = bs
    BY <2>1 DEF LayoutOf
  <2>5. /\ xs \in Seq(Nat) /\ Ascends(Len(xs), xs)
        /\ ToSet(xs) \subseteq ToSet(f.axes)
        /\ Len(xs) = IF Cardinality(ToSet(f.axes)) < MaxAxes
                     THEN Cardinality(ToSet(f.axes)) ELSE MaxAxes
        /\ \A a \in ToSet(xs), x \in ToSet(f.axes) \ ToSet(xs) : a < x
    BY Zenon, <2>2, AxesAre
  <2>6. /\ bs \in Seq(0 .. MaxButtons - 1) /\ Ascends(Len(bs), bs)
        /\ ToSet(bs) = {b \in ToSet(f.buttons) : b < MaxButtons}
    BY Zenon, <2>2, ButtonListIs
  <2> HIDE DEF xs, bs
  <2>7. DOMAIN xs = 1 .. Len(xs) /\ DOMAIN bs = 1 .. Len(bs)
    BY Zenon, <2>5, <2>6, LenProperties
  <2>8. \A s \in {xs, bs} : \A i, j \in DOMAIN s : i < j => s[i] < s[j]
    BY Zenon, <2>5, <2>6, <2>7 DEF Ascends
  <2>9. /\ ToSet(bs) = {b \in ToSet(e.buttons) : b < MaxButtons}
        /\ ToSet(xs) \subseteq ToSet(e.axes)
        /\ Len(xs) = IF Cardinality(ToSet(e.axes)) < MaxAxes
                     THEN Cardinality(ToSet(e.axes)) ELSE MaxAxes
        /\ \A a \in ToSet(xs), x \in ToSet(e.axes) \ ToSet(xs) : a < x
    BY Zenon, <2>3, <2>5, <2>6
  <2> QED
    BY Zenon, <2>4, <2>8, <2>9
<1> QED
  BY <1>1, <1>2, <1>3, FullCorrect, PTL DEF Spec

-----------------------------------------------------------------------------
(* The contract *)

Attached == IF rpc = "returned" \/ InRelease THEN {}
            ELSE {d \in Devices : entry[d] \in {"open", "empty"}}

Down == UNION {{d} \X held[d] : d \in Devices}

Phase == IF rpc = "returned" THEN "returned" ELSE IF InRelease THEN "release"
         ELSE IF ready = "ok" THEN "run" ELSE "init"

LEMMA PhaseIs ==
    /\ rpc = "returned" => Phase = "returned"
    /\ InRelease => Phase = "release"
    /\ rpc \notin {"release", "releaseDirectInput", "destroyWindow", "returned"} =>
            Phase = IF ready = "ok" THEN "run" ELSE "init"
BY DEF Phase, InRelease

LEMMA DownIs == \A h : h \in Down <=> \E d \in Devices : \E b \in held[d] : h = <<d, b>>
BY DEF Down

\* A step that changes nothing the Manager sees.
LEMMA Stutters ==
  ASSUME UNCHANGED <<Phase, ready, Attached, Down, listed, lost>>
  PROVE  UNCHANGED Contract!vars
BY DEF Phase, Attached, Down, Contract!vars

LEMMA Attaches ==
  ASSUME NEW d \in Devices, NEW bs \in SUBSET (0 .. MaxButtons - 1),
         Phase \in {"init", "run"}, d \notin Attached, Attached' = Attached \cup {d},
         Down' = Down \cup ({d} \X bs), UNCHANGED <<Phase, ready, listed, lost>>
  PROVE  Contract!Next
<1>1. Contract!Attach(d, bs)
  BY DEF Phase, Attached, Down, Contract!Attach
<1> QED
  BY <1>1 DEF Contract!Next

LEMMA Detaches ==
  ASSUME NEW d \in Devices, Phase = "run", d \in Attached, \A h \in Down : h[1] # d,
         Attached' = Attached \ {d}, UNCHANGED <<Phase, ready, Down, listed, lost>>
  PROVE  Contract!Next
<1>1. Contract!Detach(d)
  BY DEF Phase, Attached, Down, Contract!Detach
<1> QED
  BY <1>1 DEF Contract!Next

LEMMA Turns ==
  ASSUME NEW d \in Devices, NEW b \in 0 .. MaxButtons - 1, Phase = "run", d \in Attached,
         Down' = IF <<d, b>> \in Down THEN Down \ {<<d, b>>} ELSE Down \cup {<<d, b>>},
         UNCHANGED <<Phase, ready, Attached, listed, lost>>
  PROVE  Contract!Next
<1>1. Contract!Button(d, b)
  BY DEF Phase, Attached, Down, Contract!Button
<1> QED
  BY <1>1 DEF Contract!Next

LEMMA Releases ==
  ASSUME NEW d \in Devices, NEW b \in 0 .. MaxButtons - 1, Phase = "release",
         <<d, b>> \in Down, Down' = Down \ {<<d, b>>},
         UNCHANGED <<Phase, ready, Attached, listed, lost>>
  PROVE  Contract!Next
<1>1. Contract!ReleaseButton(<<d, b>>)
  BY DEF Phase, Attached, Down, Contract!ReleaseButton
<1> QED
  BY <1>1 DEF Contract!Next

\* Steps that are nobody's business.
Quiet ==
    \/ WindowFound \/ CreateDirectInput \/ EnumDevices \/ Rescan \/ ReleaseDirectInput
    \/ EnumDevicesFails /\ ready # "none"
    \/ \E d \in Devices :
        SyncInitialised(d) \/ CreateDevice(d) \/ CreateDeviceFails(d) \/ ConfigureFails(d)

LEMMA QuietStep ==
  ASSUME FullInv, Quiet \/ Surroundings \/ UNCHANGED vars
  PROVE  UNCHANGED Contract!vars
<1> USE DEF Goes, surroundings, resources, devices, sync, outside
<1> SUFFICES UNCHANGED <<Phase, ready, Attached, Down, listed, lost>>
  BY Stutters
<1>1. CASE Surroundings \/ UNCHANGED vars
  BY <1>1 DEF Surroundings, Plug, Unplug, CallerWindowGoes, Cancel, Around, vars, Phase,
              InRelease,
              Attached, Down
<1>2. CASE WindowFound \/ CreateDirectInput \/ EnumDevices \/ Rescan \/ ReleaseDirectInput
           \/ (EnumDevicesFails /\ ready # "none")
  BY <1>2 DEF WindowFound, CreateDirectInput, EnumDevices, Rescan, ReleaseDirectInput,
              EnumDevicesFails, Phase, InRelease, Attached, Down
<1>3. ASSUME NEW d \in Devices,
             SyncInitialised(d) \/ CreateDevice(d) \/ CreateDeviceFails(d) \/ ConfigureFails(d)
      PROVE  UNCHANGED <<Phase, ready, Attached, Down, listed, lost>>
  <2>1. /\ rpc \in {"open", "configure"} /\ rpc' \in {"open", "configure"}
        /\ UNCHANGED <<held, outside>>
        /\ \/ UNCHANGED entry
           \/ entry[d] \notin {"open", "empty"} /\ entry' = [entry EXCEPT ![d] = "known"]
    BY <1>3 DEF SyncInitialised, CreateDevice, CreateDeviceFails, ConfigureFails, Handle, Opened
  <2>2. UNCHANGED <<Phase, Down, ready, listed, lost>>
    BY <2>1 DEF Phase, InRelease, Down
  <2>3. \A x \in Devices : entry'[x] \in {"open", "empty"} <=> entry[x] \in {"open", "empty"}
    BY <2>1 DEF FullInv, RunInv, CoreType
  <2>4. UNCHANGED Attached
    BY <2>1, <2>3 DEF Attached, InRelease
  <2> QED
    BY <2>2, <2>4
<1> QED
  BY <1>1, <1>2, <1>3 DEF Quiet

\* Steps of the thread the Manager hears of.
Heard ==
    \/ WindowFails \/ CreateDirectInputFails
    \/ EnumDevicesFails /\ ready = "none"
    \/ SetDevices \/ Ready \/ WindowLost \/ Stops \/ Unlist \/ DestroyWindow

LEMMA HeardStep == ASSUME FullInv, Heard PROVE Contract!Next
<1> USE DEF Heard, Goes, surroundings, resources, devices, sync, outside
<1>1. CASE WindowFails \/ CreateDirectInputFails \/ (EnumDevicesFails /\ ready = "none")
  <2>1. Contract!InitFails
    BY <1>1 DEF WindowFails, CreateDirectInputFails, EnumDevicesFails, Contract!InitFails,
                Contract!Ends, InRelease, FullInv, FirstSync
  <2> QED
    BY <2>1 DEF Contract!Next
<1>2. CASE WindowLost \/ Stops
  <2>1. rpc = "loop" /\ ready = "ok"
    BY <1>2 DEF WindowLost, Stops, FullInv, FirstSync, Synced, RunInv, CoreType, AnswerInv
  <2>2. Contract!Stops \/ Contract!Dies
    BY <1>2, <2>1 DEF WindowLost, Stops, Contract!Stops, Contract!Dies, Contract!Ends, InRelease
  <2> QED
    BY <2>2 DEF Contract!Next
<1>3. CASE SetDevices
  <2>1. Contract!SetDevices(Entries)
    BY <1>3 DEF SetDevices, Contract!SetDevices, InRelease, Entries
  <2>2. Entries \in SUBSET Devices
    BY DEF Entries
  <2> QED
    BY <2>1, <2>2 DEF Contract!Next
<1>4. CASE Ready
  <2>1. Contract!Ready
    BY <1>4 DEF Ready, Contract!Ready, InRelease, FullInv, RunInv, AnswerInv
  <2> QED
    BY <2>1 DEF Contract!Next
<1>5. CASE Unlist
  <2>1. Entries = {}
    BY <1>5 DEF Unlist
  <2>2. \A d \in Devices : held[d] = {}
    BY <2>1 DEF FullInv, RunInv, EntriesInv, Entries
  <2>3. Contract!Unlist
    BY <1>5, <2>2 DEF Unlist, Contract!Unlist, InRelease
  <2> QED
    BY <2>3 DEF Contract!Next
<1>6. CASE DestroyWindow
  <2>1. Entries = {} /\ listed = {}
    BY <1>6 DEF DestroyWindow, FullInv, RunInv, EntriesInv, AnswerInv, Synced
  <2>2. \A d \in Devices : held[d] = {}
    BY <2>1 DEF FullInv, RunInv, EntriesInv, Entries
  <2>3. Contract!Return
    BY <1>6, <2>1, <2>2 DEF DestroyWindow, Contract!Return, InRelease
  <2> QED
    BY <2>3 DEF Contract!Next
<1> QED
  BY <1>1, <1>2, <1>3, <1>4, <1>5, <1>6

LEMMA ConfigureStep ==
  ASSUME FullInv, NEW d \in Devices, Configure(d) \/ ConfigureEmpty(d)
  PROVE  Contract!Next
<1> USE DEF Goes, surroundings, resources, devices, sync, outside, Opened
<1>1. /\ rpc = "configure" /\ rpc' = "open" /\ entry[d] = "known" /\ held[d] = {}
      /\ ready \in {"none", "ok"} /\ DOMAIN held = Devices
      /\ UNCHANGED <<ready, listed, lost>>
      /\ \E up \in {"open", "empty"} : entry' = [entry EXCEPT ![d] = up]
  BY DEF Configure, ConfigureEmpty, FullInv, RunInv, CoreType, EntriesInv, FirstSync, Synced
<1>2. PICK bs \in SUBSET (0 .. MaxButtons - 1) : held' = [held EXCEPT ![d] = bs]
  <2>1. CASE Configure(d)
    <3>1. PICK l \in Layouts[d] :
              \E down \in SUBSET ToSet(l.buttons) : held' = [held EXCEPT ![d] = down]
      BY <2>1 DEF Configure
    <3> QED
      BY <3>1, LayoutsBounded, BoundedButtons
  <2>2. CASE ConfigureEmpty(d)
    <3>1. held' = [held EXCEPT ![d] = {}]
      BY <1>1, <2>2 DEF ConfigureEmpty, FullInv, ButtonsInv
    <3> QED
      BY <3>1
  <2> QED
    BY <2>1, <2>2
<1>3. Phase \in {"init", "run"} /\ UNCHANGED Phase
  BY <1>1 DEF Phase, InRelease
<1>4. d \notin Attached /\ Attached' = Attached \cup {d}
  BY <1>1 DEF Attached, InRelease, FullInv, RunInv, CoreType
<1>5. Down' = Down \cup ({d} \X bs)
  <2>1. \A e \in Devices : held'[e] = IF e = d THEN bs ELSE held[e]
    BY <1>1, <1>2
  <2>2. \A h : h \in Down' <=> \E e \in Devices : \E b \in held'[e] : h = <<e, b>>
    BY DEF Down
  <2>3. ASSUME NEW h, h \in Down' PROVE h \in Down \/ h \in {d} \X bs
    <3>1. PICK e \in Devices : \E b \in held'[e] : h = <<e, b>>
      BY <2>2, <2>3
    <3>2. PICK b \in held'[e] : h = <<e, b>>
      BY <3>1
    <3>3. CASE e = d
      BY <2>1, <3>2, <3>3
    <3>4. CASE e # d
      BY <2>1, <3>2, <3>4, DownIs
    <3> QED
      BY <3>3, <3>4
  <2>4. ASSUME NEW h \in Down PROVE h \in Down'
    <3>1. PICK e \in Devices : \E b \in held[e] : h = <<e, b>>
      BY DownIs
    <3>2. e # d
      BY <1>1, <3>1
    <3>3. held'[e] = held[e]
      BY <2>1, <3>2
    <3> QED
      BY <2>2, <3>1, <3>3
  <2>5. ASSUME NEW h \in {d} \X bs PROVE h \in Down'
    <3>1. h = <<d, h[2]>> /\ h[2] \in bs
      OBVIOUS
    <3>2. h[2] \in held'[d]
      BY <2>1, <3>1
    <3> QED
      BY <2>2, <3>1, <3>2
  <2> QED
    BY <2>3, <2>4, <2>5
<1> QED
  BY <1>1, <1>3, <1>4, <1>5, Attaches

LEMMA ReleaseStep ==
  ASSUME FullInv, NEW d \in Devices, Releasing(d)
  PROVE  Contract!Next \/ UNCHANGED Contract!vars
<1> USE DEF surroundings, sync, outside, Leaving, ReleaseStays
<1>1. /\ rpc \in {"open", "release"} /\ UNCHANGED <<rpc, ready, listed, lost>>
      /\ UNCHANGED Phase /\ entry[d] # "absent"
      /\ rpc = "open" => d \notin seen /\ d \in Entries
  BY DEF Releasing, ReleaseButton, ReleaseDevice, Phase, InRelease, Entries
<1>2. rpc = "open" => Phase = "run"
  BY <1>1 DEF FullInv, FirstSync, RunInv, CoreType, Synced, Phase, InRelease
<1>3. rpc = "release" => Phase = "release" /\ Attached = {} /\ Attached' = {}
  BY <1>1 DEF Phase, InRelease, Attached
<1>4. ASSUME NEW b \in held[d], ReleaseButton(d, b) PROVE Contract!Next
  <2>1. b \in 0 .. MaxButtons - 1 /\ entry[d] = "open"
    BY DEF FullInv, ButtonsInv, RunInv, EntriesInv
  <2>2. held' = [held EXCEPT ![d] = held[d] \ {b}] /\ UNCHANGED <<entry, Attached>>
    BY <1>4 DEF ReleaseButton, Attached, InRelease
  <2>3. \A e \in Devices : held'[e] = IF e = d THEN held[d] \ {b} ELSE held[e]
    BY <2>2 DEF FullInv, RunInv, CoreType
  <2>4. \A h : h \in Down' <=> \E e \in Devices : \E x \in held'[e] : h = <<e, x>>
    BY DEF Down
  <2>5. <<d, b>> \in Down /\ Down' = Down \ {<<d, b>>}
    <3>1. <<d, b>> \in Down
      BY DownIs
    <3>2. \A h : h \in Down' <=> h \in Down /\ h # <<d, b>>
      BY <2>3, <2>4, DownIs
    <3> QED
      BY <3>1, <3>2
  <2>6. rpc = "open" => d \in Attached
    BY <2>1 DEF Attached, InRelease
  <2> QED
    BY <1>1, <1>2, <1>3, <2>1, <2>2, <2>5, <2>6, Turns, Releases
<1>5. CASE ReleaseDevice(d)
  <2>1. held[d] = {} /\ UNCHANGED Down /\ entry' = [entry EXCEPT ![d] = "absent"]
    BY <1>5 DEF ReleaseDevice, Down
  <2>2. \A h \in Down : h[1] # d
    BY <2>1, DownIs
  <2>3. rpc = "open" => Attached' = Attached \ {d}
    BY <1>1, <2>1 DEF Attached, InRelease, FullInv, RunInv, CoreType
  <2>4. CASE rpc = "open" /\ d \in Attached
    BY <1>1, <1>2, <2>1, <2>2, <2>3, <2>4, Detaches
  <2>5. CASE ~ (rpc = "open" /\ d \in Attached)
    <3>1. UNCHANGED Attached
      BY <1>1, <1>3, <2>3, <2>5
    <3> QED
      BY <1>1, <2>1, <3>1, Stutters
  <2> QED
    BY <2>4, <2>5
<1> QED
  BY <1>4, <1>5 DEF Releasing

LEMMA PollStep == ASSUME FullInv, Polling PROVE Contract!Next
<1>1. PICK d \in Devices : \E x \in DOMAIN layout[d].buttons : PollButton(d, x)
  BY DEF Polling
<1>2. PICK x \in DOMAIN layout[d].buttons : PollButton(d, x)
  BY <1>1
<1> DEFINE offset == OffsetOf(layout[d], [kind |-> "button", index |-> x])
           b == layout[d].buttons[Decode(layout[d], offset).index]
<1>3. Bounded(layout[d])
  BY DEF FullInv, ButtonsInv
<1>4. x \in Int
  BY <1>3 DEF Bounded
<1>5. offset \in Int
  BY <1>3, <1>4 DEF OffsetOf, AxisBytes, Bounded
<1> HIDE DEF offset
<1>6. /\ Decode(layout[d], offset).kind = "button"
      /\ held' = [held EXCEPT ![d] = IF b \in held[d] THEN held[d] \ {b} ELSE held[d] \cup {b}]
      /\ rpc = "loop" /\ entry[d] = "open" /\ UNCHANGED <<rpc, entry, outside>>
  BY <1>2 DEF PollButton, offset, Goes
<1>7. b \in 0 .. MaxButtons - 1
  BY <1>3, <1>5, <1>6, DecodedButton
<1> HIDE DEF b
<1>8. Phase = "run" /\ UNCHANGED <<Phase, ready, listed, lost>>
  BY <1>6 DEF Phase, InRelease, FullInv, RunInv, CoreType, FirstSync, AnswerInv, Synced, outside
<1>9. d \in Attached /\ UNCHANGED Attached
  BY <1>6 DEF Attached, InRelease
<1>10. Down' = IF <<d, b>> \in Down THEN Down \ {<<d, b>>} ELSE Down \cup {<<d, b>>}
  <2>1. \A e \in Devices :
            held'[e] = IF e = d THEN IF b \in held[d] THEN held[d] \ {b} ELSE held[d] \cup {b}
                       ELSE held[e]
    BY <1>6 DEF FullInv, RunInv, CoreType
  <2>2. \A h : h \in Down' <=> \E e \in Devices : \E y \in held'[e] : h = <<e, y>>
    BY DEF Down
  <2>3. <<d, b>> \in Down <=> b \in held[d]
    BY DownIs
  <2>4. CASE b \in held[d]
    <3>1. \A h : h \in Down' <=> h \in Down /\ h # <<d, b>>
      BY <2>1, <2>2, <2>4, DownIs
    <3> QED
      BY <2>3, <2>4, <3>1
  <2>5. CASE b \notin held[d]
    <3>1. \A h : h \in Down' <=> h \in Down \/ h = <<d, b>>
      BY <2>1, <2>2, <2>5, DownIs
    <3> QED
      BY <2>3, <2>5, <3>1
  <2> QED
    BY <2>4, <2>5
<1> QED
  BY <1>7, <1>8, <1>9, <1>10, Turns

\* The backend keeps its contract with the Manager, for any number of devices
\* and whatever fails: one answer on ready, sink calls between the two ends of
\* run, button events of attached devices and after the answer only, nothing
\* pressed and nothing listed at the return.
THEOREM ContractKept == Spec => KeepsContract
<1>1. Init => Contract!Init
  BY DEF Init, Contract!Init, InRelease
<1>2. FullInv /\ [Next]_vars => [Contract!Next]_(Contract!vars)
  <2> SUFFICES ASSUME FullInv, [Next]_vars PROVE Contract!Next \/ UNCHANGED Contract!vars
    OBVIOUS
  <2>1. CASE Quiet \/ Surroundings \/ UNCHANGED vars
    BY <2>1, QuietStep
  <2>2. CASE Heard
    BY <2>2, HeardStep
  <2>3. CASE \E d \in Devices : Configure(d) \/ ConfigureEmpty(d)
    BY <2>3, ConfigureStep
  <2>4. CASE \E d \in Devices : Releasing(d)
    BY <2>4, ReleaseStep
  <2>5. CASE Polling
    BY <2>5, PollStep
  <2>6. Next => \/ Quiet \/ Heard \/ Polling \/ Surroundings
                \/ \E d \in Devices : Configure(d) \/ ConfigureEmpty(d) \/ Releasing(d)
    BY DEF Next, Working, Synchronising, Quiet, Heard
  <2> QED
    BY <2>1, <2>2, <2>3, <2>4, <2>5, <2>6
<1> QED
  BY <1>1, <1>2, FullCorrect, PTL DEF Spec, KeepsContract, Contract!Spec

=============================================================================
