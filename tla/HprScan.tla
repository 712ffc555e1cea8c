------------------------------ MODULE HprScan ------------------------------
(***************************************************************************)
(* Finding haptic devices: hpr.Manager.Scan over the HID scanner of        *)
(* internal/hidtransport, and the device matching of the Simagic driver.   *)
(*                                                                         *)
(* The scanner visits the HID collections one after another; an action is  *)
(* one Windows call that can fail, with what the code does with its        *)
(* answer.  Manager.Scan then walks the descriptors, one iteration an      *)
(* action.                                                                 *)
(***************************************************************************)
EXTENDS Integers, SequencesExt

CONSTANTS
    Drivers,      \* the registered drivers in their order; "simagic" is ours
    OtherMatches, \* the descriptors each other driver matches
    Systems,      \* what SetupDi may enumerate: sequences of collections
    None

\* The names the friendly name of a pedal set may hold.
Names == {"P500", "P700", "P1000", "P2000", "ALPHA PEDAL NEO"}

\* VID and PID, by the product they are listed for.
Ids == {"P500", "P700", "P1000", "P2000", "other"}

\* Usage page and usage are those of a game controller, or not.
Descriptor == [controller : BOOLEAN, ids : Ids, names : SUBSET Names]

\* The first call of the scanner that a collection refuses.
Faults == {"none", "detail", "createFile", "attributes", "preparsed", "caps", "strings"}

Collection == [descriptor : Descriptor, fault : Faults]

ASSUME ScanAssumption ==
    /\ Drivers \in Seq(STRING)
    /\ \A d \in DOMAIN OtherMatches : OtherMatches[d] \subseteq Descriptor
    /\ Systems \subseteq Seq(Collection)
    /\ None \notin STRING

VARIABLES
    system,   \* the collections SetupDi enumerates
    phase,    \* the next call of the scanner, then where Manager.Scan is
    index,    \* the collection the scanner is at
    handles,  \* what Windows has given out: "devInfo", "file", "preparsed"
    usage,    \* usagePage and usage of this iteration: those of a controller
    raw,      \* the scanner's descriptors that Manager.Scan has yet to look at
    out,      \* the ScannedDevices
    error     \* Scan's error, or "none"

scanner == <<index, handles, usage>>
vars    == <<system, phase, scanner, raw, out, error>>

Init ==
    /\ system \in Systems
    /\ phase = "classDevs" /\ index = 0 /\ handles = {} /\ usage = FALSE
    /\ raw = << >> /\ out = << >> /\ error = "none"

Goes(from, to) == phase = from /\ phase' = to /\ UNCHANGED <<system, out>>

-----------------------------------------------------------------------------
(* Scanner.Scan *)

Fault(step) == system[index].fault = step

GetClassDevs ==
    /\ Goes("classDevs", "enum")
    /\ handles' = {"devInfo"}
    /\ UNCHANGED <<index, usage, raw, error>>

GetClassDevsFails ==
    /\ Goes("classDevs", "done")
    /\ error' = "scanner failed"
    /\ UNCHANGED <<scanner, raw>>

\* The next interface; its usage is not known yet.
EnumInterface ==
    /\ Goes("enum", "detail")
    /\ index < Len(system) /\ index' = index + 1
    /\ usage' = FALSE
    /\ UNCHANGED <<handles, raw, error>>

\* There are no more: the list is given back by a deferred call.
EnumEnds ==
    /\ Goes("enum", "loop")
    /\ index = Len(system)
    /\ handles' = handles \ {"devInfo"}
    /\ UNCHANGED <<index, usage, raw, error>>

\* The interface's device path, asked for twice; without one it is left out.
GetDetail ==
    /\ Goes("detail", IF Fault("detail") THEN "enum" ELSE "createFile")
    /\ UNCHANGED <<scanner, raw, error>>

CreateFile ==
    /\ Goes("createFile", IF Fault("createFile") THEN "enum" ELSE "attributes")
    /\ handles' = handles \cup (IF Fault("createFile") THEN {} ELSE {"file"})
    /\ UNCHANGED <<index, usage, raw, error>>

\* Slip: the collection is left out and its handle forgotten.
GetAttributesLeaking ==
    /\ Goes("attributes", IF Fault("attributes") THEN "enum" ELSE "preparsed")
    /\ UNCHANGED <<scanner, raw, error>>

GetAttributes ==
    /\ Goes("attributes", IF Fault("attributes") THEN "enum" ELSE "preparsed")
    /\ handles' = handles \ (IF Fault("attributes") THEN {"file"} ELSE {})
    /\ UNCHANGED <<index, usage, raw, error>>

\* Without preparsed data the collection stays in, its usage zero.
GetPreparsed ==
    /\ Goes("preparsed", IF Fault("preparsed") THEN "strings" ELSE "caps")
    /\ handles' = handles \cup (IF Fault("preparsed") THEN {} ELSE {"preparsed"})
    /\ UNCHANGED <<index, usage, raw, error>>

\* HidP_GetCaps, whose answer does not decide about HidD_FreePreparsedData.
GetCaps ==
    /\ Goes("caps", "strings")
    /\ usage' = IF Fault("caps") THEN usage ELSE system[index].descriptor.controller
    /\ handles' = handles \ {"preparsed"}
    /\ UNCHANGED <<index, raw, error>>

\* Strings that cannot be read are empty; then the descriptor is complete.
GetStrings ==
    /\ Goes("strings", "enum")
    /\ LET d == system[index].descriptor
       IN  raw' = Append(raw,
               [path |-> index,
                descriptor |-> [controller |-> usage, ids |-> d.ids,
                                names |-> IF Fault("strings") THEN {} ELSE d.names]])
    /\ handles' = handles \ {"file"}
    /\ UNCHANGED <<index, usage, error>>

-----------------------------------------------------------------------------
(* The Simagic driver *)

\* Slip: the P500 case does not look for the Alpha Pedal Neo.
MatchModelPlain(ids, names) ==
    IF ids \in Names /\ (names = {} \/ ids \in names) THEN ids ELSE None

\* A listed VID and PID is believed unless the name hints at another model.
\* The Alpha Pedal Neo reuses the identifiers of the P500.
MatchModel(ids, names) ==
    LET accepted(own) == names = {} \/ own \cap names # {}
    IN  CASE ids = "P500" /\ "ALPHA PEDAL NEO" \in names -> "ALPHA PEDAL NEO"
          [] ids = "P500" /\ "ALPHA PEDAL NEO" \notin names /\ accepted({"P500"}) -> "P500"
          [] ids \in {"P700", "P1000", "P2000"} /\ accepted({ids}) -> ids
          [] OTHER -> None

SimagicMatch(d) == d.controller /\ MatchModel(d.ids, d.names) # None

Match(driver, d) ==
    IF driver = "simagic" THEN SimagicMatch(d) ELSE d \in OtherMatches[driver]

\* The model that Describe fills in.
Describe(driver, d) == IF driver = "simagic" THEN MatchModel(d.ids, d.names) ELSE None

-----------------------------------------------------------------------------
(* Manager.Scan *)

IsFirstMatch(i, d) ==
    Match(Drivers[i], d) /\ \A j \in 1 .. i - 1 : ~ Match(Drivers[j], d)

\* Slip: every match takes the device over.
ClaimLast(d) ==
    LET matching == {i \in DOMAIN Drivers : Match(Drivers[i], d)}
    IN  IF matching = {} THEN None
        ELSE Drivers[CHOOSE i \in matching : \A j \in matching : i >= j]

Claim(d) ==
    IF \E i \in DOMAIN Drivers : IsFirstMatch(i, d)
    THEN Drivers[CHOOSE i \in DOMAIN Drivers : IsFirstMatch(i, d)]
    ELSE None

Walking == phase = "loop" /\ raw # << >> /\ UNCHANGED <<system, phase, scanner, error>>

\* Slip: a device nobody claims ends the loop.
SkipUnclaimedStops ==
    /\ Walking
    /\ Claim(Head(raw).descriptor) = None
    /\ raw' = << >>
    /\ UNCHANGED out

SkipUnclaimed ==
    /\ Walking
    /\ Claim(Head(raw).descriptor) = None
    /\ raw' = Tail(raw)
    /\ UNCHANGED out

TakeClaimed ==
    /\ Walking
    /\ LET d      == Head(raw).descriptor
           driver == Claim(d)
           info   == [path |-> Head(raw).path, descriptor |-> d, model |-> Describe(driver, d)]
       IN  /\ driver # None
           /\ out' = Append(out, [info |-> info, driver |-> driver])
    /\ raw' = Tail(raw)

ScanReturns ==
    /\ Goes("loop", "done")
    /\ raw = << >>
    /\ UNCHANGED <<scanner, raw, error>>

Scanning ==
    \/ GetClassDevs \/ GetClassDevsFails \/ EnumInterface \/ EnumEnds \/ GetDetail
    \/ CreateFile \/ GetAttributes \/ GetPreparsed \/ GetCaps \/ GetStrings

Next == Scanning \/ SkipUnclaimed \/ TakeClaimed \/ ScanReturns

Spec == Init /\ [][Next]_vars

-----------------------------------------------------------------------------
(* Properties *)

\* "the first match wins", for every device Scan names: the driver it will be
\* opened with matches it, and none registered earlier does.
FirstMatchWins ==
    \A i \in DOMAIN out : \E k \in DOMAIN Drivers :
        Drivers[k] = out[i].driver /\ IsFirstMatch(k, out[i].info.descriptor)

\* What the calls a collection answers tell of it.
Reported(c) ==
    [controller |-> c.descriptor.controller /\ c.fault \notin {"preparsed", "caps"},
     ids |-> c.descriptor.ids,
     names |-> IF c.fault = "strings" THEN {} ELSE c.descriptor.names]

\* A Scan that succeeded has exactly the collections that give up their
\* attributes and that some driver matches, each once and in their order, as
\* what they told of themselves, however many others stand between them.
NothingMissed ==
    phase = "done" /\ error = "none" =>
        LET wanted == {p \in DOMAIN system :
                          /\ system[p].fault \notin {"detail", "createFile", "attributes"}
                          /\ \E k \in DOMAIN Drivers : Match(Drivers[k], Reported(system[p]))}
        IN  /\ {out[i].info.path : i \in DOMAIN out} = wanted
            /\ \A i, j \in DOMAIN out : i < j => out[i].info.path < out[j].info.path
            /\ \A i \in DOMAIN out : out[i].info.descriptor = Reported(system[out[i].info.path])

\* Whichever calls fail for whichever collection, the scanner returns with
\* everything given back; before that it holds one file at most, closed before
\* the next is opened, and preparsed data only while that file is open.
HandlesReturned ==
    /\ phase \in {"loop", "done"} => handles = {}
    /\ phase \in {"enum", "detail", "createFile"} => handles = {"devInfo"}
    /\ "preparsed" \in handles => "file" \in handles

\* "Alpha Pedal Neo reuses the P500 PID with a different product string": what
\* reports that product is one exactly if its name says so, and no name
\* contradicts the model.
ModelFitsName ==
    \A i \in DOMAIN out :
        LET found == out[i].info
            d     == found.descriptor
        IN  out[i].driver = "simagic" =>
                /\ d.ids = "P500" =>
                    (found.model = "ALPHA PEDAL NEO" <=> "ALPHA PEDAL NEO" \in d.names)
                /\ d.names # {} => found.model \in d.names

=============================================================================
