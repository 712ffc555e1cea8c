--------------------------- MODULE HprScan_proofs ---------------------------
(***************************************************************************)
(* Proofs about the scan for haptic devices: for any drivers, any          *)
(* collections and any calls that fail.                                    *)
(***************************************************************************)
EXTENDS HprScan, SequenceTheorems, WellFoundedInduction, TLAPS

Phases == {"classDevs", "enum", "detail", "createFile", "attributes", "preparsed", "caps",
           "strings", "loop", "done"}

Raw   == [path : Nat, descriptor : Descriptor]
Info  == [path : Nat, descriptor : Descriptor, model : Names \cup {None}]
Entry == [info : Info, driver : STRING]

\* Every variable holds a value of its type; inside an iteration of the scanner
\* there is a collection.
TypeOK ==
    /\ system \in Seq(Collection)
    /\ phase \in Phases
    /\ index \in 0 .. Len(system)
    /\ phase \in {"detail", "createFile", "attributes", "preparsed", "caps", "strings"} =>
            index \in 1 .. Len(system)
    /\ usage \in BOOLEAN
    /\ raw \in Seq(Raw)
    /\ out \in Seq(Entry)

\* What Windows has given out at each call of the scanner.
HandlesInv ==
    /\ phase \in {"classDevs", "loop", "done"} => handles = {}
    /\ phase \in {"enum", "detail", "createFile"} => handles = {"devInfo"}
    /\ phase \in {"attributes", "preparsed", "strings"} => handles = {"devInfo", "file"}
    /\ phase = "caps" => handles = {"devInfo", "file", "preparsed"}

\* Who claimed an entry, and as what.
ClaimInv ==
    \A i \in DOMAIN out :
        LET d == out[i].info.descriptor
        IN  /\ \E k \in DOMAIN Drivers : Drivers[k] = out[i].driver /\ IsFirstMatch(k, d)
            /\ out[i].info.model = Describe(out[i].driver, d)

-----------------------------------------------------------------------------
(* What matching returns *)

\* The model is one of the names, or none.
LEMMA ModelIsAName == \A d \in Descriptor : MatchModel(d.ids, d.names) \in Names \cup {None}
BY DEF Descriptor, Ids, MatchModel, Names

\* A device whose model is known: the model is that of the identifiers unless the
\* name says Alpha Pedal Neo, and it is among the names there are.
LEMMA ModelFits ==
  ASSUME NEW d \in Descriptor, MatchModel(d.ids, d.names) # None
  PROVE  /\ d.ids = "P500" =>
              (MatchModel(d.ids, d.names) = "ALPHA PEDAL NEO" <=> "ALPHA PEDAL NEO" \in d.names)
         /\ d.names # {} => MatchModel(d.ids, d.names) \in d.names
<1>1. d.ids \in Ids
  BY DEF Descriptor
<1>2. CASE d.ids = "P500"
  BY <1>2, ScanAssumption DEF MatchModel
<1>3. CASE d.ids \in {"P700", "P1000", "P2000"}
  BY <1>3, ScanAssumption DEF MatchModel
<1>4. CASE d.ids = "other"
  BY <1>4, ScanAssumption DEF MatchModel
<1> QED
  BY <1>1, <1>2, <1>3, <1>4 DEF Ids

\* claim returns the driver of the first match.
LEMMA ClaimIsFirst ==
  ASSUME NEW d, Claim(d) # None
  PROVE  \E k \in DOMAIN Drivers : Drivers[k] = Claim(d) /\ IsFirstMatch(k, d)
<1>1. \E k \in DOMAIN Drivers : IsFirstMatch(k, d)
  BY DEF Claim
<1> DEFINE k == CHOOSE i \in DOMAIN Drivers : IsFirstMatch(i, d)
<1>2. k \in DOMAIN Drivers /\ IsFirstMatch(k, d)
  BY <1>1
<1>3. Claim(d) = Drivers[k]
  BY <1>1 DEF Claim
<1> QED
  BY <1>2, <1>3

\* claim returns the name of a driver, if any.
LEMMA ClaimType == ASSUME NEW d, Claim(d) # None PROVE Claim(d) \in STRING
BY ClaimIsFirst, ScanAssumption

-----------------------------------------------------------------------------
(* Types *)

\* The scanner keeps the types.
LEMMA ScanningType == ASSUME TypeOK, Scanning PROVE TypeOK'
<1> USE DEF TypeOK, Goes, scanner
<1>1. CASE GetClassDevs
  BY <1>1 DEF GetClassDevs, Phases
<1>2. CASE GetClassDevsFails
  BY <1>2 DEF GetClassDevsFails, Phases
<1>3. CASE EnumInterface
  <2>1. Len(system) \in Nat /\ index' \in 1 .. Len(system)
    BY <1>3 DEF EnumInterface
  <2>2. phase' = "detail" /\ usage' = FALSE /\ UNCHANGED <<system, raw, out>>
    BY <1>3 DEF EnumInterface
  <2>3. index' \in 0 .. Len(system')
    BY <2>1, <2>2
  <2> QED
    BY <2>1, <2>2, <2>3 DEF Phases
<1>4. CASE EnumEnds
  BY <1>4 DEF EnumEnds, Phases
<1>5. CASE GetDetail
  BY <1>5 DEF GetDetail, Phases
<1>6. CASE CreateFile
  BY <1>6 DEF CreateFile, Phases
<1>7. CASE GetAttributes
  BY <1>7 DEF GetAttributes, Phases
<1>8. CASE GetPreparsed
  BY <1>8 DEF GetPreparsed, Phases
<1>9. CASE GetCaps
  <2>1. system[index] \in Collection
    BY <1>9 DEF GetCaps
  <2>2. usage' \in BOOLEAN
    BY <1>9, <2>1 DEF GetCaps, Collection, Descriptor
  <2> QED
    BY <1>9, <2>2 DEF GetCaps, Phases
<1>10. CASE GetStrings
  <2>1. system[index] \in Collection /\ index \in Nat
    BY <1>10 DEF GetStrings
  <2>2. raw' \in Seq(Raw)
    BY <1>10, <2>1 DEF GetStrings, Collection, Descriptor, Raw
  <2> QED
    BY <1>10, <2>2 DEF GetStrings, Phases
<1> QED
  BY <1>1, <1>2, <1>3, <1>4, <1>5, <1>6, <1>7, <1>8, <1>9, <1>10 DEF Scanning

\* Manager.Scan takes a claimed device over: what it appends.
LEMMA Taken ==
  ASSUME TypeOK, TakeClaimed
  PROVE  /\ \E taken \in Entry :
              /\ out' = Append(out, taken)
              /\ taken.driver = Claim(taken.info.descriptor) /\ taken.driver # None
              /\ taken.info.descriptor \in Descriptor
              /\ taken.info.model = Describe(taken.driver, taken.info.descriptor)
         /\ UNCHANGED <<system, phase, index, handles, usage>>
<1> DEFINE d == Head(raw).descriptor
           driver == Claim(d)
           found == [path |-> Head(raw).path, descriptor |-> d, model |-> Describe(driver, d)]
           taken == [info |-> found, driver |-> driver]
<1>1. raw # << >> /\ raw \in Seq(Raw)
  BY DEF TakeClaimed, Walking, TypeOK
<1>2. Head(raw) \in Raw
  BY <1>1
<1>3. /\ driver # None /\ out' = Append(out, taken)
      /\ UNCHANGED <<system, phase, index, handles, usage>>
  BY DEF TakeClaimed, Walking, scanner
<1>4. d \in Descriptor /\ Head(raw).path \in Nat
  BY <1>2 DEF Raw
<1>5. driver \in STRING
  BY <1>3, ClaimType
<1>6. Describe(driver, d) \in Names \cup {None}
  BY <1>4, ModelIsAName DEF Describe
<1>7. taken \in Entry
  BY <1>4, <1>5, <1>6 DEF Entry, Info
<1>8. taken.driver = driver /\ taken.info.descriptor = d /\ taken.info.model = Describe(driver, d)
  OBVIOUS
<1> HIDE DEF taken, found
<1> QED
  BY <1>3, <1>4, <1>7, <1>8

\* Every step keeps the types.
LEMMA NextType == ASSUME TypeOK, Next PROVE TypeOK'
<1>1. CASE Scanning
  BY <1>1, ScanningType
<1>2. CASE SkipUnclaimed
  BY <1>2 DEF SkipUnclaimed, Walking, TypeOK, scanner
<1>3. CASE TakeClaimed
  <2>1. out' \in Seq(Entry)
    <3>1. PICK taken \in Entry : out' = Append(out, taken)
      BY <1>3, Taken
    <3> QED
      BY <3>1 DEF TypeOK
  <2>2. raw' \in Seq(Raw)
    BY <1>3 DEF TakeClaimed, Walking, TypeOK
  <2> QED
    BY <1>3, <2>1, <2>2, Taken DEF TypeOK
<1>4. CASE ScanReturns
  BY <1>4 DEF ScanReturns, Goes, TypeOK, Phases, scanner
<1> QED
  BY <1>1, <1>2, <1>3, <1>4 DEF Next

\* The variables of a scan keep their types.
THEOREM TypeCorrect == Spec => []TypeOK
<1>1. Init => TypeOK
  <2> SUFFICES ASSUME Init PROVE TypeOK
    OBVIOUS
  <2>1. system \in Seq(Collection)
    BY ScanAssumption DEF Init
  <2>2. 0 \in 0 .. Len(system)
    BY <2>1
  <2>3. << >> \in Seq(Raw) /\ << >> \in Seq(Entry)
    OBVIOUS
  <2> QED
    BY <2>1, <2>2, <2>3 DEF Init, TypeOK, Phases
<1>2. TypeOK /\ [Next]_vars => TypeOK'
  <2>1. CASE UNCHANGED vars
    BY <2>1 DEF vars, scanner, TypeOK
  <2> QED
    BY <2>1, NextType
<1> QED
  BY <1>1, <1>2, PTL DEF Spec

-----------------------------------------------------------------------------
(* Handles *)

\* Everything the scanner was given is given back, whichever calls fail.
THEOREM EverythingReturned == Spec => []HandlesReturned
<1>1. Init => HandlesInv
  BY DEF Init, HandlesInv
<1>2. HandlesInv /\ [Next]_vars => HandlesInv'
  <2> SUFFICES ASSUME HandlesInv, [Next]_vars PROVE HandlesInv'
    OBVIOUS
  <2>1. CASE Scanning
    BY <2>1 DEF Scanning, GetClassDevs, GetClassDevsFails, EnumInterface, EnumEnds, GetDetail,
                CreateFile, GetAttributes, GetPreparsed, GetCaps, GetStrings, Goes, scanner,
                HandlesInv
  <2>2. CASE SkipUnclaimed \/ TakeClaimed
    BY <2>2 DEF SkipUnclaimed, TakeClaimed, Walking, scanner, HandlesInv
  <2>3. CASE ScanReturns
    BY <2>3 DEF ScanReturns, Goes, scanner, HandlesInv
  <2>4. CASE UNCHANGED vars
    BY <2>4 DEF vars, scanner, HandlesInv
  <2> QED
    BY <2>1, <2>2, <2>3, <2>4 DEF Next
<1>3. TypeOK /\ HandlesInv => HandlesReturned
  BY DEF TypeOK, Phases, HandlesInv, HandlesReturned
<1> QED
  BY <1>1, <1>2, <1>3, TypeCorrect, PTL DEF Spec

-----------------------------------------------------------------------------
(* Claims *)

\* Every step keeps the claims of the entries there are.
LEMMA NextClaims == ASSUME TypeOK, ClaimInv, [Next]_vars PROVE ClaimInv'
<1>1. CASE TakeClaimed
  <2>1. PICK taken \in Entry :
          /\ out' = Append(out, taken)
          /\ taken.driver = Claim(taken.info.descriptor) /\ taken.driver # None
          /\ taken.info.model = Describe(taken.driver, taken.info.descriptor)
    BY <1>1, Taken
  <2>2. SUFFICES ASSUME NEW i \in DOMAIN out'
                 PROVE  LET d == out'[i].info.descriptor
                        IN  /\ \E k \in DOMAIN Drivers :
                                  Drivers[k] = out'[i].driver /\ IsFirstMatch(k, d)
                            /\ out'[i].info.model = Describe(out'[i].driver, d)
    BY DEF ClaimInv
  <2>3. CASE i \in DOMAIN out
    <3>1. out'[i] = out[i]
      BY <2>1, <2>3 DEF TypeOK
    <3> QED
      BY <2>3, <3>1 DEF ClaimInv
  <2>4. CASE i \notin DOMAIN out
    <3>1. out'[i] = taken
      BY <2>1, <2>2, <2>4 DEF TypeOK
    <3> QED
      BY <2>1, <3>1, ClaimIsFirst
  <2> QED
    BY <2>3, <2>4
<1>2. CASE UNCHANGED out
  BY <1>2 DEF ClaimInv
<1>3. CASE Scanning \/ ScanReturns \/ SkipUnclaimed \/ UNCHANGED vars
  <2>1. UNCHANGED out
    BY <1>3 DEF Scanning, GetClassDevs, GetClassDevsFails, EnumInterface, EnumEnds, GetDetail,
                CreateFile, GetAttributes, GetPreparsed, GetCaps, GetStrings, ScanReturns,
                SkipUnclaimed, Goes, vars
  <2> QED
    BY <1>2, <2>1
<1> QED
  BY <1>1, <1>2, <1>3 DEF Next

\* Every entry is claimed by a first match, and described by it.
LEMMA Claims == Spec => [](TypeOK /\ ClaimInv)
<1>1. Init => ClaimInv
  BY DEF Init, ClaimInv
<1>2. TypeOK /\ ClaimInv /\ [Next]_vars => ClaimInv'
  BY NextClaims
<1> QED
  BY <1>1, <1>2, TypeCorrect, PTL DEF Spec

\* The driver a device is opened with is the first registered that matches it.
THEOREM FirstMatchAlwaysWins == Spec => []FirstMatchWins
<1>1. ClaimInv => FirstMatchWins
  BY DEF ClaimInv, FirstMatchWins
<1> QED
  BY <1>1, Claims, PTL

\* Products that share identifiers are told apart by their names.
THEOREM ModelAlwaysFitsName == Spec => []ModelFitsName
<1>1. TypeOK /\ ClaimInv => ModelFitsName
  <2> SUFFICES ASSUME TypeOK, ClaimInv, NEW i \in DOMAIN out, out[i].driver = "simagic"
               PROVE  LET found == out[i].info
                          d     == found.descriptor
                      IN  /\ d.ids = "P500" =>
                              (found.model = "ALPHA PEDAL NEO" <=> "ALPHA PEDAL NEO" \in d.names)
                          /\ d.names # {} => found.model \in d.names
    BY DEF ModelFitsName
  <2> DEFINE d == out[i].info.descriptor
  <2>1. d \in Descriptor
    <3>1. out[i] \in Entry
      BY DEF TypeOK
    <3> QED
      BY <3>1 DEF Entry, Info
  <2>2. out[i].info.model = MatchModel(d.ids, d.names) /\ MatchModel(d.ids, d.names) # None
    BY DEF ClaimInv, IsFirstMatch, Match, SimagicMatch, Describe
  <2> HIDE DEF d
  <2> QED
    BY <2>1, <2>2, ModelFits DEF d
<1> QED
  BY <1>1, Claims, PTL

-----------------------------------------------------------------------------
(* The list *)

\* Inside an iteration of the scanner; how far it has got; who stays in the list.
Middle == {"detail", "createFile", "attributes", "preparsed", "caps", "strings"}
Seen   == IF phase \in Middle THEN index - 1 ELSE index

Complete(p) == system[p].fault \notin {"detail", "createFile", "attributes"}
Matched(p)  == \E k \in DOMAIN Drivers : Match(Drivers[k], Reported(system[p]))

\* What the scanner has learned of the collection it is at, call by call.
IterationInv ==
    /\ phase \in Middle \ {"strings"} => ~ usage
    /\ phase \in Middle \ {"detail"} => system[index].fault # "detail"
    /\ phase \in Middle \ {"detail", "createFile"} => system[index].fault # "createFile"
    /\ phase \in {"preparsed", "caps", "strings"} => system[index].fault # "attributes"
    /\ phase = "caps" => system[index].fault # "preparsed"
    /\ phase = "strings" => usage = Reported(system[index]).controller

\* The descriptors still to be looked at, in order, each as it was reported.
RawInv ==
    /\ \A i \in DOMAIN raw :
        /\ raw[i].path \in 1 .. Seen /\ Complete(raw[i].path)
        /\ raw[i].descriptor = Reported(system[raw[i].path])
    /\ \A i, j \in DOMAIN raw : i < j => raw[i].path < raw[j].path

\* The devices found, in order and before what is still to be looked at.
OutInv ==
    /\ \A i \in DOMAIN out :
        /\ out[i].info.path \in DOMAIN system /\ Complete(out[i].info.path)
        /\ out[i].info.descriptor = Reported(system[out[i].info.path])
        /\ \A j \in DOMAIN raw : out[i].info.path < raw[j].path
    /\ \A i, j \in DOMAIN out : i < j => out[i].info.path < out[j].info.path

\* No collection the scanner has passed is missing that should be there.
PassedInv ==
    \A p \in 1 .. Seen : Complete(p) =>
        \/ \E i \in DOMAIN raw : raw[i].path = p
        \/ \E i \in DOMAIN out : out[i].info.path = p
        \/ ~ Matched(p)

\* Manager.Scan starts when the scanner has passed them all.
EndInv ==
    /\ phase \notin {"loop", "done"} => out = << >>
    /\ phase = "loop" => index = Len(system)
    /\ phase = "done" /\ error = "none" => index = Len(system) /\ raw = << >>

ListInv == IterationInv /\ RawInv /\ OutInv /\ PassedInv /\ EndInv

\* Who is not claimed is matched by nobody: of the drivers that match there is a
\* first one.
LEMMA UnclaimedIsUnmatched ==
  ASSUME NEW d, Claim(d) = None
  PROVE  \A k \in DOMAIN Drivers : ~ Match(Drivers[k], d)
<1> DEFINE T == {k \in DOMAIN Drivers : Match(Drivers[k], d)}
           R == OpToRel(<, Nat)
<1> SUFFICES ASSUME T # {} PROVE FALSE
  OBVIOUS
<1>1. DOMAIN Drivers = 1 .. Len(Drivers) /\ Len(Drivers) \in Nat
  BY ScanAssumption
<1>2. T \subseteq Nat
  BY <1>1
<1>3. \A x, y \in Nat : <<x, y>> \in R <=> x < y
  BY Zenon DEF OpToRel
<1>4. IsWellFoundedOn(R, Nat)
  BY Zenon, NatLessThanWellFounded
<1>5. PICK k \in T : \A j \in T : ~ (<<j, k>> \in R)
  <2> HIDE DEF R, T
  <2> QED
    BY Zenon, <1>2, <1>4, WFMin
<1>6. \A j \in T : ~ (j < k)
  BY Zenon, <1>2, <1>3, <1>5
<1>7. k \in DOMAIN Drivers /\ IsFirstMatch(k, d)
  <2>1. \A j \in 1 .. k - 1 : j \in DOMAIN Drivers /\ j < k
    BY <1>1
  <2>2. \A j \in 1 .. k - 1 : ~ Match(Drivers[j], d)
    BY Zenon, <1>6, <2>1
  <2> QED
    BY Zenon, <2>2 DEF IsFirstMatch
<1>8. \E i \in DOMAIN Drivers : Claim(d) = Drivers[i]
  BY Zenon, <1>7 DEF Claim
<1> QED
  BY <1>8, ScanAssumption

\* The scanner's own steps: a collection is left out only for what it refused.
LEMMA ScanningList == ASSUME TypeOK, ListInv, Scanning PROVE ListInv'
<1>1. UNCHANGED <<system, out>> /\ out = << >> /\ phase \notin {"loop", "done"}
  BY DEF Scanning, GetClassDevs, GetClassDevsFails, EnumInterface, EnumEnds, GetDetail,
         CreateFile, GetAttributes, GetPreparsed, GetCaps, GetStrings, Goes,
         ListInv, EndInv
<1>2. index \in Nat
  BY DEF TypeOK
<1>3. IterationInv'
  <2> USE DEF ListInv, IterationInv, Middle, Goes, Fault, scanner
  <2>1. CASE GetClassDevs \/ GetClassDevsFails \/ EnumEnds
    BY <2>1 DEF GetClassDevs, GetClassDevsFails, EnumEnds
  <2>2. CASE EnumInterface
    BY <2>2 DEF EnumInterface
  <2>3. CASE GetDetail
    BY <2>3 DEF GetDetail
  <2>4. CASE CreateFile
    BY <2>4 DEF CreateFile
  <2>5. CASE GetAttributes
    BY <2>5 DEF GetAttributes
  <2>6. CASE GetPreparsed
    <3>1. /\ UNCHANGED <<system, index, usage>> /\ ~ usage
          /\ phase' = IF system[index].fault = "preparsed" THEN "strings" ELSE "caps"
          /\ system[index].fault \notin {"detail", "createFile", "attributes"}
      BY <2>6 DEF GetPreparsed
    <3>2. system[index].fault = "preparsed" => Reported(system[index]).controller = FALSE
      BY Zenon DEF Reported
    <3>3. usage = FALSE
      BY <3>1 DEF TypeOK
    <3>4. phase' = "strings" => usage' = Reported(system[index]).controller
      BY Zenon, <3>1, <3>2, <3>3
    <3> QED
      BY <3>1, <3>4 DEF Reported
  <2>7. CASE GetCaps
    <3>1. /\ UNCHANGED <<system, index>> /\ ~ usage /\ phase' = "strings"
          /\ usage' = IF system[index].fault = "caps" THEN usage ELSE system[index].descriptor.controller
          /\ system[index].fault \notin {"detail", "createFile", "attributes", "preparsed"}
      BY <2>7 DEF GetCaps
    <3>2. /\ system[index].fault = "caps" => Reported(system[index]).controller = FALSE
          /\ system[index].fault \notin {"preparsed", "caps"} =>
                Reported(system[index]).controller = system[index].descriptor.controller
      <4>1. system[index] \in Collection
        BY <2>7 DEF GetCaps, TypeOK
      <4>2. system[index].descriptor.controller \in BOOLEAN
        BY <4>1 DEF Collection, Descriptor
      <4> QED
        BY Zenon, <4>2 DEF Reported
    <3>3. usage = FALSE
      BY <3>1 DEF TypeOK
    <3>4. usage' = Reported(system[index]).controller
      BY Zenon, <3>1, <3>2, <3>3
    <3> QED
      BY <3>1, <3>4 DEF Reported
  <2>8. CASE GetStrings
    BY <2>8 DEF GetStrings
  <2> QED
    BY <2>1, <2>2, <2>3, <2>4, <2>5, <2>6, <2>7, <2>8 DEF Scanning
<1>4. EndInv'
  <2>1. phase' = "loop" => index' = Len(system')
    BY <1>1 DEF Scanning, GetClassDevs, GetClassDevsFails, EnumInterface, EnumEnds, GetDetail,
                CreateFile, GetAttributes, GetPreparsed, GetCaps, GetStrings, Goes
  <2>2. phase' = "done" => error' # "none"
    <3>1. CASE GetClassDevsFails
      <4>1. error' = "scanner failed"
        BY <3>1 DEF GetClassDevsFails
      <4> QED
        BY <4>1
    <3>2. CASE ~ GetClassDevsFails
      BY <3>2 DEF Scanning, GetClassDevs, EnumInterface, EnumEnds, GetDetail, CreateFile,
                  GetAttributes, GetPreparsed, GetCaps, GetStrings, Goes
    <3> QED
      BY <3>1, <3>2
  <2> QED
    BY <1>1, <2>1, <2>2 DEF EndInv
<1>5. OutInv'
  BY <1>1 DEF OutInv
<1>6. CASE ~ GetStrings
  <2>1. /\ raw' = raw
        /\ Seen' = Seen \/ (Seen' = index /\ Seen = index - 1 /\ ~ Complete(index))
    <3> USE DEF Goes, Fault, Seen, Middle, Complete, scanner
    <3>0. CASE EnumInterface
      BY <1>2, <3>0 DEF EnumInterface
    <3>1. CASE GetClassDevs \/ GetClassDevsFails \/ EnumEnds
      BY <3>1 DEF GetClassDevs, GetClassDevsFails, EnumEnds
    <3>2. CASE GetDetail \/ CreateFile \/ GetAttributes
      BY <3>2 DEF GetDetail, CreateFile, GetAttributes
    <3>3. CASE GetPreparsed \/ GetCaps
      BY <3>3 DEF GetPreparsed, GetCaps
    <3> QED
      BY <1>6, <3>0, <3>1, <3>2, <3>3 DEF Scanning
  <2>2. Seen \in Int /\ Seen' \in Int
    <3>1. index' \in Int
      BY ScanningType DEF TypeOK
    <3> QED
      BY <1>2, <3>1 DEF Seen
  <2>3. RawInv'
    BY <1>1, <1>2, <2>1, <2>2 DEF ListInv, RawInv, Complete, Reported
  <2>4. PassedInv'
    <3> SUFFICES ASSUME NEW p \in 1 .. Seen', Complete(p)
                 PROVE  (\E i \in DOMAIN raw : raw[i].path = p) \/ ~ Matched(p)
      BY <1>1, <2>1 DEF PassedInv, Complete, Matched, Reported
    <3>1. p \in 1 .. Seen
      BY <1>2, <2>1, <2>2
    <3>2. DOMAIN out = {}
      BY <1>1
    <3> QED
      BY Zenon, <3>1, <3>2 DEF ListInv, PassedInv
  <2> QED
    BY <1>3, <1>4, <1>5, <2>3, <2>4 DEF ListInv
<1>7. CASE GetStrings
  <2> DEFINE n == Len(raw)
             found == [path |-> index, descriptor |-> Reported(system[index])]
  <2>1. system[index] \in Collection /\ Complete(index) /\ usage = Reported(system[index]).controller
    BY <1>7 DEF GetStrings, Goes, TypeOK, ListInv, IterationInv, Middle, Complete
  <2>2. raw' = Append(raw, found)
    <3> DEFINE r == Reported(system[index])
               d == system[index].descriptor
    <3>1. r = [controller |-> r.controller, ids |-> d.ids,
               names |-> IF Fault("strings") THEN {} ELSE d.names]
      BY DEF Reported, Fault
    <3>2. raw' = Append(raw, [path |-> index,
                              descriptor |-> [controller |-> usage, ids |-> d.ids,
                                              names |-> IF Fault("strings") THEN {} ELSE d.names]])
      BY Zenon, <1>7 DEF GetStrings
    <3>3. usage = r.controller
      BY Zenon, <2>1
    <3> HIDE DEF r, d
    <3>4. r = [controller |-> usage, ids |-> d.ids,
               names |-> IF Fault("strings") THEN {} ELSE d.names]
      BY Zenon, <3>1, <3>3
    <3> QED
      BY Zenon, <3>2, <3>4 DEF r
  <2>3. raw \in Seq(Raw)
    BY DEF TypeOK
  <2>4. /\ n \in Nat /\ DOMAIN raw = 1 .. n /\ DOMAIN raw' = 1 .. n + 1
        /\ raw'[n + 1] = found /\ \A i \in 1 .. n : raw'[i] = raw[i]
    BY <2>2, <2>3
  <2>5. Seen = index - 1 /\ Seen' = index
    BY <1>7 DEF GetStrings, Goes, Seen, Middle
  <2> HIDE DEF n
  <2>6. RawInv'
    <3>1. ASSUME NEW i \in 1 .. n + 1
          PROVE  /\ raw'[i].path \in 1 .. index /\ Complete(raw'[i].path)
                 /\ raw'[i].descriptor = Reported(system[raw'[i].path])
      <4>1. CASE i = n + 1
        <5>1. index \in 1 .. index
          BY <1>2, <1>7 DEF GetStrings, Goes, TypeOK
        <5> QED
          BY <2>1, <2>4, <4>1, <5>1
      <4>2. CASE i # n + 1
        <5>1. i \in 1 .. n /\ i \in DOMAIN raw
          BY <2>4, <4>2
        <5>2. /\ raw[i].path \in 1 .. index - 1 /\ Complete(raw[i].path)
              /\ raw[i].descriptor = Reported(system[raw[i].path])
          BY Zenon, <2>5, <5>1 DEF ListInv, RawInv
        <5> QED
          BY <1>2, <2>4, <5>1, <5>2
      <4> QED
        BY <4>1, <4>2
    <3>2. ASSUME NEW i \in 1 .. n + 1, NEW j \in 1 .. n + 1, i < j
          PROVE  raw'[i].path < raw'[j].path
      <4>1. i \in 1 .. n /\ i \in DOMAIN raw
        BY <2>4, <3>2
      <4>2. CASE j = n + 1
        <5>1. raw[i].path \in 1 .. index - 1
          BY Zenon, <2>5, <4>1 DEF ListInv, RawInv
        <5> QED
          BY <1>2, <2>4, <4>1, <4>2, <5>1
      <4>3. CASE j # n + 1
        <5>1. j \in 1 .. n /\ j \in DOMAIN raw
          BY <2>4, <4>3
        <5>2. raw[i].path < raw[j].path
          BY Zenon, <3>2, <4>1, <5>1 DEF ListInv, RawInv
        <5> QED
          BY Zenon, <2>4, <4>1, <5>1, <5>2
      <4> QED
        BY <4>2, <4>3
    <3> QED
      BY Zenon, <1>1, <2>4, <2>5, <3>1, <3>2 DEF RawInv, Complete, Reported
  <2>7. PassedInv'
    <3> SUFFICES ASSUME NEW p \in 1 .. index, Complete(p)
                 PROVE  (\E i \in 1 .. n + 1 : raw'[i].path = p) \/ ~ Matched(p)
      BY Zenon, <1>1, <2>4, <2>5 DEF PassedInv, Complete, Matched, Reported
    <3>1. CASE p = index
      <4>1. n + 1 \in 1 .. n + 1
        BY <2>4
      <4> QED
        BY <2>4, <3>1, <4>1
    <3>2. CASE p # index
      <4>1. p \in 1 .. Seen
        BY <1>2, <2>5, <3>2
      <4>2. DOMAIN out = {}
        BY <1>1
      <4>3. (\E i \in 1 .. n : raw[i].path = p) \/ ~ Matched(p)
        BY Zenon, <2>4, <4>1, <4>2 DEF ListInv, PassedInv
      <4>4. \A i \in 1 .. n : i \in 1 .. n + 1
        BY <2>4
      <4> QED
        BY Zenon, <2>4, <4>3, <4>4
    <3> QED
      BY <3>1, <3>2
  <2> QED
    BY <1>3, <1>4, <1>5, <2>6, <2>7 DEF ListInv
<1> QED
  BY <1>6, <1>7

\* What Manager.Scan does with the next descriptor: the list loses its head, the
\* devices gain it if it is claimed.
LEMMA WalkOn ==
  ASSUME TypeOK, Walking, raw' = Tail(raw)
  PROVE  /\ Len(raw) \in Nat /\ Len(raw) > 0
         /\ DOMAIN raw = 1 .. Len(raw) /\ DOMAIN raw' = 1 .. Len(raw) - 1
         /\ Head(raw) = raw[1]
         /\ \A i \in 1 .. Len(raw) - 1 : raw'[i] = raw[i + 1]
         /\ UNCHANGED <<system, phase, index, usage, error>> /\ phase = "loop"
<1>1. raw \in Seq(Raw) /\ raw # << >>
  BY DEF TypeOK, Walking
<1>2. UNCHANGED <<system, phase, index, usage, error>> /\ phase = "loop"
  BY DEF Walking, scanner
<1> QED
  BY <1>1, <1>2

\* The rest of the list is in order and as it was.
LEMMA RestOfRaw ==
  ASSUME TypeOK, ListInv, Walking, raw' = Tail(raw)
  PROVE  /\ IterationInv' /\ RawInv' /\ UNCHANGED Seen
         /\ \A j \in DOMAIN raw' : j + 1 \in DOMAIN raw /\ raw'[j] = raw[j + 1]
                                   /\ Head(raw).path < raw'[j].path
         /\ \A i \in DOMAIN raw : raw[i] = Head(raw) \/ \E j \in DOMAIN raw' : raw'[j] = raw[i]
<1> DEFINE n == Len(raw)
<1>1. /\ n \in Nat /\ n > 0 /\ DOMAIN raw = 1 .. n /\ DOMAIN raw' = 1 .. n - 1
      /\ Head(raw) = raw[1] /\ \A i \in 1 .. n - 1 : raw'[i] = raw[i + 1]
      /\ UNCHANGED <<system, phase, index, usage, error>> /\ phase = "loop"
  BY Zenon, WalkOn
<1> HIDE DEF n
<1>2. UNCHANGED Seen /\ IterationInv'
  BY <1>1 DEF Seen, IterationInv, Middle
<1>3. ASSUME NEW j \in 1 .. n - 1
      PROVE  j + 1 \in DOMAIN raw /\ raw'[j] = raw[j + 1] /\ Head(raw).path < raw'[j].path
  <2>1. j + 1 \in DOMAIN raw /\ 1 \in DOMAIN raw /\ 1 < j + 1
    BY <1>1
  <2>2. raw[1].path < raw[j + 1].path
    BY Zenon, <2>1 DEF ListInv, RawInv
  <2> QED
    BY Zenon, <1>1, <2>1, <2>2
<1>4. ASSUME NEW i \in DOMAIN raw
      PROVE  raw[i] = Head(raw) \/ \E j \in DOMAIN raw' : raw'[j] = raw[i]
  <2>1. CASE i = 1
    BY Zenon, <1>1, <2>1
  <2>2. CASE i # 1
    <3>1. i - 1 \in 1 .. n - 1 /\ (i - 1) + 1 = i
      BY <1>1, <2>2
    <3>2. raw'[i - 1] = raw[i]
      BY <1>1, <3>1
    <3> QED
      BY Zenon, <1>1, <3>1, <3>2
  <2> QED
    BY <2>1, <2>2
<1>5. RawInv'
  <2>1. ASSUME NEW i \in 1 .. n - 1
        PROVE  /\ raw'[i].path \in 1 .. Seen /\ Complete(raw'[i].path)
               /\ raw'[i].descriptor = Reported(system[raw'[i].path])
    BY Zenon, <1>3 DEF ListInv, RawInv
  <2>2. ASSUME NEW i \in 1 .. n - 1, NEW j \in 1 .. n - 1, i < j PROVE raw'[i].path < raw'[j].path
    <3>1. i + 1 < j + 1
      BY <1>1, <2>2
    <3> QED
      BY Zenon, <1>3, <3>1 DEF ListInv, RawInv
  <2> QED
    BY Zenon, <1>1, <1>2, <2>1, <2>2 DEF RawInv, Complete, Reported
<1> QED
  BY Zenon, <1>1, <1>2, <1>3, <1>4, <1>5

\* A descriptor nobody claims leaves the list; no driver matches it.
LEMMA SkipList == ASSUME TypeOK, ListInv, SkipUnclaimed PROVE ListInv'
<1> DEFINE p == Head(raw).path
<1>1. /\ Walking /\ raw' = Tail(raw) /\ Claim(Head(raw).descriptor) = None
      /\ UNCHANGED <<out, system, phase, index, error>> /\ phase = "loop"
  BY DEF SkipUnclaimed, Walking, scanner
<1>2. /\ IterationInv' /\ RawInv' /\ UNCHANGED Seen
      /\ \A j \in DOMAIN raw' : j + 1 \in DOMAIN raw /\ raw'[j] = raw[j + 1]
      /\ \A i \in DOMAIN raw : raw[i] = Head(raw) \/ \E j \in DOMAIN raw' : raw'[j] = raw[i]
  BY Zenon, <1>1, RestOfRaw
<1>3. ~ Matched(p)
  <2>1. 1 \in DOMAIN raw /\ Head(raw) = raw[1]
    BY <1>1, WalkOn
  <2>2. Head(raw).descriptor = Reported(system[p])
    BY Zenon, <2>1 DEF ListInv, RawInv
  <2> QED
    BY Zenon, <1>1, <2>2, UnclaimedIsUnmatched DEF Matched
<1>4. OutInv'
  <2>1. \A i \in DOMAIN out : \A j \in DOMAIN raw' : out[i].info.path < raw'[j].path
    BY Zenon, <1>2 DEF ListInv, OutInv
  <2> QED
    BY Zenon, <1>1, <2>1 DEF ListInv, OutInv, Complete, Reported
<1>5. PassedInv'
  <2> SUFFICES ASSUME NEW q \in 1 .. Seen, Complete(q)
               PROVE  \/ \E i \in DOMAIN raw' : raw'[i].path = q
                      \/ \E i \in DOMAIN out : out[i].info.path = q
                      \/ ~ Matched(q)
    BY Zenon, <1>1, <1>2 DEF PassedInv, Complete, Matched, Reported
  <2>1. \/ \E i \in DOMAIN raw : raw[i].path = q
        \/ \E i \in DOMAIN out : out[i].info.path = q
        \/ ~ Matched(q)
    BY Zenon DEF ListInv, PassedInv
  <2> QED
    BY Zenon, <1>2, <1>3, <2>1
<1>6. EndInv'
  BY <1>1 DEF ListInv, EndInv
<1> QED
  BY Zenon, <1>2, <1>4, <1>5, <1>6 DEF ListInv

\* One that is claimed becomes the last of the devices found.
LEMMA TakeList == ASSUME TypeOK, ListInv, TakeClaimed PROVE ListInv'
<1> DEFINE p == Head(raw).path
           m == Len(out)
<1>1. /\ Walking /\ raw' = Tail(raw)
      /\ UNCHANGED <<system, phase, index, error>> /\ phase = "loop"
  BY DEF TakeClaimed, Walking, scanner
<1>2. /\ IterationInv' /\ RawInv' /\ UNCHANGED Seen
      /\ \A j \in DOMAIN raw' : j + 1 \in DOMAIN raw /\ raw'[j] = raw[j + 1] /\ p < raw'[j].path
      /\ \A i \in DOMAIN raw : raw[i] = Head(raw) \/ \E j \in DOMAIN raw' : raw'[j] = raw[i]
  BY Zenon, <1>1, RestOfRaw
<1>3. /\ 1 \in DOMAIN raw /\ Head(raw) = raw[1] /\ out \in Seq(Entry) /\ system \in Seq(Collection)
      /\ index = Len(system)
  BY <1>1, WalkOn DEF TypeOK, ListInv, EndInv
<1>4. /\ p \in DOMAIN system /\ Complete(p) /\ Head(raw).descriptor = Reported(system[p])
      /\ \A i \in DOMAIN out : out[i].info.path < p
  <2>1. p \in 1 .. Seen /\ Complete(p) /\ Head(raw).descriptor = Reported(system[p])
    BY Zenon, <1>3 DEF ListInv, RawInv
  <2>2. Seen = Len(system)
    BY <1>1, <1>3 DEF Seen, Middle
  <2>3. DOMAIN system = 1 .. Len(system)
    BY <1>3
  <2>4. \A i \in DOMAIN out : out[i].info.path < p
    BY Zenon, <1>3 DEF ListInv, OutInv
  <2> QED
    BY Zenon, <2>1, <2>2, <2>3, <2>4
<1>5. /\ m \in Nat /\ DOMAIN out = 1 .. m /\ DOMAIN out' = 1 .. m + 1
      /\ \A i \in 1 .. m : out'[i] = out[i]
      /\ out'[m + 1].info.path = p /\ out'[m + 1].info.descriptor = Head(raw).descriptor
  <2> DEFINE found == [path |-> p, descriptor |-> Head(raw).descriptor,
                       model |-> Describe(Claim(Head(raw).descriptor), Head(raw).descriptor)]
             taken == [info |-> found, driver |-> Claim(Head(raw).descriptor)]
  <2>1. out' = Append(out, taken)
    BY Zenon DEF TakeClaimed
  <2>2. taken.info.path = p /\ taken.info.descriptor = Head(raw).descriptor
    OBVIOUS
  <2> HIDE DEF taken, p
  <2>3. /\ m \in Nat /\ DOMAIN out = 1 .. m /\ DOMAIN out' = 1 .. m + 1
        /\ \A i \in 1 .. m : out'[i] = out[i]
        /\ out'[m + 1] = taken
    BY <1>3, <2>1
  <2> QED
    BY Zenon, <2>2, <2>3
<1> HIDE DEF m, p
<1>6. OutInv'
  <2>1. ASSUME NEW i \in 1 .. m + 1
        PROVE  /\ out'[i].info.path \in DOMAIN system /\ Complete(out'[i].info.path)
               /\ out'[i].info.descriptor = Reported(system[out'[i].info.path])
               /\ \A j \in DOMAIN raw' : out'[i].info.path < raw'[j].path
    <3>1. CASE i = m + 1
      BY Zenon, <1>2, <1>4, <1>5, <3>1
    <3>2. CASE i # m + 1
      <4>1. i \in 1 .. m
        BY <1>5, <3>2
      <4>2. /\ out[i].info.path \in DOMAIN system /\ Complete(out[i].info.path)
            /\ out[i].info.descriptor = Reported(system[out[i].info.path])
            /\ \A j \in DOMAIN raw : out[i].info.path < raw[j].path
        BY Zenon, <1>5, <4>1 DEF ListInv, OutInv
      <4> QED
        BY Zenon, <1>2, <1>5, <4>1, <4>2
    <3> QED
      BY <3>1, <3>2
  <2>2. ASSUME NEW i \in 1 .. m + 1, NEW j \in 1 .. m + 1, i < j
        PROVE  out'[i].info.path < out'[j].info.path
    <3>1. i \in 1 .. m
      BY <1>5, <2>2
    <3>2. CASE j = m + 1
      BY Zenon, <1>4, <1>5, <3>1, <3>2
    <3>3. CASE j # m + 1
      <4>1. j \in 1 .. m
        BY <1>5, <3>3
      <4>2. out[i].info.path < out[j].info.path
        BY Zenon, <1>5, <2>2, <3>1, <4>1 DEF ListInv, OutInv
      <4> QED
        BY Zenon, <1>5, <3>1, <4>1, <4>2
    <3> QED
      BY <3>2, <3>3
  <2> QED
    BY Zenon, <1>1, <1>5, <2>1, <2>2 DEF OutInv, Complete, Reported
<1>7. PassedInv'
  <2> SUFFICES ASSUME NEW q \in 1 .. Seen, Complete(q)
               PROVE  \/ \E i \in DOMAIN raw' : raw'[i].path = q
                      \/ \E i \in DOMAIN out' : out'[i].info.path = q
                      \/ ~ Matched(q)
    BY Zenon, <1>1, <1>2 DEF PassedInv, Complete, Matched, Reported
  <2>1. \/ \E i \in DOMAIN raw : raw[i].path = q
        \/ \E i \in DOMAIN out : out[i].info.path = q
        \/ ~ Matched(q)
    BY Zenon DEF ListInv, PassedInv
  <2>2. m + 1 \in DOMAIN out' /\ \A i \in DOMAIN out : i \in DOMAIN out' /\ out'[i] = out[i]
    BY <1>5
  <2>3. Head(raw).path = p
    BY DEF p
  <2> QED
    <3>1. ASSUME NEW i \in DOMAIN raw, raw[i].path = q
          PROVE  q = p \/ \E j \in DOMAIN raw' : raw'[j].path = q
      BY Zenon, <1>2, <2>3, <3>1
    <3>2. ASSUME NEW i \in DOMAIN out, out[i].info.path = q
          PROVE  \E j \in DOMAIN out' : out'[j].info.path = q
      BY Zenon, <2>2, <3>2
    <3>3. q = p => \E j \in DOMAIN out' : out'[j].info.path = q
      BY Zenon, <1>5, <2>2
    <3> QED
      BY Zenon, <2>1, <3>1, <3>2, <3>3
<1>8. EndInv'
  BY <1>1 DEF ListInv, EndInv
<1> QED
  BY Zenon, <1>2, <1>6, <1>7, <1>8 DEF ListInv

\* A Scan that succeeded has every collection it should have, once, in order and
\* as it was reported: for any number of collections, drivers and faults.
THEOREM NothingEverMissed == Spec => []NothingMissed
<1>1. Init => ListInv
  BY DEF Init, ListInv, IterationInv, RawInv, OutInv, PassedInv, EndInv, Middle, Seen
<1>2. TypeOK /\ ListInv /\ [Next]_vars => ListInv'
  <2> SUFFICES ASSUME TypeOK, ListInv, [Next]_vars PROVE ListInv'
    OBVIOUS
  <2>1. CASE UNCHANGED <<system, phase, index, usage, raw, out, error>>
    <3>1. UNCHANGED Seen
      BY <2>1 DEF Seen
    <3> QED
      BY <2>1, <3>1 DEF ListInv, IterationInv, RawInv, OutInv, PassedInv, EndInv, Complete, Matched,
                  Reported
  <2>2. CASE ScanReturns
    <3>1. phase = "loop" /\ phase' = "done" /\ raw = << >>
          /\ UNCHANGED <<system, index, usage, raw, out, error>>
      BY <2>2 DEF ScanReturns, Goes, scanner
    <3>2. UNCHANGED Seen
      BY <3>1 DEF Seen, Middle
    <3> QED
      BY <3>1, <3>2 DEF ListInv, IterationInv, RawInv, OutInv, PassedInv, EndInv, Complete, Matched,
                        Reported, Middle
  <2>3. UNCHANGED vars => UNCHANGED <<system, phase, index, usage, raw, out, error>>
    BY DEF vars, scanner
  <2> QED
    BY <2>1, <2>2, <2>3, ScanningList, SkipList, TakeList DEF Next
<1>3. TypeOK /\ ClaimInv /\ ListInv => NothingMissed
  <2> SUFFICES ASSUME TypeOK, ClaimInv, ListInv, phase = "done", error = "none"
               PROVE  LET wanted == {p \in DOMAIN system : Complete(p) /\ Matched(p)}
                      IN  /\ {out[i].info.path : i \in DOMAIN out} = wanted
                          /\ \A i, j \in DOMAIN out : i < j => out[i].info.path < out[j].info.path
                          /\ \A i \in DOMAIN out :
                                out[i].info.descriptor = Reported(system[out[i].info.path])
    BY Zenon DEF NothingMissed, Complete, Matched
  <2>1. index = Len(system) /\ raw = << >> /\ DOMAIN system = 1 .. Len(system) /\ Seen = Len(system)
    BY DEF ListInv, EndInv, TypeOK, Seen, Middle
  <2>2. DOMAIN raw = {}
    BY <2>1
  <2>3. \A i \in DOMAIN out : Matched(out[i].info.path)
    BY Zenon DEF ClaimInv, IsFirstMatch, ListInv, OutInv, Matched
  <2> QED
    BY Zenon, <2>1, <2>2, <2>3 DEF ListInv, OutInv, PassedInv
<1> QED
  BY <1>1, <1>2, <1>3, Claims, PTL DEF Spec

=============================================================================
