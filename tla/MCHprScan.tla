----------------------------- MODULE MCHprScan -----------------------------
(***************************************************************************)
(* Instances of HprScan for TLC: a vendor's driver and the Simagic one, in *)
(* this order; the vendor's claims every collection that names itself a    *)
(* P700.                                                                   *)
(***************************************************************************)
EXTENDS HprScan

MCDrivers == <<"vendor", "simagic">>
MCOtherMatches == [d \in {"vendor"} |-> {x \in Descriptor : "P700" \in x.names}]

\* No name, one name, or that of an Alpha Pedal Neo that quotes another product.
MCNames == {{}, {"P500"}, {"P700"}, {"P1000"}, {"ALPHA PEDAL NEO"}}
    \cup {{"ALPHA PEDAL NEO", n} : n \in {"P500", "P700"}}

MCDescriptors ==
    [controller : BOOLEAN, ids : {"P500", "P700", "P1000", "other"}, names : MCNames]

\* One collection of any kind, with any fault.
MCSingles == {<<c>> : c \in [descriptor : MCDescriptors, fault : Faults]}

\* Two of any kind without fault.
MCPairs == {<<c, d>> : c, d \in [descriptor : MCDescriptors, fault : {"none"}]}

\* Three, a pedal set or not, with any faults.
MCTypical ==
    {[controller |-> TRUE, ids |-> "P500", names |-> {"ALPHA PEDAL NEO"}],
     [controller |-> TRUE, ids |-> "other", names |-> {}]}

MCTriples == {<<c, d, e>> : c, d, e \in [descriptor : MCTypical, fault : Faults]}

AllSystems == {<< >>} \cup MCSingles \cup MCPairs \cup MCTriples
=============================================================================
