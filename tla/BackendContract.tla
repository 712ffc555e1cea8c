-------------------------- MODULE BackendContract --------------------------
(***************************************************************************)
(* What the Manager relies on when it runs an inputBackend: one answer on  *)
(* ready, sink calls only between the start of run and its return, events  *)
(* only after the answer and only of attached devices, and no button left  *)
(* pressed nor device left listed when run returns.                        *)
(*                                                                         *)
(* The actions are those the Manager's backend goroutine takes in module   *)
(* Manager; sink.report and sink.syncAxis change nothing here.             *)
(***************************************************************************)
CONSTANTS Devices, Buttons

VARIABLES
    phase,     \* "init", "run", "release" or "returned"
    answer,    \* what was sent on ready: "none", "ok" or "err"
    attached,  \* devices whose controls are read
    held,      \* pairs of a device and a button the backend holds down
    listed,    \* the devices of the last setDevices
    lost       \* run returns an error

vars == <<phase, answer, attached, held, listed, lost>>

Init ==
    /\ phase = "init" /\ answer = "none" /\ lost = FALSE
    /\ attached = {} /\ held = {} /\ listed = {}

Attach(d, buttons) ==
    /\ phase \in {"init", "run"} /\ d \notin attached
    /\ attached' = attached \cup {d}
    /\ held' = held \cup ({d} \X buttons)
    /\ UNCHANGED <<phase, answer, listed, lost>>

Detach(d) ==
    /\ phase = "run" /\ d \in attached /\ \A h \in held : h[1] # d
    /\ attached' = attached \ {d}
    /\ UNCHANGED <<phase, answer, held, listed, lost>>

SetDevices(ds) ==
    /\ phase \in {"init", "run"} /\ attached \subseteq ds
    /\ listed' = ds
    /\ UNCHANGED <<phase, answer, attached, held, lost>>

Button(d, b) ==
    /\ phase = "run" /\ d \in attached
    /\ held' = IF <<d, b>> \in held THEN held \ {<<d, b>>} ELSE held \cup {<<d, b>>}
    /\ UNCHANGED <<phase, answer, attached, listed, lost>>

ReleaseButton(h) ==
    /\ phase = "release" /\ h \in held
    /\ held' = held \ {h}
    /\ UNCHANGED <<phase, answer, attached, listed, lost>>

Ready ==
    /\ phase = "init" /\ phase' = "run" /\ answer' = "ok"
    /\ UNCHANGED <<attached, held, listed, lost>>

\* An attached device of a backend that stops is only good for its releases.
Ends(from) == phase = from /\ phase' = "release" /\ attached' = {} /\ UNCHANGED <<held, listed>>

InitFails == Ends("init") /\ answer' = "err" /\ UNCHANGED lost
Stops == Ends("run") /\ UNCHANGED <<answer, lost>>
Dies == Ends("run") /\ lost' = TRUE /\ UNCHANGED answer

Unlist ==
    /\ phase = "release" /\ held = {}
    /\ listed' = {}
    /\ UNCHANGED <<phase, answer, attached, held, lost>>

Return ==
    /\ phase = "release" /\ held = {} /\ listed = {}
    /\ phase' = "returned"
    /\ UNCHANGED <<answer, attached, held, listed, lost>>

Next ==
    \/ \E d \in Devices :
        \/ \E bs \in SUBSET Buttons : Attach(d, bs)
        \/ Detach(d)
        \/ \E b \in Buttons : Button(d, b) \/ ReleaseButton(<<d, b>>)
    \/ \E ds \in SUBSET Devices : SetDevices(ds)
    \/ Ready \/ InitFails \/ Stops \/ Dies \/ Unlist \/ Return

Spec == Init /\ [][Next]_vars
=============================================================================
