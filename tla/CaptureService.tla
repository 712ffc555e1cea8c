--------------------------- MODULE CaptureService ---------------------------
(***************************************************************************)
(* What Capture and CaptureAxis promise together, without the streams, the *)
(* devices and the goroutine behind them: a slot one caller at a time may  *)
(* hold, given to that caller, answered once and freed before it returns.  *)
(***************************************************************************)
CONSTANTS Callers, None

VARIABLES
    open,   \* requests are accepted
    slot,   \* the caller whose request is registered, or None
    call    \* the state of each caller

vars == <<open, slot, call>>

CallState == {"idle", "waiting", "answered", "leaving"}

Init ==
    /\ open = FALSE
    /\ slot = None
    /\ call = [c \in Callers |-> "idle"]

Open == ~ open /\ open' = TRUE /\ UNCHANGED <<slot, call>>

Request(c) ==
    /\ open /\ slot = None /\ call[c] = "idle"
    /\ slot' = c
    /\ call' = [call EXCEPT ![c] = "waiting"]
    /\ UNCHANGED open

\* An answer frees the slot.  Its caller may have given up in the meantime.
Answer ==
    /\ slot # None
    /\ slot' = None
    /\ call' = IF call[slot] = "waiting"
               THEN [call EXCEPT ![slot] = "answered"] ELSE call
    /\ UNCHANGED open

\* Shutting down refuses new requests and, at once or later, throws away the
\* registered one; its caller leaves by itself.
Shut ==
    /\ open \/ slot # None
    /\ open' = FALSE
    /\ slot' \in {slot, None}
    /\ UNCHANGED call

Leave(c) ==
    /\ call[c] \in {"waiting", "answered"}
    /\ call' = [call EXCEPT ![c] = "leaving"]
    /\ UNCHANGED <<open, slot>>

\* A caller frees its own slot and nobody else's.
Return(c) ==
    /\ call[c] = "leaving"
    /\ call' = [call EXCEPT ![c] = "idle"]
    /\ slot' = IF slot = c THEN None ELSE slot
    /\ UNCHANGED open

Next ==
    \/ Open \/ Shut \/ Answer
    \/ \E c \in Callers : Request(c) \/ Leave(c) \/ Return(c)

Spec == Init /\ [][Next]_vars
=============================================================================
