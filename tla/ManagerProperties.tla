------------------------- MODULE ManagerProperties -------------------------
(***************************************************************************)
(* What the Manager must never do, what it promises, and what it must      *)
(* eventually do.                                                          *)
(***************************************************************************)
EXTENDS Manager

\* Every variable holds a value of its type, and no stream outgrows its buffer.
TypeOK ==
    /\ optionErr \in BOOLEAN /\ started \in BOOLEAN /\ closed \in BOOLEAN
    /\ owner \in Starters \cup {None}
    /\ finishOnce \in BOOLEAN /\ chansClosed \in BOOLEAN /\ cancelled \in BOOLEAN
    /\ wg \in {0, 1} /\ ctxDone \subseteq Starters
    /\ ready \in {"empty", "ok", "err"}
    /\ spc \in [Starters -> StartPhase]
    /\ cpc \in [Closers -> ClosePhase] /\ sawRunning \subseteq Closers
    /\ events \in Seq(ButtonEvent) /\ Len(events) <= EventBufferSize
    /\ axisEvents \in Seq(AxisEvent) /\ Len(axisEvents) <= EventBufferSize
    /\ errors \in Seq(Error) /\ Len(errors) <= ErrorBufferSize
    /\ axisEventsEnabled \in BOOLEAN /\ lossReported \in BOOLEAN
    /\ view \subseteq Buttons
    /\ capture \in Capturers \cup {None}
    /\ axisCapture \in Capturers \cup {None}
    /\ kpc \in [Capturers -> CapturePhase]
    /\ kind \in [Capturers -> {"button", "axis"}]
    /\ result \in [Capturers -> Buttons \cup AxisBinding \cup {None}]
    /\ baselines \in [Capturers -> [Axes -> MaybePosition]]
    /\ firstPress \in [Capturers -> Buttons \cup {None}]
    /\ startPos \in [Capturers -> [Axes -> MaybePosition]]
    /\ devices \subseteq Devices /\ axisValues \in [Axes -> MaybePosition]
    /\ bpc \in BackendPhase /\ runErr \in BOOLEAN
    /\ attached \subseteq Devices /\ down \subseteq Buttons
    /\ pending \in ButtonEvent \cup AxisEvent \cup {None}

-----------------------------------------------------------------------------
(* Safety *)

\* Nothing is ever sent on a closed channel and no channel is closed twice,
\* either of which panics: once the channels are closed the backend is past
\* its last send or will never be spawned, and whoever reaches finish, Close
\* or the backend, is the first to do so.  (Close, finish, emitButton, report)
NoPanic ==
    /\ chansClosed =>
        /\ bpc \in {"none", "exiting", "exited"}
        /\ \A s \in Starters : spc[s] # "spawn"
    /\ bpc = "finishLock" => ~ finishOnce
    /\ bpc = "finishClose" => ~ chansClosed
    /\ \A c \in Closers : cpc[c] = "finishLock" => ~ finishOnce
    /\ \A c \in Closers : cpc[c] = "finishClose" => ~ chansClosed

\* "A Manager may be started only once": however many goroutines race in
\* Start, one of them alone gets past the checks, and it owns the run context
\* the backend goroutine lives under.
StartsOnce ==
    \A s \in Starters : spc[s] \notin {"idle", "rejected"} => started /\ owner = s

\* Everything the backend held is given back and the streams are closed.
AllReleased ==
    /\ bpc = "exited" /\ chansClosed
    /\ attached = {} /\ devices = {} /\ axisValues = NoPositions

\* A Start that returns an error after it spawned the backend leaves nothing
\* behind: it has waited for the goroutine to release everything.
StartErrorReleases ==
    \A s \in Starters : spc[s] = "failed" => AllReleased

\* The Close that closes the manager returns only when the backend goroutine
\* it found running has released everything.
FirstCloseReleases ==
    \A c \in Closers : cpc[c] = "returned" /\ c \in sawRunning => AllReleased

\* A caller blocked in Capture or CaptureAxis can always still be woken: its
\* request is registered, or its answer is waiting, or finish is under way.
\* The deferred clearing of one call must not wipe out the next one's request.
NoStrandedCapture ==
    \A k \in Capturers : kpc[k] = "select" =>
        \/ kind[k] = "button" /\ capture = k
        \/ kind[k] = "axis" /\ axisCapture = k
        \/ result[k] # None
        \/ finishOnce

\* "Only one capture may be active at a time", counting both kinds: at most
\* one caller is blocked without an answer.
OneCaptureWaits ==
    \A j, k \in Capturers :
        /\ kpc[j] = "select" /\ result[j] = None
        /\ kpc[k] = "select" /\ result[k] = None
        => j = k

\* "Capture waits for the next newly pressed button": as long as the caller
\* is blocked, its answer is the first press emitted since it registered, and
\* there is an answer as soon as there is such a press.
CaptureFindsFirstPress ==
    \A k \in Capturers :
        kpc[k] = "select" /\ kind[k] = "button" => result[k] = firstPress[k]

\* "Baseline is the normalized position at the start of capture": true of
\* every axis whose position was known when CaptureAxis registered.
AxisBaselineIsStart ==
    \A k \in Capturers : kind[k] = "axis" /\ result[k] # None =>
        startPos[k][result[k].axis] \in {result[k].baseline, None}

\* The position a binding is measured from is the one the program had first.
BaselinesKept ==
    \A k \in Capturers : kpc[k] # "idle" /\ kind[k] = "axis" =>
        \A a \in Axes : startPos[k][a] \in {baselines[k][a], None}

\* The events a reader has yet to see, the one about to be sent included.
Coming == IF pending \in ButtonEvent THEN Append(events, pending) ELSE events

\* Whether a reader that holds the buttons in pressed down holds b down once it
\* has read s: by the last edge of b in s, if there is one.
StaysPressed(s, pressed, b) ==
    \/ b \in pressed /\ \A i \in DOMAIN s : s[i].button # b
    \/ \E i \in DOMAIN s : /\ s[i].button = b /\ s[i].pressed
                           /\ \A j \in DOMAIN s : s[j].button = b => j <= i

\* What the reader of Events will believe once it has read all there is.
BelievedPressed == {b \in Buttons : StaysPressed(Coming, view, b)}

\* A reader that drains Events never keeps a button pressed that the backend
\* has released, unplugged or let go of in its shutdown, unless an edge was
\* dropped, and then ErrEventBufferFull was reported.
NoStuckPress == BelievedPressed \subseteq down \/ lossReported

\* The two kinds of capture share one slot and one life cycle.
Service == INSTANCE CaptureService WITH
    Callers <- Capturers,
    open <- started /\ ~ closed,
    slot <- IF capture # None THEN capture ELSE axisCapture,
    call <- [k \in Capturers |->
                CASE kpc[k] = "idle" -> "idle"
                  [] kpc[k] = "select" -> IF result[k] = None THEN "waiting" ELSE "answered"
                  [] OTHER -> "leaving"]

\* Capture and CaptureAxis implement the service: the slot is taken only when
\* free, freed with the answer, and never freed on behalf of another caller.
ServesCaptures == Service!Spec

-----------------------------------------------------------------------------
(* Why the safety properties hold: inductive with TypeOK *)

Passed(s)  == spc[s] \notin {"idle", "rejected"}
Spawned(s) == spc[s] \in {"select", "wait", "ok", "failed"}
Shuts(c)   == cpc[c] \notin {"idle", "noop"}

BackendAlive    == bpc \in {"init", "run", "release", "returned", "finishLock",
                            "finishClose", "exiting"}
BackendReleases == bpc \in {"returned", "finishLock", "finishClose", "exiting", "exited"}

\* One Start owns the backend, and the WaitGroup counts it.
OwnerInv ==
    /\ StartsOnce
    /\ ~ started => bpc = "none"
    /\ \A s \in Starters : (spc[s] = "spawn" => bpc = "none") /\ (Spawned(s) => bpc # "none")
    /\ wg = 1 <=> BackendAlive

\* Either the backend runs finish, after its last send, or a Close that came
\* before every Start.
FinishInv ==
    /\ finishOnce => closed
    /\ chansClosed => finishOnce
    /\ started /\ bpc = "none" => ~ finishOnce
    /\ bpc \in {"init", "run", "release", "returned", "finishLock"} => ~ finishOnce
    /\ bpc = "finishClose" => finishOnce /\ ~ chansClosed
    /\ bpc \in {"exiting", "exited"} => chansClosed
    /\ \A c, d \in Closers : Shuts(c) /\ Shuts(d) => c = d
    /\ \A c \in Closers :
        /\ Shuts(c) => closed
        /\ cpc[c] \in {"finishLock", "finishClose"} => ~ started
        /\ cpc[c] = "finishLock" => ~ finishOnce
        /\ cpc[c] = "finishClose" => finishOnce /\ ~ chansClosed

\* What the backend held is given back before finish.
ReleaseInv ==
    /\ BackendReleases => attached = {} /\ devices = {} /\ axisValues = NoPositions
    /\ sawRunning # {} => bpc # "none"
    /\ StartErrorReleases /\ FirstCloseReleases

\* The life cycle of the manager hangs together: the strengthening under which
\* NoPanic, StartsOnce, StartErrorReleases and FirstCloseReleases are inductive.
LifecycleInv == OwnerInv /\ FinishInv /\ ReleaseInv

\* A registered request belongs to a caller that has not returned and has no
\* answer yet; a caller outside Capture has left nothing behind.
SlotInv ==
    /\ capture = None \/ axisCapture = None
    /\ \A k \in Capturers :
        /\ capture = k => kind[k] = "button"
        /\ axisCapture = k => kind[k] = "axis"
        /\ capture = k \/ axisCapture = k =>
                kpc[k] \in {"select", "leave"} /\ result[k] = None
        /\ kpc[k] = "idle" => result[k] = None /\ firstPress[k] = None

\* The captures hang together: the strengthening under which NoStrandedCapture,
\* OneCaptureWaits, CaptureFindsFirstPress and AxisBaselineIsStart are inductive.
CaptureInv ==
    /\ SlotInv /\ NoStrandedCapture /\ OneCaptureWaits
    /\ CaptureFindsFirstPress /\ BaselinesKept /\ AxisBaselineIsStart

-----------------------------------------------------------------------------
(* What the comment on Close promises, and the code does not keep *)

Collecting == bpc \in {"init", "run", "release"}

\* "Close stops input collection and releases all DirectInput and window
\* resources": once Close has returned, no backend is at work.  It fails when
\* Close comes between the unlock in Start and its wg.Add.
CloseReleases == \A c \in Closers : cpc[c] = "returned" => ~ Collecting

-----------------------------------------------------------------------------
(* Liveness, under FairSpec *)

\* Close returns, even if nobody reads any of the streams.
CloseReturns ==
    \A c \in Closers : cpc[c] # "idle" ~> cpc[c] \in {"returned", "noop"}

\* Start returns, with or without an error.
StartReturns ==
    \A s \in Starters : spc[s] = "spawn" ~> spc[s] \in {"ok", "failed"}

\* A cancelled run context wakes every caller blocked in a capture.
CancelEndsCaptures ==
    \A k \in Capturers : kpc[k] = "select" /\ RunCtxDone ~> kpc[k] = "idle"

\* A backend that gives up, for whatever reason, ends in closed streams, so
\* that a reader ranging over them terminates.
BackendEndClosesStreams == bpc = "release" ~> chansClosed

=============================================================================
