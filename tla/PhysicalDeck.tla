----------------------------- MODULE PhysicalDeck -----------------------------
(***************************************************************************)
(* The physical D200 of one runtime: the supervisor that opens the USB     *)
(* device, replaces it after a disconnect and repaints it (deckapp/sinks.py*)
(* D200Sink and ReconnectingD200Sink), the worker that writes to it        *)
(* (driver/render_pump.py, driver/d200.py), the machine-wide lock          *)
(* (deckapp/device_lock.py) and the HTTP thread that asks for a restart.   *)
(*                                                                         *)
(* Frames are numbered as DeckApp renders them and delivered one at a time.*)
(* A ticker frame only animates: the D200 skips it, as each write blinks.  *)
(***************************************************************************)
EXTENDS Integers, FiniteSets

CONSTANTS
    MaxFrames,    \* bound: frames that change more than the animation
    MaxTickers,   \* bound: ticker frames (a browser reads /state)
    MaxFaults,    \* bound: failed opens, disconnects, lost composes
    MaxConfigs    \* bound: changes of the [hardware] configuration

VARIABLES
    rendered,     \* the newest non-ticker frame delivered
    latest,       \* _latest_frame
    tickers,      \* ticker frames so far
    delivering,   \* a frame on its way to the sink read under _lock
    lock,         \* who holds d200.lock
    sup,          \* where _run is
    active,       \* _active: the open driver is published
    device,       \* the device: closed, or open and driven
    built,        \* the configuration the driver was built from
    gone,         \* `disconnected` of the current driver
    wake, reconfigure, stopping,
    pump,         \* the frame pending in RenderPump
    shown,        \* what the device displays (Blank: its firmware page)
    written,      \* _last_frame_buttons
    failed,       \* the newest frame whose write failed (history)
    config,       \* app.config
    setter,       \* a caller between _reconfigure.set() and _wake.set()
    attempts,     \* _attempts_started, _finished, _attempt_error
    restart,      \* the HTTP thread inside restart()
    faults

vars == <<rendered, latest, tickers, delivering, lock, sup, active, device, built, gone,
          wake, reconfigure, stopping, pump, shown, written, failed, config, setter, attempts,
          restart, faults>>

frames == <<rendered, latest, tickers, delivering>>
screen == <<pump, shown, written, failed>>
flags  == <<wake, reconfigure, stopping>>
asks   == <<config, setter, restart>>

Blank    == 0                \* also: no frame
NoFrame  == [n |-> 0, ticker |-> FALSE]
Frame(n, ticker) == [n |-> n, ticker |-> ticker]

TypeOK ==
    /\ rendered \in 0..MaxFrames /\ tickers \in 0..MaxTickers
    /\ {latest, delivering.frame} \subseteq [n : 0..MaxFrames, ticker : BOOLEAN]
    /\ delivering.to \in Nat
    /\ lock \in {"free", "us", "other"}
    /\ sup \in {"lock", "clear", "open", "opened", "check", "wait", "woken", "close", "over"}
    /\ {active, device, gone, wake, reconfigure, stopping, setter} \subseteq BOOLEAN
    /\ {config, built} \subseteq 0..MaxConfigs
    /\ {pump, shown, written, failed} \subseteq 0..MaxFrames
    /\ attempts.finished <= attempts.started /\ restart.target <= attempts.started + 1
    /\ restart.pc \in {"idle", "flagged", "waiting", "reopened", "failed", "locked"}
    /\ faults \in 0..MaxFaults

Init ==
    /\ rendered = 0 /\ latest = NoFrame /\ tickers = 0
    /\ delivering = [frame |-> NoFrame, to |-> 0]
    /\ lock \in {"free", "other"} /\ sup = "lock"
    /\ active = FALSE /\ device = FALSE /\ built = 0 /\ gone = FALSE
    /\ wake = FALSE /\ reconfigure = FALSE /\ stopping = FALSE
    /\ pump = Blank /\ shown = Blank /\ written = Blank /\ failed = Blank
    /\ config = 0 /\ setter = FALSE
    /\ attempts = [started |-> 0, finished |-> 0, error |-> FALSE, ok |-> 0]
    /\ restart = [pc |-> "idle", target |-> 0, asked |-> 0]
    /\ faults = 0

-----------------------------------------------------------------------------
(* The pump and the driver.                                                *)

\* submit: the newest frame of the channel replaces the one still pending.
\* D200Sink.deliver ignores ticker frames.
Submitted(frame) == IF frame.ticker \/ frame.n = 0 THEN pump ELSE frame.n

\* Mutant: a frame counts as written before it is.
WrittenFirst(n, ok) == n

\* _last_frame_buttons names what the device was given.
Written(n, ok) == IF ok THEN n ELSE written

\* _write_frame: an identical frame is skipped; composing the panel or
\* building the write may fail, which leaves the signature alone.  A write to
\* a device that is gone is lost in the worker's drain.
WriteFrame(n) ==
    IF n = written THEN UNCHANGED <<shown, written, failed, faults>>
    ELSE \E ok \in BOOLEAN :
           /\ ok \/ faults < MaxFaults
           /\ faults' = IF ok THEN faults ELSE faults + 1
           /\ shown' = IF ok /\ ~gone THEN n ELSE shown
           /\ written' = Written(n, ok)
           /\ failed' = IF ok THEN failed ELSE n

\* The worker takes what is pending and paints it.
Paint ==
    /\ device /\ pump # Blank
    /\ pump' = Blank
    /\ WriteFrame(pump)
    /\ UNCHANGED <<frames, lock, sup, active, device, built, gone, flags, asks, attempts>>

\* DeckApp renders, under its own lock: deliver retains the frame and reads
\* the active sink.
Deliver(ticker) ==
    /\ delivering.frame = NoFrame
    /\ IF ticker THEN rendered > 0 /\ tickers < MaxTickers ELSE rendered < MaxFrames
    /\ rendered' = IF ticker THEN rendered ELSE rendered + 1
    /\ tickers' = IF ticker THEN tickers + 1 ELSE tickers
    /\ latest' = Frame(rendered', ticker)
    /\ delivering' = [frame |-> latest', to |-> IF active THEN attempts.started ELSE 0]
    /\ UNCHANGED <<lock, sup, active, device, built, gone, flags, screen, asks, attempts,
                   faults>>

\* Its second half, outside _lock.  A frame for a driver that was closed
\* meanwhile fails.
DeliverToSink ==
    /\ delivering.frame # NoFrame
    /\ pump' = IF active /\ delivering.to = attempts.started
                THEN Submitted(delivering.frame) ELSE pump
    /\ delivering' = [frame |-> NoFrame, to |-> 0]
    /\ UNCHANGED <<rendered, latest, tickers, lock, sup, active, device, built, gone, flags,
                   shown, written, failed, asks, attempts, faults>>

-----------------------------------------------------------------------------
(* The supervisor thread.                                                  *)

\* _owns_device: another runtime's lock is waited out.
TakeLock ==
    /\ sup = "lock"
    /\ \/ stopping /\ sup' = "over" /\ UNCHANGED lock
       \/ ~stopping /\ lock # "other" /\ lock' = "us" /\ sup' = "clear"
    /\ UNCHANGED <<frames, active, device, built, gone, flags, screen, asks, attempts, faults>>

\* _reconfigure.clear and _attempt_started.
ClearReconfigure ==
    /\ sup = "clear" /\ sup' = "open"
    /\ reconfigure' = FALSE
    /\ attempts' = [attempts EXCEPT !.started = @ + 1]
    /\ UNCHANGED <<frames, lock, active, device, built, gone, wake, stopping, screen, asks,
                   faults>>

Done(error) == [attempts EXCEPT !.finished = attempts.started, !.error = error,
                                !.ok = IF error THEN @ ELSE attempts.started]

\* The driver factory opens the device with the configuration it finds, and
\* the firmware shows its own page; or it fails and is retried.
Open ==
    /\ sup = "open"
    /\ \/ /\ device' = TRUE /\ built' = config /\ sup' = "opened" /\ gone' = FALSE
          /\ pump' = Blank /\ shown' = Blank /\ written' = Blank
          /\ UNCHANGED <<failed, attempts, faults>>
       \/ /\ faults < MaxFaults /\ faults' = faults + 1
          /\ attempts' = Done(TRUE) /\ sup' = "lock"
          /\ UNCHANGED <<device, built, gone, screen>>
    /\ UNCHANGED <<frames, lock, active, flags, asks>>

\* Mutant: the frame retained while the device was away is not painted.
RetainedForgotten == pump

\* What the new driver is given before it is published.
Retained == Submitted(latest)

\* Mutant: a reconfiguration asked for meanwhile is taken as done.
TakenAsDone == FALSE

\* A reconfiguration asked for while the device was being opened stays due.
StillDue == reconfigure

\* The new driver paints the retained frame and is published, under _lock.
Attach ==
    /\ sup = "opened"
    /\ IF stopping
       THEN /\ device' = FALSE /\ sup' = "over"
            /\ UNCHANGED <<active, pump, attempts, reconfigure>>
       ELSE /\ active' = TRUE /\ pump' = Retained /\ attempts' = Done(FALSE)
            /\ sup' = "check" /\ reconfigure' = StillDue /\ UNCHANGED device
    /\ UNCHANGED <<frames, lock, built, gone, wake, stopping, shown, written, failed, asks,
                   faults>>

\* Mutant: a reconfiguration is not among the reasons.
LeavesUnconfigured == stopping \/ gone

\* Why the attached device is closed.
Leaves == stopping \/ gone \/ reconfigure

\* The loop condition of the attached device.
Check ==
    /\ sup = "check" /\ sup' = IF Leaves THEN "close" ELSE "wait"
    /\ UNCHANGED <<frames, lock, active, device, built, gone, flags, screen, asks, attempts,
                   faults>>

\* _wake.wait returns.
Wake ==
    /\ sup = "wait" /\ wake /\ sup' = "woken"
    /\ UNCHANGED <<frames, lock, active, device, built, gone, flags, screen, asks, attempts,
                   faults>>

\* _wake.clear: only then is the loop condition read again.
ClearWake ==
    /\ sup = "woken" /\ wake' = FALSE /\ sup' = "check"
    /\ UNCHANGED <<frames, lock, active, device, built, gone, reconfigure, stopping, screen,
                   asks, attempts, faults>>

\* The driver is withdrawn and closed; the loop starts over.
CloseDriver ==
    /\ sup = "close" /\ sup' = "lock"
    /\ active' = FALSE /\ device' = FALSE
    /\ UNCHANGED <<frames, lock, built, gone, flags, screen, asks, attempts, faults>>

-----------------------------------------------------------------------------
(* Everybody else.                                                         *)

\* The machine sleeps or the cable is pulled: the reader thread ends.
Disconnect ==
    /\ active /\ ~gone /\ faults < MaxFaults
    /\ faults' = faults + 1
    /\ gone' = TRUE /\ wake' = TRUE
    /\ UNCHANGED <<frames, lock, sup, active, device, built, reconfigure, stopping, screen,
                   asks, attempts>>

\* A reload changes the configuration and calls reconfigure().
ChangeConfig ==
    /\ config < MaxConfigs /\ ~setter /\ config' = config + 1
    /\ reconfigure' = TRUE /\ setter' = TRUE
    /\ UNCHANGED <<frames, lock, sup, active, device, built, gone, wake, stopping, screen,
                   restart, attempts, faults>>

\* The second half of reconfigure().
SetWake ==
    /\ setter /\ setter' = FALSE /\ wake' = TRUE
    /\ UNCHANGED <<frames, lock, sup, active, device, built, gone, reconfigure, stopping,
                   screen, config, restart, attempts, faults>>

\* Mutant: the attempt that is already running would do.
TargetRunning == attempts.finished + 1

\* Mutant: one attempt too many is waited for.
TargetTwice == attempts.started + 2

\* restart() waits for an attempt that starts after its request.
Target == attempts.started + 1

\* restart() up to its wait: a lock it can have is taken, another owner is
\* reported.
AskRestart ==
    /\ restart.pc = "idle" /\ ~stopping
    /\ IF lock = "other"
       THEN restart' = [restart EXCEPT !.pc = "locked"] /\ UNCHANGED <<lock, reconfigure>>
       ELSE /\ lock' = "us" /\ reconfigure' = TRUE
            /\ restart' = [pc |-> "flagged", target |-> Target, asked |-> attempts.started]
    /\ UNCHANGED <<frames, sup, active, device, built, gone, wake, stopping, screen, config,
                   setter, attempts, faults>>

WakeForRestart ==
    /\ restart.pc = "flagged"
    /\ wake' = TRUE /\ restart' = [restart EXCEPT !.pc = "waiting"]
    /\ UNCHANGED <<frames, lock, sup, active, device, built, gone, reconfigure, stopping,
                   screen, config, setter, attempts, faults>>

\* wait_for returns and the newest outcome is reported.
Restarted ==
    /\ restart.pc = "waiting" /\ attempts.finished >= restart.target
    /\ restart' = [restart EXCEPT !.pc = IF attempts.error THEN "failed" ELSE "reopened"]
    /\ UNCHANGED <<frames, lock, sup, active, device, built, gone, flags, screen, config,
                   setter, attempts, faults>>

\* close(): the sink is closed first; the supervisor is joined before the lock
\* is released (ReleaseLock).
Stop ==
    /\ ~stopping /\ stopping' = TRUE /\ wake' = TRUE
    /\ active' = FALSE
    /\ device' = IF active THEN FALSE ELSE device
    /\ UNCHANGED <<frames, lock, sup, built, gone, reconfigure, screen, asks, attempts,
                   faults>>

\* Mutant: the lock is released as soon as the sink is closed.
JoinedNot == ~active

\* The supervisor thread has ended.
Joined == sup = "over"

ReleaseLock ==
    /\ stopping /\ Joined /\ lock = "us" /\ lock' = "free"
    /\ UNCHANGED <<frames, sup, active, device, built, gone, flags, screen, asks, attempts,
                   faults>>

\* Another runtime of the machine takes a free lock, or exits.
OtherRuntime ==
    /\ \/ lock = "free" /\ lock' = "other"
       \/ lock = "other" /\ lock' = "free"
    /\ UNCHANGED <<frames, sup, active, device, built, gone, flags, screen, asks, attempts,
                   faults>>

-----------------------------------------------------------------------------
Supervise == TakeLock \/ ClearReconfigure \/ Open \/ Attach \/ Check \/ Wake \/ ClearWake
             \/ CloseDriver

Next ==
    \/ Supervise \/ Paint \/ DeliverToSink \/ (\E ticker \in BOOLEAN : Deliver(ticker))
    \/ Disconnect \/ ChangeConfig \/ SetWake
    \/ AskRestart \/ WakeForRestart \/ Restarted \/ Stop \/ ReleaseLock \/ OtherRuntime

Spec == Init /\ [][Next]_vars

-----------------------------------------------------------------------------
\* Nothing is left to do until somebody asks for something.
Settled == /\ sup = "wait" /\ ~wake /\ ~setter /\ restart.pc # "flagged" /\ ~gone
           /\ pump = Blank /\ delivering.frame = NoFrame

\* A settled deck shows the newest frame although the device came and went
\* while frames were rendered and delivered: a frame is never lost between
\* the device that was closed and the one that replaces it.  (A frame that
\* could not be composed, and a retained ticker frame, excepted.)
ShowsTheLatest ==
    Settled /\ ~latest.ticker => shown = rendered \/ failed = rendered

\* The docstring: the sink "retains the newest full render frame [...] and
\* immediately repaints that frame when the device becomes available again".
RepaintsWhenBack ==
    Settled => shown = rendered \/ failed = rendered

\* A frame that was skipped as identical is the one the device was given.
SkipsOnlyTheShown == device /\ ~gone => written \in {Blank, shown}

\* The supervisor never sleeps through a disconnect, a reconfiguration or a
\* shutdown: the event is set after the flags it announces.
NoLostWakeup ==
    sup = "wait" /\ ~wake /\ ~setter /\ restart.pc # "flagged"
        => ~(gone \/ reconfigure \/ stopping)

\* A configuration that changes at any moment, even while the device is being
\* opened, is the one a settled driver was built from.
AdoptsTheConfig == Settled => built = config

\* restart() says "reopened" only of an attempt that began after the request.
RestartIsNew == restart.pc = "reopened" => attempts.ok > restart.asked

\* The device is open only while this runtime holds the machine's lock, so
\* that two runtimes never drive it; closing included.
OneOwner == device => lock = "us"

\* The supervisor keeps one device, with the frame and the configuration that
\* are current, over disconnects, reconfigurations and restarts.
DeckStaysTrue ==
    /\ ShowsTheLatest /\ SkipsOnlyTheShown
    /\ NoLostWakeup /\ AdoptsTheConfig /\ RestartIsNew
    /\ OneOwner
=============================================================================
