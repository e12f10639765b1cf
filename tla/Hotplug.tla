------------------------------- MODULE Hotplug -------------------------------
(***************************************************************************)
(* The event-driven half of the node agent's probe loop: the netlink       *)
(* reader, the shutdown watcher and the trailing-edge debouncer of         *)
(* internal/hotplug/hotplug.go, and the select loop of                     *)
(* cmd/llmfit-dra/main.go that consumes their signal next to a ticker.     *)
(*                                                                         *)
(* Channel contents are abstracted to counts: a raw event is only logged   *)
(* after it was judged relevant, and a signal carries no data.  A probe is *)
(* the instant its sysfs walk starts; what it then does with the result is *)
(* ProbeLoop's business.  Nothing is counted without bound, so the model   *)
(* covers uevent storms of any length.                                     *)
(*                                                                         *)
(* A behaviour begins with the walk that run makes before it starts the    *)
(* publisher and the kubelet plugin: until it has called Listen, a change  *)
(* the kernel announces reaches nobody.                                    *)
(***************************************************************************)
EXTENDS Naturals, Sequences

CONSTANTS
    RawCap,             \* capacity of the raw channel (16 in the code)
    SockCap,            \* messages the netlink receive buffer holds
    KernelSubsystems    \* subsystems the kernel sends uevents for

ASSUME CapAssumption == RawCap \in Nat \ {0} /\ SockCap \in Nat \ {0}

VARIABLES
    early,      \* subsystems announced before Listen and not probed since
    unseen,     \* ... announced from then on and not probed since
    accepted,   \* the reader handed over a relevant event since then
    sock,       \* messages waiting in the netlink socket
    overrun,    \* the kernel dropped a message: the next read is ENOBUFS
    fdClosed,   \* closeFd ran
    rd,         \* reader goroutine
    raw,        \* events buffered in the raw channel
    rawClosed,
    deb,        \* debounce goroutine
    events,     \* signals buffered in the events channel
    eventsClosed,
    main,       \* run: starting up, then the probe loop
    uevents,    \* FALSE: the loop's channel variable is nil (ticker only)
    tick,       \* the ticker's one-slot channel
    cancelled   \* ctx is done

socketVars == <<sock, overrun, fdClosed>>
chanVars   == <<raw, rawClosed, events, eventsClosed>>
mainVars   == <<main, uevents, tick, cancelled>>
vars == <<early, unseen, accepted, socketVars, rd, chanVars, deb, mainVars>>

-----------------------------------------------------------------------------
(* Uevents.  header is FALSE for udevd's libudev-prefixed rebroadcasts.    *)

Uevent == [header : BOOLEAN, subsystem : KernelSubsystems]

subsystems == {"drm", "accel"}

parseUevent(m) == m.header
relevant(m) == m.subsystem \in subsystems

(* The errors a read may return, by the reaction they get.                 *)
ReadErr == {"EINTR", "ENOBUFS", "EBADF"}
classifyReadErr(err) ==
    CASE err = "EINTR"   -> "actRetry"
      [] err = "ENOBUFS" -> "actOverrun"
      [] OTHER           -> "actFatal"

-----------------------------------------------------------------------------
(* Init: the walk before the publisher is started has just begun.          *)
Init ==
    /\ early = {} /\ unseen = {} /\ accepted = FALSE
    /\ sock = <<>> /\ overrun = FALSE /\ fdClosed = FALSE
    /\ rd = "none" /\ deb = "none"
    /\ raw = 0 /\ rawClosed = FALSE
    /\ events = 0 /\ eventsClosed = FALSE
    /\ main = "starting" /\ uevents = FALSE
    /\ tick = FALSE /\ cancelled = FALSE

(* With publisher and plugin up, run calls Listen and enters its loop: two *)
(* goroutines over a fresh socket, or, if the socket could not be opened,  *)
(* the ticker alone.                                                       *)
Listen(ok) ==
    /\ main = "starting"
    /\ main' = "select"
    /\ rd' = IF ok THEN "reading" ELSE "exited"
    /\ deb' = IF ok THEN "idle" ELSE "exited"
    /\ uevents' = ok
    /\ rawClosed' = ~ok
    /\ eventsClosed' = ~ok
    /\ fdClosed' = ~ok
    /\ UNCHANGED <<early, unseen, accepted, sock, overrun, raw, events, tick, cancelled>>

-----------------------------------------------------------------------------
(* Environment.                                                            *)

(* The kernel announces a change: the message is queued, or dropped with   *)
(* the socket marked overrun; before Listen there is no socket.  A         *)
(* rebroadcast announces nothing new.                                      *)
Announced(m) == IF m.header THEN {m.subsystem} ELSE {}

KernelUevent(m) ==
    /\ \/ /\ main = "starting"
          /\ early' = early \union Announced(m)
          /\ UNCHANGED <<unseen, sock, overrun>>
       \/ /\ main # "starting"
          /\ unseen' = unseen \union Announced(m)
          /\ IF Len(sock) < SockCap
             THEN sock' = Append(sock, m) /\ UNCHANGED overrun
             ELSE overrun' = TRUE /\ UNCHANGED sock
          /\ UNCHANGED early
    /\ UNCHANGED <<accepted, fdClosed, rd, chanVars, deb, mainVars>>

(* The ticker exists once the loop is about to start.                      *)
Tick ==
    /\ main # "starting" /\ ~tick
    /\ tick' = TRUE
    /\ UNCHANGED <<early, unseen, accepted, socketVars, rd, chanVars, deb,
                   main, uevents, cancelled>>

Cancel ==
    /\ ~cancelled
    /\ cancelled' = TRUE
    /\ UNCHANGED <<early, unseen, accepted, socketVars, rd, chanVars, deb,
                   main, uevents, tick>>

-----------------------------------------------------------------------------
(* Listen's goroutines.                                                    *)

(* The watcher closes the socket when ctx ends; the reader's own exit      *)
(* closes it too, through the same sync.Once.                              *)
WatcherClose ==
    /\ main # "starting" /\ cancelled /\ ~fdClosed
    /\ fdClosed' = TRUE
    /\ UNCHANGED <<early, unseen, accepted, sock, overrun, rd, chanVars, deb, mainVars>>

(* A message arrives: anything without a kernel header or from another     *)
(* subsystem is skipped, the rest goes on to the raw channel.              *)
ReadMessage ==
    /\ rd = "reading" /\ ~fdClosed /\ ~overrun /\ sock # <<>>
    /\ sock' = Tail(sock)
    /\ rd' = IF parseUevent(Head(sock)) /\ relevant(Head(sock))
             THEN "sending" ELSE "reading"
    /\ UNCHANGED <<early, unseen, accepted, overrun, fdClosed, chanVars, deb, mainVars>>

(* ReaderExit runs the deferred closeFd, close(done) and close(raw).       *)
ReaderExit ==
    /\ rd' = "exited" /\ rawClosed' = TRUE /\ fdClosed' = TRUE

ReadError_overrunDropped(err) ==
    /\ rd = "reading"
    /\ (err = "ENOBUFS") => (overrun /\ ~fdClosed)
    /\ (err = "EINTR") => ~fdClosed
    /\ overrun' = (overrun /\ err # "ENOBUFS")
    /\ \/ /\ cancelled \/ err = "EBADF"
          /\ ReaderExit
       \/ /\ ~cancelled /\ err # "EBADF"
          /\ UNCHANGED <<rd, rawClosed, fdClosed>>
    /\ UNCHANGED <<early, unseen, accepted, sock, raw, events, eventsClosed, deb, mainVars>>

(* A read fails.  ENOBUFS is reported once per overrun; a closed socket    *)
(* gives EBADF; EINTR and other errors may come at any time.               *)
ReadError(err) ==
    /\ rd = "reading"
    /\ (err = "ENOBUFS") => (overrun /\ ~fdClosed)
    /\ (err = "EINTR") => ~fdClosed
    /\ overrun' = (overrun /\ err # "ENOBUFS")
    /\ \/ /\ cancelled \/ classifyReadErr(err) = "actFatal"
          /\ ReaderExit
       \/ /\ ~cancelled /\ classifyReadErr(err) = "actRetry"
          /\ UNCHANGED <<rd, rawClosed, fdClosed>>
       \/ /\ ~cancelled /\ classifyReadErr(err) = "actOverrun"
          /\ rd' = "sending"
          /\ UNCHANGED <<rawClosed, fdClosed>>
    /\ UNCHANGED <<early, unseen, accepted, sock, raw, events, eventsClosed, deb, mainVars>>

SendRaw_unbounded ==
    /\ rd = "sending"
    /\ rd' = "reading"
    /\ raw' = raw + 1
    /\ accepted' = TRUE
    /\ UNCHANGED <<early, unseen, socketVars, rawClosed, events, eventsClosed, deb, mainVars>>

(* The non-blocking send into raw, of an event or of an overrun marker:    *)
(* with the buffer full the event is folded into what is pending.          *)
SendRaw ==
    /\ rd = "sending"
    /\ rd' = "reading"
    /\ raw' = IF raw < RawCap THEN raw + 1 ELSE raw
    /\ accepted' = TRUE
    /\ UNCHANGED <<early, unseen, socketVars, rawClosed, events, eventsClosed, deb, mainVars>>

(* `for ev := range raw': a buffered event starts a burst ...              *)
BurstStart ==
    /\ deb = "idle" /\ raw > 0
    /\ raw' = raw - 1
    /\ deb' = "draining"
    /\ UNCHANGED <<early, unseen, accepted, socketVars, rd, rawClosed, events,
                   eventsClosed, mainVars>>

(* ... and the loop ends, closing events, once raw is closed and empty.    *)
DebounceExit_noClose ==
    /\ deb = "idle" /\ raw = 0 /\ rawClosed
    /\ deb' = "exited"
    /\ UNCHANGED <<early, unseen, accepted, socketVars, rd, chanVars, mainVars>>

DebounceExit ==
    /\ deb = "idle" /\ raw = 0 /\ rawClosed
    /\ deb' = "exited"
    /\ eventsClosed' = TRUE
    /\ UNCHANGED <<early, unseen, accepted, socketVars, rd, raw, rawClosed, events, mainVars>>

(* Within a burst every further event restarts the timer.                  *)
DrainEvent ==
    /\ deb = "draining" /\ raw > 0
    /\ raw' = raw - 1
    /\ UNCHANGED <<early, unseen, accepted, socketVars, rd, rawClosed, events,
                   eventsClosed, deb, mainVars>>

(* The burst settles when the timer fires, or when raw closes under it.    *)
BurstSettles ==
    /\ deb = "draining"
    /\ deb' = "signal"
    /\ UNCHANGED <<early, unseen, accepted, socketVars, rd, chanVars, mainVars>>

DrainClosed_returns ==
    /\ deb = "draining" /\ raw = 0 /\ rawClosed
    /\ deb' = "exited" /\ eventsClosed' = TRUE
    /\ UNCHANGED <<early, unseen, accepted, socketVars, rd, raw, rawClosed, events, mainVars>>

DrainClosed ==
    /\ deb = "draining" /\ raw = 0 /\ rawClosed
    /\ deb' = "signal"
    /\ UNCHANGED <<early, unseen, accepted, socketVars, rd, chanVars, mainVars>>

(* The non-blocking send of the one signal for the burst.                  *)
Signal ==
    /\ deb = "signal"
    /\ events' = 1
    /\ deb' = "idle"
    /\ UNCHANGED <<early, unseen, accepted, socketVars, rd, raw, rawClosed,
                   eventsClosed, mainVars>>

-----------------------------------------------------------------------------
(* The probe loop.                                                         *)

MainDone ==
    /\ main = "select" /\ cancelled
    /\ main' = "stopped"
    /\ UNCHANGED <<early, unseen, accepted, socketVars, rd, chanVars, deb,
                   uevents, tick, cancelled>>

MainWakeup ==
    /\ main = "select" /\ uevents /\ events > 0
    /\ events' = 0
    /\ main' = "probing"
    /\ UNCHANGED <<early, unseen, accepted, socketVars, rd, raw, rawClosed,
                   eventsClosed, deb, uevents, tick, cancelled>>

(* The channel is closed and drained: the listener died.                   *)
MainListenerDied_returns ==
    /\ main = "select" /\ uevents /\ events = 0 /\ eventsClosed
    /\ main' = "stopped"
    /\ UNCHANGED <<early, unseen, accepted, socketVars, rd, chanVars, deb,
                   uevents, tick, cancelled>>

MainListenerDied ==
    /\ main = "select" /\ uevents /\ events = 0 /\ eventsClosed
    /\ uevents' = FALSE
    /\ UNCHANGED <<early, unseen, accepted, socketVars, rd, chanVars, deb,
                   main, tick, cancelled>>

MainTick ==
    /\ main = "select" /\ tick
    /\ tick' = FALSE
    /\ main' = "probing"
    /\ UNCHANGED <<early, unseen, accepted, socketVars, rd, chanVars, deb,
                   uevents, cancelled>>

(* desiredState starts its walk: everything announced so far is visible to *)
(* it.  Whether it succeeds or fails, the loop returns to the select.      *)
Probe ==
    /\ main = "probing"
    /\ early' = {} /\ unseen' = {}
    /\ accepted' = FALSE
    /\ main' = "select"
    /\ UNCHANGED <<socketVars, rd, chanVars, deb, uevents, tick, cancelled>>

-----------------------------------------------------------------------------
EnvNext == (\E m \in Uevent : KernelUevent(m)) \/ Tick \/ Cancel

ReaderNext == ReadMessage \/ (\E err \in ReadErr : ReadError(err)) \/ SendRaw

DebounceNext ==
    BurstStart \/ DebounceExit \/ DrainEvent \/ BurstSettles \/ DrainClosed \/ Signal

MainNext ==
    (\E ok \in BOOLEAN : Listen(ok)) \/ MainDone \/ MainWakeup \/ MainListenerDied
        \/ MainTick \/ Probe

Next == EnvNext \/ WatcherClose \/ ReaderNext \/ DebounceNext \/ MainNext

Spec == Init /\ [][Next]_vars

(* The Go runtime runs every runnable goroutine; a select with several     *)
(* ready arms picks one at random, so no arm that is ready again and again *)
(* is passed over for ever.  The debounce timer fires once it is not reset *)
(* any more.  Reads that fail for no reason are never assumed.  Start-up   *)
(* ends in the loop: one that fails ends the process, and its successor    *)
(* begins with a walk of its own; one that hangs is ProbeLoop's subject.   *)
ListenerFairness ==
    /\ WF_vars(ReadMessage)
    /\ WF_vars(ReadError("ENOBUFS"))
    /\ WF_vars(SendRaw)
    /\ WF_vars(BurstStart) /\ WF_vars(DebounceExit)
    /\ WF_vars(BurstSettles) /\ WF_vars(DrainClosed) /\ WF_vars(Signal)

MainFairness ==
    /\ WF_vars(\E ok \in BOOLEAN : Listen(ok))
    /\ WF_vars(Probe)
    /\ SF_vars(MainWakeup) /\ SF_vars(MainListenerDied) /\ SF_vars(MainTick)

FairSpec == Spec /\ ListenerFairness /\ MainFairness

-----------------------------------------------------------------------------
(* Properties.                                                             *)

FlagsOK ==
    /\ accepted \in BOOLEAN /\ overrun \in BOOLEAN /\ fdClosed \in BOOLEAN
    /\ rawClosed \in BOOLEAN /\ eventsClosed \in BOOLEAN
    /\ uevents \in BOOLEAN /\ tick \in BOOLEAN /\ cancelled \in BOOLEAN

(* The state of the listener and the loop is always one of those the code  *)
(* can be in; raw never exceeds its capacity and events holds one signal.  *)
TypeOK ==
    /\ early \subseteq KernelSubsystems /\ unseen \subseteq KernelSubsystems
    /\ sock \in Seq(Uevent) /\ Len(sock) \leq SockCap
    /\ rd \in {"none", "reading", "sending", "exited"}
    /\ raw \in 0 .. RawCap
    /\ deb \in {"none", "idle", "draining", "signal", "exited"}
    /\ events \in {0, 1}
    /\ main \in {"starting", "select", "probing", "stopped"}
    /\ FlagsOK

(* A wakeup the debouncer or the loop still owes for an accepted event.    *)
SignalOwed ==
    raw > 0 \/ deb \in {"draining", "signal"} \/ events > 0 \/ main = "probing"

(* Coalescing never swallows a wakeup: once the reader has handed over a   *)
(* relevant event (or an overrun marker), a probe that starts later is     *)
(* owed until it starts - even if the raw buffer was full ("the pending    *)
(* signal covers it"), a signal was already pending, or the listener dies  *)
(* or is shut down with events still buffered.                             *)
AcceptedEventProbed ==
    accepted /\ main # "stopped" => SignalOwed

(* The wakeup a change announced since Listen still has coming.            *)
WakeupInFlight ==
    \/ \E i \in 1 .. Len(sock) : parseUevent(sock[i]) /\ relevant(sock[i])
    \/ overrun
    \/ rd = "sending"
    \/ SignalOwed

(* While the listener lives, no accelerator change the kernel announced    *)
(* since Listen is left without a probe to come: not in a storm that       *)
(* overruns the socket, not when it arrives in the middle of a probe.  An  *)
(* early one, of the time between run's first walk and Listen, has no      *)
(* wakeup of its own: it waits for the next probe, at the latest the       *)
(* ticker's (TickerFloor).                                                 *)
NoLostWakeup ==
    /\ rd # "exited" /\ main # "stopped"
    /\ unseen \cap subsystems # {}
    => WakeupInFlight

(* What makes the two inductive: the goroutines run once run has called    *)
(* Listen, and the loop gives up its channel only after both have ended    *)
(* with nothing buffered.                                                  *)
CloseOrder ==
    /\ (rd = "none") <=> (main = "starting")
    /\ (deb = "none") <=> (main = "starting")
    /\ main = "starting" => raw = 0 /\ events = 0
    /\ (rd = "exited") <=> rawClosed
    /\ (deb = "exited") <=> eventsClosed
    /\ deb = "exited" => rawClosed /\ raw = 0
    /\ main # "starting" /\ ~uevents => deb = "exited" /\ events = 0

IndInv == TypeOK /\ CloseOrder /\ AcceptedEventProbed /\ NoLostWakeup

(* The ticker is the reconciliation floor: whatever becomes of the         *)
(* listener, and though nobody listened yet when run had made its first    *)
(* walk, every announced change of any subsystem is eventually followed by *)
(* a probe, or the process is being shut down.  Only this property counts  *)
(* on the ticker.                                                          *)
TickerFloor ==
    WF_vars(Tick) => (early \union unseen # {} ~> (early \union unseen = {} \/ cancelled))

(* A listener that dies mid-run is noticed: the loop drops to ticker-only  *)
(* probing (and says so) instead of believing it still gets events.        *)
ListenerDeathNoticed == (rd = "exited") ~> (~uevents \/ cancelled)

(* Without any help from the ticker, once a storm has settled every        *)
(* accelerator change announced since Listen is followed by a probe as     *)
(* long as the listener lives.                                             *)
SettledStormProbed ==
    <>[][\A m \in Uevent : ~KernelUevent(m)]_vars
    => (unseen \cap subsystems # {}
          ~> (unseen \cap subsystems = {} \/ rd = "exited" \/ cancelled))
=============================================================================
