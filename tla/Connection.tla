----------------------------- MODULE Connection -----------------------------
(***************************************************************************)
(* The life cycle of the tunnel in proxy mode (m_tunMode = false):         *)
(* VpnController (src/src/vpncontroller.cpp) together with the xray-core   *)
(* child process it supervises (src/src/xrayprocessmanager.cpp), the list  *)
(* of profiles whose rows it is told about by index, and the tray menu's   *)
(* "Exit" (src/src/main.cpp).                                              *)
(*                                                                         *)
(* Everything here runs on the Qt GUI thread: a step is one event-loop     *)
(* callback with all the calls it makes (a slot, a single-shot timer, a    *)
(* signal of QProcess).  The interleavings are those of these callbacks.   *)
(*                                                                         *)
(* Abstracted: what a profile contains (an id is all that is left of it),  *)
(* texts, logs, traffic counters, the settings and profile files, the      *)
(* system proxy (module SystemProxy), the TUN runtime (TunConnection).     *)
(* QProcess is the POSIX one: start() returns before the child runs.       *)
(***************************************************************************)
EXTENDS Integers, Sequences, FiniteSets

CONSTANTS
    Ids,        \* the ids a profile can have (random UUIDs in the code)
    NoId,       \* the empty QString
    MaxRows,    \* bound: how long the profile list grows
    MaxStarts   \* bound: how often QProcess::start() is called

ASSUME ConnectionAssumption ==
    /\ NoId \notin Ids
    /\ MaxRows \in Nat
    /\ MaxStarts \in Nat

VARIABLES
    profiles,           \* m_profileModel: the ids of its rows (row r is profiles[r + 1])
    current,            \* m_currentProfileIndex
    currentId,          \* m_currentProfileId
    connState,          \* m_connectionState
    pending,            \* m_pendingReconnectProfileIndex
    stopping,           \* m_stoppingProcess
    disconnectRequested,\* m_disconnectRequested
    activeUsage,        \* m_activeProfileUsageId
    session,            \* m_usageSessionProfileId
    record,             \* the managed-runtime record on disk: the run it names, or 0
    process,            \* the QProcess and the child it supervises
    killTimers,         \* the runs for which stop(0) armed its 2 s single-shot timer
    reconnects,         \* rows of the posted connectToProfile single-shot timers
    exit                \* the tray's Exit: "no", "asked" (disconnectThenQuit), "quit"

rowVars == <<profiles, current, currentId>>
stopVars == <<pending, stopping, disconnectRequested>>
usageVars == <<activeUsage, session, record>>
procVars == <<process, killTimers>>
vars == <<rowVars, connState, stopVars, usageVars, procVars, reconnects, exit>>

Rows(list) == 0 .. Len(list) - 1
Busy == connState = "Connecting"
Connected == connState = "Connected"
Alive == process.state # "NotRunning"      \* XrayProcessManager::isRunning()

NoProcess(run) ==
    [state |-> "NotRunning", run |-> run, profile |-> NoId, signal |-> "none"]

-----------------------------------------------------------------------------
(* Helpers of the handlers *)

\* beginProfileUsageSession and endProfileUsageSession: the session left open.
SessionBegun(id) == IF id = NoId THEN session ELSE id

SessionEndedById(id) == IF id = session THEN NoId ELSE session  \* fault: no id ends none

SessionEnded(id) == IF id = NoId \/ id = session THEN NoId ELSE session

\* The session is closed and the record on disk deleted.
KeepRecord ==           \* fault: the record stays
    session' = SessionEnded(activeUsage) /\ UNCHANGED record

ReleaseRuntime ==
    /\ session' = SessionEnded(activeUsage)
    /\ record' = 0

\* XrayProcessManager::stop(0): SIGTERM now, and a timer that will kill.
Terminated == [process EXCEPT !.signal = IF @ = "kill" THEN @ ELSE "term"]

OnlyTerminate == process' = Terminated /\ UNCHANGED killTimers     \* fault: no timer

StopProcess ==
    /\ process' = Terminated
    /\ killTimers' = killTimers \union {process.run}

\* The flags of a stop that is over.
ForgetStopping == stopping' = FALSE /\ UNCHANGED disconnectRequested   \* fault: one stays

StopSettled ==
    /\ stopping' = FALSE
    /\ disconnectRequested' = FALSE

\* maybeReconnectToPendingProfile, when neither busy nor running.
ReconnectAgain(row, list) ==        \* fault: the pending row is not consumed
    /\ pending' = row
    /\ reconnects' = IF row \in Rows(list) THEN Append(reconnects, row) ELSE reconnects

MaybeReconnect(row, list) ==
    /\ pending' = -1
    /\ reconnects' = IF row \in Rows(list) THEN Append(reconnects, row) ELSE reconnects

\* disconnect() with the child process alive.  `row' is the pending reconnect
\* its caller has just noted.
StopRuntime(row) ==
    /\ pending' = row
    /\ stopping' = TRUE
    /\ disconnectRequested' = TRUE
    /\ connState' = "Connecting"
    /\ StopProcess
    /\ UNCHANGED usageVars

\* disconnect() with nothing to stop.
SettleDisconnected ==
    /\ ReleaseRuntime
    /\ StopSettled
    /\ connState' = "Disconnected"
    /\ MaybeReconnect(pending, profiles)
    /\ UNCHANGED <<activeUsage, procVars>>

DisconnectCall ==
    IF Alive THEN StopRuntime(pending) /\ UNCHANGED reconnects
             ELSE SettleDisconnected

\* The usage id after a row has been selected.
FollowSelection(row, list) == IF row = -1 THEN NoId ELSE list[row + 1]     \* fault

UsageAfterSelecting(row, list) == IF row = -1 THEN NoId ELSE activeUsage

(***************************************************************************)
(* setCurrentProfileIndex(row) with `list' as the profile list.  `state'   *)
(* is the connection state its caller ends with when selecting the row     *)
(* does not restart the tunnel.  The code's test connected() ||            *)
(* runtimeActive is Alive: see ConnectedIsSettled.                      *)
(***************************************************************************)
SelectRow(row, list, state) ==
    LET changes == row # current /\ row \in Rows(list) \union {-1}
        restarts == changes /\ row >= 0 /\ current >= 0 /\ ~Busy /\ Alive
        clears == changes /\ row = -1
    IN  /\ current' = IF changes THEN row ELSE current
        /\ currentId' = IF clears THEN NoId
                        ELSE IF changes THEN list[row + 1] ELSE currentId
        /\ IF restarts
           THEN StopRuntime(row)
           ELSE /\ pending' = IF clears THEN -1 ELSE pending
                /\ activeUsage' = IF changes THEN UsageAfterSelecting(row, list)
                                              ELSE activeUsage
                /\ connState' = state
                /\ UNCHANGED <<stopping, disconnectRequested, session, record, procVars>>
        /\ UNCHANGED reconnects

-----------------------------------------------------------------------------
(* connectToProfile(row).  Each of its outcomes leaves the posted reconnects alone. *)

\* The row is none of the list's, or xray-core cannot be executed.
ConnectRejected ==
    /\ connState' = "Error"
    /\ UNCHANGED <<rowVars, stopVars, usageVars, procVars>>

\* The row is selected, then the config cannot be written or start() refuses.
ConnectNotLaunched(row) ==
    /\ current' = row
    /\ currentId' = IF row = current THEN currentId ELSE profiles[row + 1]
    /\ activeUsage' = profiles[row + 1]
    /\ disconnectRequested' = FALSE
    /\ connState' = "Error"
    /\ UNCHANGED <<profiles, pending, stopping, session, record, procVars>>

ConnectLaunched(row) ==
    /\ process.run < MaxStarts
    /\ current' = row
    /\ currentId' = IF row = current THEN currentId ELSE profiles[row + 1]
    /\ activeUsage' = profiles[row + 1]
    /\ disconnectRequested' = FALSE
    /\ connState' = "Connecting"
    /\ process' = [state |-> "Starting", run |-> process.run + 1,
                   profile |-> profiles[row + 1], signal |-> "none"]
    /\ UNCHANGED <<profiles, pending, stopping, session, record, killTimers>>

\* The runtime is alive: restart it for another row, or call it connected.
ConnectWhileAlive(row) ==
    IF row # current \/ pending >= 0
    THEN /\ StopRuntime(row)
         /\ UNCHANGED rowVars
    ELSE /\ connState' = "Connected"
         /\ disconnectRequested' = (Connected /\ disconnectRequested)
         /\ UNCHANGED <<rowVars, pending, stopping, usageVars, procVars>>

ConnectCall(row) ==
    \/ /\ Busy
       /\ UNCHANGED <<rowVars, connState, stopVars, usageVars, procVars>>
    \/ /\ ~Busy
       /\ row \notin Rows(profiles)
       /\ ConnectRejected
    \/ /\ ~Busy
       /\ row \in Rows(profiles)
       /\ Alive
       /\ ConnectWhileAlive(row)
    \/ /\ ~Busy
       /\ row \in Rows(profiles)
       /\ ~Alive
       /\ ConnectRejected \/ ConnectNotLaunched(row) \/ ConnectLaunched(row)

-----------------------------------------------------------------------------
(* What the user does *)

\* The slot of main.cpp on connectionStateChanged.
TrayAfter(asked) ==
    IF /\ asked = "asked"
       /\ connState' # connState
       /\ connState' \notin {"Connecting", "Connected"}
    THEN "quit" ELSE asked

\* Every callback runs while the application does, and the tray follows the state.
Step ==
    /\ exit # "quit"
    /\ exit' = TrayAfter(exit)

SelectProfile(row) ==
    /\ SelectRow(row, profiles, connState)
    /\ UNCHANGED profiles
    /\ Step

ConnectToProfile(row) ==
    /\ ConnectCall(row)
    /\ UNCHANGED reconnects
    /\ Step

ToggleConnection ==
    /\ IF Alive \/ Connected \/ Busy
       THEN DisconnectCall /\ UNCHANGED rowVars
       ELSE ConnectCall(current) /\ UNCHANGED reconnects
    /\ Step

\* The tray menu's Exit.
ExitClicked ==
    /\ exit = "no"
    /\ IF Connected \/ Busy
       THEN /\ DisconnectCall
            /\ exit' = TrayAfter("asked")
       ELSE /\ UNCHANGED <<connState, stopVars, usageVars, procVars, reconnects>>
            /\ exit' = "quit"
    /\ UNCHANGED rowVars

\* The row removeProfile selects once row `row' is gone and `left' remains.
SameRow(row, left) == IF left = <<>> THEN -1 ELSE current       \* fault: rows move up

RowAfterRemoval(row, left) ==
    IF left = <<>> THEN -1
    ELSE IF row < current \/ current >= Len(left) THEN current - 1
    ELSE current

RemoveProfile(row) ==
    LET left == [i \in 1 .. Len(profiles) - 1 |->
                    profiles[IF i <= row THEN i ELSE i + 1]]
    IN  /\ profiles' = left
        /\ SelectRow(RowAfterRemoval(row, left), left, connState)
        /\ Step

RemoveAllProfiles ==
    /\ profiles # <<>>
    /\ profiles' = <<>>
    /\ SelectRow(-1, <<>>, connState)
    /\ Step

\* A successful import ends with: if the state is Error, it becomes Disconnected.
StateAfterImport == IF connState = "Error" THEN "Disconnected" ELSE connState

Fresh == Ids \ {profiles[i] : i \in 1 .. Len(profiles)}

\* addProfile: a link equivalent to one of the rows refreshes that row and leaves the
\* row its own id, so that the id just parsed is in the list only if the row is new.
Imported(id, equivalent) == IF equivalent THEN profiles ELSE Append(profiles, id)

IndexOfId(list, id) ==
    IF \E row \in Rows(list) : list[row + 1] = id
    THEN CHOOSE row \in Rows(list) : list[row + 1] = id
    ELSE -1

ImportAllowed(equivalent) ==
    IF equivalent THEN profiles # <<>> ELSE Len(profiles) < MaxRows

\* importProfileLink selects the row of the id it parsed.
ImportProfileLink(id, equivalent) ==
    LET list == Imported(id, equivalent)
    IN  /\ ImportAllowed(equivalent)
        /\ profiles' = list
        /\ SelectRow(IndexOfId(list, id), list, StateAfterImport)
        /\ Step

\* importLinks of a pasted batch or of a subscription's payload: the last row
\* imported is selected when there was no selection.
ImportBatch(id, equivalent) ==
    LET list == Imported(id, equivalent)
        last == IndexOfId(list, id)
    IN  /\ ImportAllowed(equivalent)
        /\ profiles' = list
        /\ SelectRow(IF current < 0 THEN last ELSE current, list, StateAfterImport)
        /\ Step

-----------------------------------------------------------------------------
(* What the event loop delivers *)

\* singleShot(0) of maybeReconnectToPendingProfile.
ReconnectFires ==
    /\ reconnects # <<>>
    /\ reconnects' = Tail(reconnects)
    /\ ConnectCall(Head(reconnects))
    /\ Step

\* onProcessStarted finds that the start was cancelled while it was under way.
NeverCancelled == FALSE             \* fault: the start wins

StartCancelled == disconnectRequested

\* QProcess::started.
ProcessStarted ==
    /\ process.state = "Starting"
    /\ IF StartCancelled
       THEN /\ stopping' = TRUE
            /\ process' = [Terminated EXCEPT !.state = "Running"]
            /\ killTimers' = killTimers \union {process.run}
            /\ UNCHANGED <<connState, disconnectRequested, session, record>>
       ELSE /\ stopping' = FALSE
            /\ process' = [process EXCEPT !.state = "Running"]
            /\ record' = process.run
            /\ session' = SessionBegun(activeUsage)
            /\ connState' = "Connected"
            /\ UNCHANGED <<disconnectRequested, killTimers>>
    /\ UNCHANGED <<rowVars, pending, activeUsage, reconnects>>
    /\ Step

\* onProcessError, when the controller is not stopping the process.
ErrorReported ==
    /\ ReleaseRuntime
    /\ connState' = "Error"

\* QProcess::errorOccurred(FailedToStart): no finished() follows it.
ProcessFailsToStart ==
    /\ process.state = "Starting"
    /\ process' = NoProcess(process.run)
    /\ IF stopping THEN UNCHANGED <<connState, session, record>> ELSE ErrorReported
    /\ UNCHANGED <<rowVars, stopVars, activeUsage, killTimers, reconnects>>
    /\ Step

\* QProcess::errorOccurred(ReadError): the child still runs.
ProcessReadError ==
    /\ process.state = "Running"
    /\ ~stopping
    /\ ErrorReported
    /\ UNCHANGED <<rowVars, stopVars, activeUsage, procVars, reconnects>>
    /\ Step

\* What onProcessStopped does whatever ended the process.
ProcessGone ==
    /\ process.state = "Running"
    /\ process' = NoProcess(process.run)
    /\ ReleaseRuntime
    /\ UNCHANGED <<rowVars, killTimers>>

\* QProcess::finished while m_stoppingProcess, with either exit status.
ProcessStopped ==
    /\ stopping
    /\ ProcessGone
    /\ StopSettled
    /\ connState' = "Disconnected"
    /\ MaybeReconnect(pending, profiles)
    /\ UNCHANGED activeUsage
    /\ Step

\* fault: a crash reconnects by itself
CrashReconnects ==
    /\ ~stopping
    /\ ProcessGone
    /\ connState' = "Error"
    /\ MaybeReconnect(current, profiles)
    /\ UNCHANGED <<stopping, disconnectRequested, activeUsage>>
    /\ Step

\* errorOccurred(Crashed) and then finished(CrashExit), from one QProcess event.
ProcessCrashes ==
    /\ ~stopping
    /\ ProcessGone
    /\ connState' = "Error"
    /\ UNCHANGED <<stopVars, activeUsage, reconnects>>
    /\ Step

\* finished(NormalExit) of a process nobody stopped.
ProcessExits ==
    /\ ~stopping
    /\ process.signal # "kill"
    /\ ProcessGone
    /\ connState' = IF connState = "Error" THEN "Error" ELSE "Disconnected"
    /\ disconnectRequested' = FALSE
    /\ pending' = -1
    /\ activeUsage' = NoId
    /\ UNCHANGED <<stopping, reconnects>>
    /\ Step

\* The timer of stop(0): it kills whatever process is alive by then.
KillTimerFires(run) ==
    /\ run \in killTimers
    /\ killTimers' = killTimers \ {run}
    /\ process' = IF Alive THEN [process EXCEPT !.signal = "kill"] ELSE process
    /\ UNCHANGED <<rowVars, connState, stopVars, usageVars, reconnects>>
    /\ Step

\* The application has quit (what aboutToQuit does is not part of this module).
HasQuit ==
    /\ exit = "quit"
    /\ UNCHANGED vars

-----------------------------------------------------------------------------
\* The first start, with no profile stored.  A start with stored profiles is the
\* state that importing and selecting them leads to.
Init ==
    /\ profiles = <<>>
    /\ current = -1
    /\ currentId = NoId
    /\ connState = "Disconnected"
    /\ pending = -1
    /\ stopping = FALSE
    /\ disconnectRequested = FALSE
    /\ activeUsage = NoId
    /\ session = NoId
    /\ record = 0
    /\ process = NoProcess(0)
    /\ killTimers = {}
    /\ reconnects = <<>>
    /\ exit = "no"

Next ==
    \/ \E row \in Rows(profiles) : SelectProfile(row)
    \/ \E row \in Rows(profiles) : ConnectToProfile(row)
    \/ \E row \in Rows(profiles) : RemoveProfile(row)
    \/ \E id \in Fresh, equivalent \in BOOLEAN : ImportProfileLink(id, equivalent)
    \/ \E id \in Fresh, equivalent \in BOOLEAN : ImportBatch(id, equivalent)
    \/ RemoveAllProfiles
    \/ ToggleConnection
    \/ ExitClicked
    \/ ReconnectFires
    \/ ProcessStarted
    \/ ProcessFailsToStart
    \/ ProcessReadError
    \/ ProcessStopped
    \/ ProcessCrashes
    \/ ProcessExits
    \/ \E run \in killTimers : KillTimerFires(run)
    \/ HasQuit

(***************************************************************************)
(* The event loop serves every timer, a launch succeeds or fails, and a    *)
(* process that got SIGKILL ends.  Nothing is assumed of the user, nor of  *)
(* a process that only got SIGTERM.                                        *)
(***************************************************************************)
Fairness ==
    /\ WF_vars(ReconnectFires)
    /\ WF_vars(ProcessStarted \/ ProcessFailsToStart)
    /\ WF_vars(process.signal = "kill" /\ (ProcessStopped \/ ProcessCrashes))
    /\ \A run \in 1 .. MaxStarts : WF_vars(KillTimerFires(run))

Spec == Init /\ [][Next]_vars /\ Fairness

-----------------------------------------------------------------------------
(* Invariants *)

\* Type correctness of the controller's and the process manager's fields.
TypeOK ==
    /\ profiles \in Seq(Ids)
    /\ current \in Rows(profiles) \union {-1}
    /\ currentId \in Ids \union {NoId}
    /\ connState \in {"Disconnected", "Connecting", "Connected", "Error"}
    /\ pending \in Nat \union {-1}
    /\ stopping \in BOOLEAN
    /\ disconnectRequested \in BOOLEAN
    /\ activeUsage \in Ids \union {NoId}
    /\ session \in Ids \union {NoId}
    /\ record \in 0 .. MaxStarts
    /\ process \in [state : {"NotRunning", "Starting", "Running"}, run : 0 .. MaxStarts,
                    profile : Ids \union {NoId}, signal : {"none", "term", "kill"}]
    /\ killTimers \subseteq 1 .. MaxStarts
    /\ reconnects \in Seq(Nat)
    /\ exit \in {"no", "asked", "quit"}

\* A tunnel shown as connected has a live child that nobody is stopping: a
\* disconnect during the launch is never overtaken by the late started() signal
\* (onProcessStarted tests m_disconnectRequested).
ConnectedIsSettled ==
    Connected => /\ process.state = "Running"
                 /\ process.signal # "term"
                 /\ ~stopping

\* m_disconnectRequested and m_stoppingProcess are set and reset at different
\* places of eight handlers; between two callbacks they always agree.
StopFlagsAgree == disconnectRequested = stopping

\* A pending reconnect always has a stop under way that will pick it up
\* (onProcessStopped, disconnect): none is left behind for a later stop.
PendingOnlyWhileStopping == pending >= 0 => stopping /\ Busy

\* A child being stopped has been signalled, and unless it was killed the timer
\* that will kill it is armed, even when the stop hit it before it had started.
StopIsBacked ==
    stopping /\ Alive => \/ process.signal = "kill"
                         \/ process.signal = "term" /\ process.run \in killTimers

\* How a stop holds together over the handlers that take part in it (disconnect,
\* onProcessStarted, onProcessStopped, onProcessError, stop(0)).
StopProtocol == StopFlagsAgree /\ PendingOnlyWhileStopping /\ StopIsBacked

\* The usage session that is open is the one of the profile the child runs: no
\* path that loses the child, the selection or the profiles leaves it open, and
\* no traffic is booked on another profile's session (endProfileUsageSession).
SessionTracksProcess ==
    session # NoId => /\ process.state = "Running"
                      /\ session = process.profile

\* While a child is alive, m_activeProfileUsageId names its profile or nothing,
\* whatever rows are selected, imported or removed meanwhile.
UsageTracksProcess == Alive => activeUsage \in {process.profile, NoId}

\* The record that the next start of the application uses to kill a left-over
\* child names the child that runs (writeManagedRuntimeRecord).
RecordTracksProcess ==
    record # 0 => process.state = "Running" /\ record = process.run

\* The session, the usage id and the record on disk all follow the one child.
BooksAgree == SessionTracksProcess /\ UsageTracksProcess /\ RecordTracksProcess

\* A child is launched only when nothing of the previous connection is left: its
\* session and record are closed, no stop is under way, no reconnect is waiting.
CleanStart ==
    [][process'.run # process.run =>
            session = NoId /\ record = 0 /\ ~stopping /\ pending = -1]_vars

\* A reconnect is posted only when a requested stop ends, with the child gone:
\* never after a crash or an exit of the child's own.
ReconnectOnlyAfterStop ==
    [][Len(reconnects') > Len(reconnects) =>
            stopping /\ ~Alive' /\ connState' = "Disconnected"]_vars

\* A child that runs and is being stopped ends, and its end settles the stop and
\* the pending reconnect, although xray may ignore SIGTERM.
StopEnds == (stopping /\ process.state = "Running") ~> (~stopping /\ pending = -1)

\* The tray's Exit, asked for while a child runs, ends the application.
ExitEnds == (exit = "asked" /\ process.state = "Running") ~> (exit = "quit")

\* Both rest on the kill timer of the stop being armed in every path that stops.
StopsEnd == StopEnds /\ ExitEnds

\* The proxy-mode life cycle implements the abstract one: a stop is not overtaken by the
\* start it cuts short, nothing starts over a runtime, one stop brings one reconnect.
Lifecycle == INSTANCE TunnelLifecycle
    WITH state <- connState, runtime <- Alive, leaving <- stopping,
         again <- (pending >= 0), owed <- Len(reconnects)

ImplementsLifecycle == Lifecycle!Spec

-----------------------------------------------------------------------------
(* What the repository says of the code and the code does not do *)

\* xrayprocessmanager.cppm: stop() forces the end of the process it was asked to
\* stop.  The 2 s timer kills whichever child runs by then.
KillOnlyStopped == process.signal = "kill" => stopping
=============================================================================
