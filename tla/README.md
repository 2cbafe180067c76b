# GenyConnect, specified

GenyConnect is a Qt desktop client around `xray-core`.  This directory holds TLA+
specifications of the parts of it whose correctness depends on the order of events, TLC
configurations that check them on small instances, and proofs, checked by TLAPS, of the
properties that hold for every instance.  Paths below are relative to the repository root,
`src/` being the directory of the C++ sources as this development names it
(`src/src/vpncontroller.cpp` and so on).

## 1. The system

| Component | Source | State it keeps | Operations |
|---|---|---|---|
| Connection, proxy mode | `vpncontroller.cpp`, `xrayprocessmanager.cpp` | connection state, stop flags, pending reconnect row, one `QProcess`, kill timers, usage session, runtime record on disk | connect, disconnect, toggle, select, QProcess signals, timers |
| Connection, TUN mode | `vpncontroller.cpp` | attempt counter, `m_disconnectRequested`, `m_privilegedTunManaged`, helper port/token/ready, runtime pid, pid file | the same clicks; start and stop workers on pool threads; requests to the helper |
| TUN helper | `tunhelper/main.cpp` | tracked runtime, owner pid, idle and watchdog timers | ping, start_tun, stop_tun, shutdown |
| System proxy, kill switch | `vpncontroller.cpp`, `systemproxymanager.cpp` | applied, in flight, waiting request, settings | apply, finalize, settings changes, tunnel up/down |
| Profile list | `serverprofilemodel.cpp` | rows, ids, selection | add (with equivalence), remove, select |
| Start-up recovery, shutdown | `vpncontroller.cpp` | runtime record, pid file | clean-up at start, `aboutToQuit`, destructor |
| Usage accounting | `vpncontroller.cpp` | samples, session, per-profile totals | poll, update, begin/end session, clear, save |
| Speed test | `vpncontroller.cpp` | phase, attempts, reply | start, phases, tick, retry/fallback, cancel, finish |
| Subscriptions | `vpncontroller.cpp` | entries, queue, busy | add, refresh (all, group), fetch finished |
| Profile groups | `vpncontroller.cpp` | options, current group | enable, exclusive, badge, ensure, remove |
| Probes | `vpncontroller.cpp` | pinging flags, public address | ping, public IP with retries, self check |
| Updater, updater helper | `updater.cpp`, `updaterhelper/main.cpp` | check/download state; staged, installed and backup file | check, download, verify, install; replace, roll back |
| Link parser, configuration builder | `linkparser.cpp`, `xrayconfigbuilder.cpp` | none | text to profile, profile to JSON |
| Shell and interface | `main.cpp`, `ui/*.qml`, `platform/` | tray, window, single instance | exit, toggle, windows |

**How they interact.**  `VpnController` lives on the GUI thread.  Everything reaches it as an
event-loop callback: slots called by QML or the tray, `QProcess` signals forwarded by
`XrayProcessManager`, timers, replies of network managers, and calls queued by
`QtConcurrent::run` workers.  The TUN workers share fields of the controller (some atomic, most
not) and one pid file with the GUI thread, with each other, and with an elevated helper reached
over a local socket.  The tray's Exit follows `connectionStateChanged`.

**What is hard.**  Callbacks in an order nobody wrote a test for (a disconnect during a launch,
a selection during a stop, an import at any time); timers not tied to what they were armed for;
worker results that arrive after a newer request; requests that time out and are served all the
same; partial failure of a list of commands; row numbers and ids that move under a pending
operation; processes nobody watches.  `PROJECT.json` lists the hazards, each at its line.

**What makes each part correct.**

* *Connection*: what is shown agrees with what runs; a disconnect wins over a late start; a stop
  ends; a reconnect starts clean, once, and only after a stop; session, usage id and record name
  the runtime that runs.
* *TUN*: only the newest attempt brings the tunnel up; Connecting always ends; one runtime at
  most that nobody has tried to stop, and none when the tunnel is down.
* *System proxy*: the last request wins; belief equals the services after a success; the kill
  switch locks whenever the tunnel goes down and only the user releases it.
* *Recovery*: no runtime outlives the application and the start after a crash; no foreign
  process is killed.  *Usage*: every byte is booked once, on the profile that caused it.
  *Speed test, subscriptions, updater*: every operation ends, its busy flag with it, and a late
  reply changes nothing.  *Groups*: exclusivity and the current group stay consistent.
  *Updater helper*: there is always one installable binary.

## 2. The modules

| Module | What it is |
|---|---|
| `TunnelLifecycle` | abstract: the four states shown, the runtime held, the stop under way, the reconnect owed |
| `Connection` | proxy-mode life cycle: controller, `QProcess`, profile rows, tray Exit; implements `TunnelLifecycle` |
| `ConnectionProofs` | its inductive invariant, its theorems, and that it implements `TunnelLifecycle` |
| `SystemProxy` | `applySystemProxy`, kill switch, macOS worker |
| `SystemProxyProofs` | its inductive invariant and its theorems |
| `TunConnection` | TUN-mode life cycle: controller, workers, helpers, runtimes, pid file; implements `TunnelLifecycle` when operations do not overlap |
| `TunConnectionProofs` | its inductive invariants and its theorems; that it implements `TunnelLifecycle` when operations do not overlap |
| `RuntimeRecovery` | several lives of the application: crash, quit, start-up clean-up, helpers left behind |
| `RuntimeRecoveryProofs` | its inductive invariant and its theorems |
| `UsageAccounting` | samples, sessions, books, delayed save |
| `UsageAccountingProofs` | its inductive invariant and its theorems, with the lemmas about sums |
| `SpeedTest` | probes, transfers, fallbacks, cancel |
| `SpeedTestProofs` | its inductive invariant and its theorems |
| `Subscriptions` | fetch queue, profiles, groups and their options |
| `SubscriptionsProofs` | what its operators on the groups do, its inductive invariant and its theorems |
| `Updater`, `UpdaterHelper` | check, download, install; the helper that replaces the executable (`Updater` extends `UpdaterHelper`) |
| `UpdaterProofs` | the invariants of both and their theorems |

An operator commented as a *fault*, or one that stands right before the definition it resembles
and is used nowhere, is that definition with a plausible bug; each property was seen to fail when
such an operator takes the place of the definition.

### TunnelLifecycle

What the interface and the tray rely on, whichever process carries the tunnel: nothing goes up
before the previous tunnel has come down, a tunnel under way ignores all but a disconnect, a stop
is not overtaken by the start it cuts short, one stop brings one reconnect at most and only a stop
brings one.  `Connection` and `TunConnection` each define `Lifecycle == INSTANCE TunnelLifecycle`
with their own state for its five variables, and TLC checks `Lifecycle!Spec` as a property of
them.  In TUN mode the mapping holds for a user who waits for each operation; with overlapping
operations it does not (see below, double stop).

### Connection

One action per event-loop callback: `SelectProfile`, `ConnectToProfile`, `ToggleConnection`,
`RemoveProfile`, `RemoveAllProfiles`, `ImportProfileLink`, `ImportBatch`, `ExitClicked` are the
user's; `ReconnectFires` and `KillTimerFires` are timers; `ProcessStarted`,
`ProcessFailsToStart`, `ProcessReadError`, `ProcessStopped`, `ProcessCrashes`, `ProcessExits`
are the signals of `QProcess`, each with every slot it runs.  The operators before them are the
functions the slots call (`DisconnectCall`, `ConnectCall`, `SelectRow`, `MaybeReconnect`).
`connectToProfile` and `importProfileLink` are invokable from QML and therefore actions,
although the shipped QML uses the toggle, the selection and the batch import only.

A row is a number and a profile an id, as in the code.  An id is fresh when no row has it, so
that an id can come back after its row was removed; this allows more than random UUIDs do.  The
`QProcess` is the POSIX one, whose `start()` returns before the child runs.  `exit = "quit"`
stands for the posted quit; what `aboutToQuit` does afterwards is in `RuntimeRecovery`.

### SystemProxy

`proxy` is the record of the controller's five fields about the operation in flight, the one
waiting and the last result; `wanted` is a history field, the last request accepted.  `Apply` is
`applySystemProxy`, a function from that record to the next, so that handlers which call it
twice are compositions, in the code's order.  `WorkerRuns` is the worker's list of commands, one
service after the other; it may fail with any subset done.  The tunnel is present through its
state only: `ProcessStarted`, `ProcessStopped` and `ProcessCrashed` are the handlers that ask for
the proxy themselves, `ConnectionMoves` every other change of state.  Any order of these is
allowed, which includes those that `Connection` and `TunConnection` have: a child that ends behind
Disconnected, a reconnect's Connected that follows Disconnected without Connecting.

### TunConnection

Actors: the GUI thread's callbacks (`ToggleConnection`, `ConnectToProfile`, `SelectOther`,
`ReconnectFires`, and the queued calls `StartCompletes`, `StopCompletes`), the workers
(`WorkerStep`: one step between two blocking calls), the helpers (`HelperStep`: each serves one
request at a time; `startTun` is the two steps `RuntimeLaunched` and its end) and the runtimes.
The pid file is one variable that all of them read and write.  A request that times out stays
with the helper, which still serves it.  A worker that finds the helper silent launches another.
What a helper's signal does is not certain: `stopTun` escalates to SIGKILL (`StopServed`) unless
its command fails (`StopFails`), while macOS's clean-up after a failed route set-up is one SIGTERM
(`RoutesFail`), which the runtime may outlive.  `spared` is a history variable, the runtimes that
outlived an attempt to stop them.
The controller has no privileges, so that its own `killProcessByPid` does not reach a runtime
the helper launched and `stopPrivilegedTunRuntimeByPidPath` only removes the file.

### RuntimeRecovery

Processes are pids, and a pid that became free can be given to anything.  One action per step
that a crash can separate: the record is written when the child has started, removed when it
ended; `CleanupKills` and `CleanupClears` are the two halves of the start-up clean-up, which goes
by the record or, without one, by the pid file, and compares the path of the executable
(`Likely`) before it kills.  `Crash` and `Quit` (aboutToQuit, then the destructor) end a life;
the instance lock lets one application run at a time.  A helper carries out one request at a
time, launches the runtime and then sets up routes (`HelperLaunches`, `HelperStarted`,
`HelperRoutesFail`, whose one SIGTERM the runtime may outlive), and between requests probes its owner (`WatchdogTick`) or leaves
(`HelperIdles`, `HelperShutsDown`).  The connection's own interleavings are left to `Connection`
and `TunConnection`: here the controller waits for what it asked, and the command of `stopTun`
succeeds.

### UsageAccounting

A child has two counters, its statistics API, which a worker polls, and the sums parsed from its
log; `TrafficMoves` moves bytes, and may log them.  `PollAsks`, `PollReads`, `PollArrives` are the
timer, the worker and the queued answer, which can arrive for another child than it was asked
of.  `Sampled` is `updatePerProfileUsageCounters`: the difference to the last sample, or the whole
counter when it went back.  `SessionBegun` and `SessionEnded` are the sessions, `SaveTimerFires`
the delayed save, `AboutToQuit` and `Destroyed` the shutdown.  `moved` is a history field: what
the counters moved, what of it was logged, and (`again`) what an answer handled after the poll
timer has stopped (`TooLate`) can have booked a second time.  Proxy mode only; one direction
stands for both; the hour, day and month buckets and the summaries are not in it.

### SpeedTest

`t` is the record of the test's fields.  The actions are the handlers: start, cancel, the probe
timer and the probe sockets, progress, the 100 ms tick, the two ends of a reply.  `TunnelGoes` is
a loss of the tunnel that cancels the test; `TunnelLost` is the late answer of a TUN start or of a
second TUN stop, which changes the state and lets the test run on.  The window's button starts a
test only when none runs (`ui/Main.qml`).  Timers and sockets of a cancelled test stay (`old`) and fire in the next one.  `Retry` is the next endpoint
or the round past the tunnel.  Bytes are none, some or all; time is in units of the shorter
stall limit; what it measures is abstracted to whether there is a figure.

### Subscriptions

`m` is the record of what subscriptions, profiles and group options share; every handler ends
with the recomputations it triggers in the order of the connected signals (`Recompute`,
`Refresh`).  A fetch carries the copy of the entry it began with; `FetchEnds` is `finished()`
with what was found, the import, and the next entry of the queue.

### Updater, UpdaterHelper

`up` is the record of the updater's fields, `frames` the stack of `onDownloadFinished`
activations that wait in the nested event loop for a checksum manifest, and that return in the
order of a stack.  What a download leaves may be damaged.  `UpdaterHelper` is the detached
process, one action per step of the replacement.  A move by copy and removal, a roll-back and the
clean-up are each one action made of several file operations; each operation may fail, with what
was done before it left as it is, and `HelperKilled` ends the helper between two actions.  A
release is a number, and its digest is that number.

## 3. The runs

| Run | Bounds | What it shows |
|---|---|---|
| `Connection` | 3 ids, 2 rows, 2 launches | `ConnectedIsSettled`, `StopProtocol`, `BooksAgree`, `CleanStart`, `StopsEnd`, and that it implements `TunnelLifecycle`; 127 056 states |
| `SystemProxy` | 2 services, failures | last request wins, belief equals the services, the kill switch locks and only the user releases it, requests take effect; 23 168 states |
| `TunConnection` | 4 workers, 4 attempts, 1 helper at a time; overlap, timeouts | `ConnectedIsWished`, `BusyIsBacked`, `NothingLeftBehind`, `ConnectingEnds`; 371 782 states |
| `TunConnectionSerial` | 4 workers, 6 attempts, 2 helpers; no overlap, runtime exits | `NoRuntimeLeft`, and that it implements `TunnelLifecycle`; 61 070 states |
| `Updater` | 2 releases, 2 checks, 2 downloads, 2 helpers, 3 runs of the application, failing files | `DownloadIsSound`, `SomeBinary`, `NeverDowngraded`, `UpdateEnds`; 196 210 states |
| `UsageAccounting` | 2 profiles, 2 units of traffic, 2 launches, 1 clear | `BooksAddUp`, `DirtyIsScheduled`, `BookedOnRunner`; 1.5 million states |
| `SpeedTest` | 2 probes, 2 endpoints each way, 3 tests | `TestIsSound`, `PhasesInOrder`, `TestEnds`; 90 730 states |
| `Subscriptions` | 1 custom group, 2 servers, 2 urls | `RefreshIsCounted`, `GroupsAgree`, `RefreshEnds`; 44 494 states |
| `RuntimeRecovery` | 3 pids, 2 lives, 2 helpers, 2 runtimes, 1 stranger | `CleanUpIsSound`, `HelpersCleanUp`; 209 559 states |

Several properties are conjunctions of named parts, each with its own comment in the module
(`StopProtocol` is `StopFlagsAgree`, `PendingOnlyWhileStopping` and `StopIsBacked`, and so on).

*Why the bounds are enough.*  `Connection`: two rows let a row move under the selection; a third
id is needed so that an equivalent import can parse an id no row has; two launches let a timer, a
session or a record of the first meet the second, and the theorems hold for any number.
`SystemProxy`: two services are enough for a partial failure.  `TunConnection`: a start, its
cancellation, a second cancellation and the start that replaces it are four workers; a helper that
has quit is followed by another.  Two helpers at once, one that is busy and its successor, are in
`TunConnectionSerial` and in the theorems; with overlap they would make two million states (TLC
found the same properties to hold there).  `Updater`: a second release lets a check replace
the asset a download or a manifest is under way for, a second helper meets what a killed one left
behind.  `UsageAccounting`: a late answer needs two children of two profiles, a counter that went
back two units.  `SpeedTest`: two tests let the timers of one fire in the next, a third those of
both; two endpoints are a first and a last.  `Subscriptions`: two entries are a queue; the two
groups, General and one more, meet in every order of enabling, excluding and removing.
`RuntimeRecovery`: application, helper-launched runtime and a stranger compete for three pids; two
lives are a crash and the start after it.

Deadlock is checked for `Connection` (where `HasQuit` is the end), `SystemProxy`, `SpeedTest` and
`Subscriptions`.  The other configurations switch it off: their counters are bounded, and the
system stops when they are used up or the application is gone.

### What the code does not do

Three runs each check a sentence of the repository's comments, and TLC shows how the code falls
short of it.

| Run | How |
|---|---|
| `Connection_KillOnlyStopped` | stop, the child ends at once, reconnect: the first stop's 2 s timer kills the new child, which is then reported as a crash |
| `TunConnection_DisconnectedMeansNoRuntime` | disconnect after the worker's own check: the queued call drops the result, the runtime stays |
| `RuntimeRecovery_WatchdogStopsItsOwn` | a helper left from an earlier life finds its owner gone and stops what the shared pid file names by then, the runtime of the present life |

Also reachable in the models, and part of the behaviour the properties above were shown of:

* *Connection.*  A child that fails to start while it is being stopped leaves the state at
  Connecting with nothing under way until the next click (`onProcessError` returns early).  A
  selection made while Connecting, or the removal of the connected row, leaves the tunnel on the
  profile selected before.  Importing a known link again looks up the id just parsed, which no row
  has, and clears the selection.  An import clears Error whatever caused it, so that after a read
  error Disconnected is shown while the child runs.  Removing a row during a switch makes the
  pending row number name another profile.
* *SystemProxy.*  The kill switch switched off while its own enable is in flight leaves the proxy
  on.  An enable that fails half-way is not undone when the tunnel stops, since nothing counts as
  applied.  Leaving Global mode while connected releases the kill switch's lock.
* *TunConnection.*  The clean-up of a cancelled start stops, by the shared pid file, the runtime
  of the next one.  A `start_tun` that times out (90 s) leaves a runtime that the next start
  forgets when it removes the pid file.  When macOS's interface or routes cannot be set up, the
  helper sends the runtime one SIGTERM, removes the pid file and answers: a runtime that ignores
  it, or obeys late, runs on, tracked by nobody, and the next start makes two.  A stop whose
  command fails is not repeated, and the controller then removes the pid file.  Nobody notices
  that a TUN runtime exits.  *Double stop*:
  two clicks on disconnect start two stop workers; the second one's answer can come when the
  reconnect has begun, shows Disconnected during it, and Connected then follows Disconnected
  without Connecting (`ImplementsLifecycle` fails with `Overlap = TRUE`).
* *RuntimeRecovery.*  Quitting while a TUN start is under way removes the pid file, and the
  privileged runtime runs on.  The helper's stop kills what the pid file names without comparing
  the executable.  A crash between a launch and `started()`, or after a read error, leaves an
  orphan that no record names.  On macOS the clean-up removes the pid file of a privileged runtime
  it cannot kill, and on any platform when there is no record; the watchdog then stops nothing.
  When the owner's pid is reused, tunnel and helper stay up.
* *UsageAccounting.*  At quit the poll timer stops but the sample stays, so log lines flushed
  while waiting for the child can be booked again as a counter that went back.  The API's counter
  and the log's share one sample: an answer handled when the poll timer no longer runs and the
  state is Connected all the same (below) is compared with the log's counter, and then either can
  look like one that went back and be booked whole.  Each such answer costs at most what all
  children have moved so far.  After the active
  id is cleared (all profiles removed, or the import above) later traffic is booked on what is
  selected.  Clearing all books drops the running session.  Connecting while a child is still
  alive after an error shows Connected with neither poll timer nor session.
* *SpeedTest.*  The stall clock is the phase's: once it has run out, every further endpoint gets
  one tick of 100 ms.  Bytes of an earlier request count for the next one; probes of an earlier
  test count in the next; after the round past the tunnel the upload goes past it, too.
* *Subscriptions.*  A group removed during a fetch comes back with the imported profiles.
  `setCurrentProfileGroup` accepts a name that is not listed; the next recomputation moves the
  selection to All without counting again (`stray`).  A group named All becomes General.
* *Updater.*  The checksum fetched in the nested event loop may belong to another release than the
  one shown, and a file can be verified against a stale digest when the download fails to open:
  what is installed is a published release all the same.  A failed download keeps the path set.
  The result of the helper's roll-back is ignored.  Two installs at once (a double click within
  250 ms, or a restart while a helper is at work: `Overlap = TRUE`) can lose both the installed
  file and the backup; the run has `Overlap = FALSE`.

## 4. Fairness

* `Connection`: the event loop serves every posted timer, a launch succeeds or fails, and a child
  that got SIGKILL ends.  Nothing is assumed of the user, nor that SIGTERM is obeyed.
* `SystemProxy`: the worker's operation ends (every `networksetup` call has a timeout) and its
  queued answer is delivered.
* `TunConnection`: pool threads run, queued calls are delivered, and a helper finishes each
  request (every command it runs has a timeout).  No request has to succeed, and neither the
  idle quit nor the exit of a runtime is fair.
* `Updater`: replies finish (transfer timeouts), the nested loop returns to the frame on top, the
  quit timer fires, and a helper goes on until it ends or is killed.  The application need not
  quit for any other reason, but a helper that waits for it gives up after a time.
* `SpeedTest`: probe timers fire, probe sockets answer or time out, a reply ends (each request has
  a transfer timeout).  The tick need not come: the test ends by its replies alone, and without
  progress, too.
* `Subscriptions`: a fetch ends, by its reply or its transfer timeout.
* `RuntimeRecovery`: a helper that is up serves its request and its timers fire.  The application
  may crash, quit or stay off for ever.
* `UsageAccounting` states safety only.

## 5. The proofs

`SystemProxyProofs`, for any non-empty set of services.  The invariant is `TypeOK`,
`LastRequestWins` and `Believed`, a form of `BeliefMatchesOs` that also says, while an operation
is in flight, that a successful result has put every service where `op` says; without it
`Finalize` could not conclude anything about `os`.  The handlers are compositions of
`Apply`, so the lemmas are about `Apply`: it keeps a "good" record good (`ApplyGood`) and
makes the last accepted request the wanted one (`ApplyAccepts`); each handler is then a few
citations.  The two action properties about the kill switch follow from the same lemmas.

`ConnectionProofs`, for any set of ids and any bounds.  The invariant has three named parts.
`RowsOK`: rows, selection, reconnects have their types and range.  `CoreOK`: the stop protocol
and the books.  It strengthens the checked invariants by what makes them inductive: a stop or a
launch implies Busy, a live child has a run number above zero, and a child that got SIGTERM is
being stopped.  TLC checked this strengthening before it was proved.  One lemma per handler says
that it keeps each part; the theorems are `TypeOK`, `ConnectedIsSettled`, `StopProtocol`,
`BooksAgree` and the action properties `CleanStart` and `ReconnectOnlyAfterStop`.

Its last part proves `Spec => ImplementsLifecycle`: the initial state maps to the abstract one,
and every step to an abstract action or to a stutter.  Each operator the handlers share (a
disconnect, a connect, the end of a stop, the posted reconnect) has a lemma that says which
abstract actions it is; the invariant rules out the rest, for instance a launch over a child that
still runs.

`TunConnectionProofs`, for any number of workers, attempts, helpers and runtimes, with or without
overlap, time-outs and crashes.  The invariant has two halves.  `AttemptsOK` is about the
controller: no two starts have the same attempt, the last one's is the only current one and was
wished, and while it is open nothing is managed; without the last part a start that fails could
leave a record behind.  `PoolOK` and `HelpersOK` are about the shared state: what is posted is
posted once and by a worker that has ended, and pids are of runtimes that were launched.  Every
step of a worker, a helper or a runtime leaves what the controller's promises are about alone
(`ProgressKeeps`), so that only the clicks and the two queued calls remain.

The serial part of it assumes `~Overlap`, the user who waits for each operation, and proves the two
properties of the run `TunConnectionSerial`.  `TurnsOK` says that one worker at most has not been
answered, and is the one whose attempt is current; that is enough for `ImplementsLifecycle`, with
or without time-outs.  `NoRuntimeLeft` also needs `~TimeOuts`, since a request that timed out is
served by a helper nobody waits for, and it does not count the runtimes that outlived an attempt
to stop them: of those the code keeps no track (section 3).  `RuntimeOK` then says what the worker
under way relies on, phase by phase (`At`): that nothing else runs (`Down`), or that what runs is
what the pid file names and is tracked by the helper the controller reaches (`HasRuntime`), and that the one request in the
helpers' inbox is its own (`Asks`).  With overlap both properties are false: the double stop above,
and the run `TunConnection_DisconnectedMeansNoRuntime`.

`SpeedTestProofs`, for any number of probes, endpoints and tests.  Timers and sockets of
cancelled tests live on and count in the next test, so the invariant has to bound them:
`TimersCounted` says that one latency timer or socket at most is the present test's own and how
many there are in all.  `UploadIsMeasured` is what
the ends of a request need to conclude that a completed test has measured.  That a running test is
connected is no invariant (`TunnelLost`).

`UpdaterProofs`, for any number of releases, helpers and runs of the application, whether file
operations can fail or not.  The lemmas come in two layers.  The first says what a removal, a
rename, a copy, a move and a roll-back can leave in the three files.  The second takes each
action: `OffersAreNewer` is the invariant of the application (any digest or manifest that may
still lead to an installation, in a field or on the stack of nested event loops, belongs to a
newer release), `PhasesOK` that of the helper (what each of its steps finds in the files).
`DownloadIsSound` and `HandOffIsNewer` need the first only; `SomeBinary` and `NeverDowngraded`
need the second and with it `~Overlap`, without which they are false.

`UsageAccountingProofs`, for any number of profiles, bytes, launches and clearings.  That nothing
is booked twice needs an invariant about what may *still* be booked: the slack between what the
counters moved and the total of the books covers, while the log counts, what the child logged since
the last sample, and while the API counts, what it moved since and what its log still adds.  The
total is a sum over the profiles; the lemmas about it are proved by way of a least counterexample
(below).  The attempt to prove an earlier `BookedPerCounter`, without `again`, failed for a good
reason: the run's bound of two units was too small to show that a late answer can be compared with
the log's counter (TLC finds it with four).  The bound and the history field are as they are
since then.

`RuntimeRecoveryProofs`, for any number of pids, lives, helpers, runtimes and strangers.  What makes
the clean-up sound is `NamedOK`: from the crash on until the clean-up of the next start is through,
the record still names the orphan it named, since only a life past its clean-up writes it.
`OrphanedTunnelEnds`, a part of `HelpersCleanUp` that only TLC checks, is about a runtime left behind
that a helper tracks: it stays tracked until it has ended, and it does not stay so for ever,
unless the owner's pid was given to another process.  A runtime that outlived the SIGTERM of
`HelperRoutesFail` is tracked by nobody, and nothing is promised of it.

`SubscriptionsProofs`, for any groups, servers and urls.  The handlers are compositions of a few
operators on `m`, each with a lemma that says what it changes.  `RefreshGives` and `RecomputeGives`
split `GroupsAgree` in two: `Refresh` makes the groups complete, the current one enabled, and one at
most exclusive, and `Recompute` the figures right.  The model's signals run the two in the wrong
order, and what makes that harmless is `Anchored`: the current group is enabled, and either has a
row of options, so that `Refresh` keeps it, or is noted as a stray.  `ImportSound` and
`ImportMovesTheFound` are about a whole import, a fold over what was found, whatever the order.
`GoneOK` adds to `RemovedStaysGone` that the groups gone have no row of options and no fetch that
will import into them, and `QueueOK` to `RefreshIsCounted` that the counts never exceed `asked`.

Assumptions: `ConnectionAssumption`, `SystemProxyAssumption`, `TunConnectionAssumption`,
`SpeedTestAssumption`, `UpdaterAssumption`, `UpdaterHelperAssumption`, `UsageAssumption`,
`RuntimeRecoveryAssumption` (there are pids, and a life) and `SubscriptionsAssumption` (no group
is called like the three constants, finitely many servers and urls), which TLC evaluates in the
runs.  The theorems named above with `~Overlap` or `~TimeOuts` have these as hypotheses: they are
constants of the model, and set so in the runs that check the properties.

Proved are all invariants, action properties and refinements that the passing runs check.
Model-checked only: the liveness properties (`StopsEnd`, `RequestsTakeEffect`, `ConnectingEnds`,
`UpdateEnds`, `TestEnds`, `RefreshEnds`, `HelpersCleanUp`), which are beyond this prover, and of
course the violations.  Induction: the library's induction theorems have an operator as a
parameter, and no installed prover can instantiate them.  Where a sum or a fold over a finite set
needs induction, the proofs take the counterexample of least cardinality, which exists by the
first-order theorems `NatLessThanWellFounded` and `WFMin`, and show that there is a smaller one.

## 6. Not modelled, and why

* The Windows and Linux variants of the proxy commands: the control is the same, the commands
  differ.  The helper's route set-up is macOS's, which gives a failed start's runtime one SIGTERM;
  Windows and Linux call `stopTun` there, which kills, or fails with a runtime that outlives it:
  both are outcomes the model has.  `RuntimeRecovery` is POSIX only.
* A pid file that cannot be written (`tunhelper/main.cpp` 1580-1610): the helper then fails the
  start and leaves the runtime it has just launched.
* The unsynchronised writes of helper token, port and pid by two workers at once: the model orders
  helper launches.  The kill of `m_privilegedTunHelperPid` is left out with them.
* Pings, the public address and the self check: independent probes whose results are shown and
  change nothing else.
* The choice of the asset and the comparison of versions in the updater, the link parser and the
  configuration builder: pure functions over text.
* The hour, day and month buckets of the usage books, the speed test's history and rates, badges
  and ping figures of groups.
* The text of logs and messages, the interface and the macOS bridge.

## 7. Plan

1. Done: the modules above, the refinement of `TunnelLifecycle` checked and proved in both modes,
   and the proofs of every invariant and action property that the runs check.
2. Proofs: what the counts of `TunConnection` promise with overlap (how many runtimes at most), and
   what limits the damage of a request that times out.
3. `Probes`: public address with retries and its fallbacks, pings and their flags.
4. Pure algorithms against reference definitions: version order, percentile, routing rules' order.
