-------------------------- MODULE ConnectionProofs ---------------------------
(***************************************************************************)
(* Proofs about Connection, for every set of ids, every length of the      *)
(* profile list and every number of launches.                              *)
(*                                                                         *)
(* The inductive invariant has two halves.  RowsOK is about the rows: the  *)
(* profile list, the selection and the posted reconnects.  CoreOK is about *)
(* the connection: the state shown, the flags of a stop, what is recorded  *)
(* of the session, and the child process.                                  *)
(*                                                                         *)
(* The last part is the refinement: each operator the handlers share has a *)
(* lemma that says which actions of TunnelLifecycle it is.                 *)
(***************************************************************************)
EXTENDS Connection, SequenceTheorems, TLAPS

RowsOK ==
    /\ profiles \in Seq(Ids)
    /\ current \in Rows(profiles) \union {-1}
    /\ currentId \in Ids \union {NoId}
    /\ reconnects \in Seq(Nat)

CoreTypes ==
    /\ connState \in {"Disconnected", "Connecting", "Connected", "Error"}
    /\ pending \in Nat \union {-1}
    /\ stopping \in BOOLEAN
    /\ disconnectRequested \in BOOLEAN
    /\ activeUsage \in Ids \union {NoId}
    /\ session \in Ids \union {NoId}
    /\ record \in 0 .. MaxStarts
    /\ process \in [state : {"NotRunning", "Starting", "Running"}, run : 0 .. MaxStarts,
                    profile : Ids \union {NoId}, signal : {"none", "term", "kill"}]
    /\ killTimers \subseteq 1 .. MaxStarts

\* The safety invariants of Connection and what they need to be inductive: a stop
\* and a launch are shown as Connecting, a child that runs has a number, and only a
\* child that is being stopped has got SIGTERM.
CoreOK ==
    /\ CoreTypes
    /\ ConnectedIsSettled
    /\ StopFlagsAgree
    /\ PendingOnlyWhileStopping
    /\ StopIsBacked
    /\ SessionTracksProcess
    /\ UsageTracksProcess
    /\ RecordTracksProcess
    /\ stopping => Busy
    /\ process.state = "Starting" => Busy
    /\ Alive => process.run > 0
    /\ Alive /\ process.signal = "term" => stopping

IInv == RowsOK /\ CoreOK /\ exit \in {"no", "asked", "quit"}

coreVars == <<connState, stopVars, usageVars, procVars>>

USE DEF Alive, Busy, Connected

-----------------------------------------------------------------------------
(* The helpers of the handlers keep CoreOK *)

\* An outcome that touches none of the fields keeps it.
LEMMA CoreStutters == CoreOK /\ UNCHANGED coreVars => CoreOK'
BY DEF CoreOK, CoreTypes, coreVars, stopVars, usageVars, procVars, ConnectedIsSettled,
       StopFlagsAgree, PendingOnlyWhileStopping, StopIsBacked, SessionTracksProcess,
       UsageTracksProcess, RecordTracksProcess

\* disconnect() of a child that is alive.
LEMMA StopRuntimeKeeps ==
    \A row \in Nat \union {-1} : CoreOK /\ Alive /\ StopRuntime(row) => CoreOK'
<1> SUFFICES ASSUME NEW row \in Nat \union {-1}, CoreOK, Alive, StopRuntime(row)
             PROVE  CoreOK'
  OBVIOUS
<1>1. /\ process' = [process EXCEPT !.signal = IF process.signal = "kill"
                                               THEN process.signal ELSE "term"]
      /\ killTimers' = killTimers \union {process.run}
      /\ pending' = row /\ stopping' = TRUE /\ disconnectRequested' = TRUE
      /\ connState' = "Connecting"
      /\ activeUsage' = activeUsage /\ session' = session /\ record' = record
  BY DEF StopRuntime, StopProcess, Terminated, usageVars
<1>2. /\ process'.state = process.state
      /\ process'.run = process.run
      /\ process'.profile = process.profile
      /\ process'.signal = IF process.signal = "kill" THEN "kill" ELSE "term"
  BY <1>1 DEF CoreOK, CoreTypes
<1>3. CoreTypes'
  BY <1>1 DEF CoreOK, CoreTypes
<1> QED
  BY <1>1, <1>2, <1>3
     DEF CoreOK, ConnectedIsSettled, StopFlagsAgree, PendingOnlyWhileStopping, StopIsBacked,
         SessionTracksProcess, UsageTracksProcess, RecordTracksProcess

\* disconnect() with nothing to stop.
LEMMA SettleKeeps ==
    CoreOK /\ ~Alive /\ SettleDisconnected => CoreOK'
<1> SUFFICES ASSUME CoreOK, ~Alive, SettleDisconnected PROVE CoreOK'
  OBVIOUS
<1>1. /\ session' = SessionEnded(activeUsage) /\ record' = 0
      /\ stopping' = FALSE /\ disconnectRequested' = FALSE
      /\ connState' = "Disconnected" /\ pending' = -1
      /\ activeUsage' = activeUsage /\ process' = process /\ killTimers' = killTimers
  BY DEF SettleDisconnected, ReleaseRuntime, StopSettled, MaybeReconnect, procVars
<1>2. session' = NoId
  BY <1>1 DEF CoreOK, SessionTracksProcess, SessionEnded
<1>3. CoreTypes'
  <2>1. 0 \in 0 .. MaxStarts /\ -1 \in Nat \union {-1}
    BY ConnectionAssumption
  <2>2. CoreTypes
    BY DEF CoreOK
  <2> QED
    BY <1>1, <1>2, <2>1, <2>2 DEF CoreTypes
<1>4. ~Alive' /\ ~Connected' /\ ~(pending' >= 0)
  BY <1>1
<1> QED
  BY <1>1, <1>2, <1>3, <1>4
     DEF CoreOK, ConnectedIsSettled, StopFlagsAgree, PendingOnlyWhileStopping, StopIsBacked,
         SessionTracksProcess, UsageTracksProcess, RecordTracksProcess

\* setCurrentProfileIndex, with the state its caller ends with.
LEMMA SelectKeeps ==
    \A list \in Seq(Ids), state \in {"Disconnected", "Connecting", "Connected", "Error"} :
    \A row \in Rows(list) \union {-1} :
        /\ CoreOK
        /\ state = connState \/ (connState = "Error" /\ state = "Disconnected")
        /\ SelectRow(row, list, state)
        => CoreOK'
<1> SUFFICES ASSUME NEW list \in Seq(Ids),
                    NEW state \in {"Disconnected", "Connecting", "Connected", "Error"},
                    NEW row \in Rows(list) \union {-1},
                    CoreOK,
                    state = connState \/ (connState = "Error" /\ state = "Disconnected"),
                    SelectRow(row, list, state)
             PROVE  CoreOK'
  OBVIOUS
<1>1. row \in Nat \union {-1}
  BY DEF Rows
<1>2. CASE Alive /\ StopRuntime(row)
  BY <1>1, <1>2, StopRuntimeKeeps
<1>3. CASE ~(Alive /\ StopRuntime(row))
  <2>1. /\ pending' \in {pending, -1}
        /\ activeUsage' \in {activeUsage, NoId}
        /\ connState' = state
        /\ stopping' = stopping /\ disconnectRequested' = disconnectRequested
        /\ session' = session /\ record' = record
        /\ process' = process /\ killTimers' = killTimers
    BY <1>3 DEF SelectRow, UsageAfterSelecting, procVars
  <2>2. CoreTypes'
    BY <2>1 DEF CoreOK, CoreTypes
  <2>3. pending' >= 0 => pending >= 0
    BY <2>1 DEF CoreOK, CoreTypes
  <2> QED
    BY <2>1, <2>2, <2>3
       DEF CoreOK, ConnectedIsSettled, StopFlagsAgree, PendingOnlyWhileStopping, StopIsBacked,
           SessionTracksProcess, UsageTracksProcess, RecordTracksProcess
<1> QED
  BY <1>2, <1>3

\* A row of a list names one of the ids.
LEMMA RowIsId == \A list \in Seq(Ids) : \A row \in Rows(list) : list[row + 1] \in Ids
<1> SUFFICES ASSUME NEW list \in Seq(Ids), NEW row \in Rows(list)
             PROVE  list[row + 1] \in Ids
  OBVIOUS
<1>1. Len(list) \in Nat /\ row + 1 \in 1 .. Len(list)
  BY DEF Rows
<1> QED
  BY <1>1, ElementOfSeq

\* connectToProfile, with every outcome it can have: the row it is given may be stale.
LEMMA ConnectKeeps ==
    \A row \in Nat \union {-1} :
        /\ CoreOK
        /\ profiles \in Seq(Ids)
        /\ ConnectCall(row)
        => CoreOK'
<1> SUFFICES ASSUME NEW row \in Nat \union {-1}, CoreOK, profiles \in Seq(Ids),
                    ConnectCall(row)
             PROVE  CoreOK'
  OBVIOUS
<1>1. CoreTypes
  BY DEF CoreOK
<1>2. CASE Busy /\ UNCHANGED coreVars
  BY <1>2, CoreStutters
<1>3. CASE ~Busy /\ ConnectRejected
  <2>1. /\ connState' = "Error"
        /\ pending' = pending
        /\ stopping' = stopping /\ disconnectRequested' = disconnectRequested
        /\ activeUsage' = activeUsage /\ session' = session /\ record' = record
        /\ process' = process /\ killTimers' = killTimers
    BY <1>3 DEF ConnectRejected, stopVars, usageVars, procVars
  <2>2. CoreTypes'
    BY <1>1, <2>1 DEF CoreTypes
  <2> QED
    BY <1>3, <2>1, <2>2
       DEF CoreOK, ConnectedIsSettled, StopFlagsAgree, PendingOnlyWhileStopping, StopIsBacked,
           SessionTracksProcess, UsageTracksProcess, RecordTracksProcess
<1>4. CASE ~Busy /\ Alive /\ ConnectWhileAlive(row)
  <2>1. CASE StopRuntime(row)
    BY <1>4, <2>1, StopRuntimeKeeps
  <2>2. CASE ~StopRuntime(row)
    <3>1. /\ connState' = "Connected"
          /\ disconnectRequested' = (Connected /\ disconnectRequested)
          /\ pending' = pending /\ stopping' = stopping
          /\ activeUsage' = activeUsage /\ session' = session /\ record' = record
          /\ process' = process /\ killTimers' = killTimers
      BY <1>4, <2>2 DEF ConnectWhileAlive, usageVars, procVars
    <3>2. stopping = FALSE /\ disconnectRequested' = FALSE
      BY <1>1, <1>4, <3>1 DEF CoreOK, StopFlagsAgree, CoreTypes
    <3>3. process.state = "Running" /\ process.signal # "term"
      BY <1>1, <1>4, <3>2 DEF CoreOK, CoreTypes
    <3>4. CoreTypes'
      BY <1>1, <3>1 DEF CoreTypes
    <3> QED
      BY <1>4, <3>1, <3>2, <3>3, <3>4
         DEF CoreOK, ConnectedIsSettled, StopFlagsAgree, PendingOnlyWhileStopping,
             StopIsBacked, SessionTracksProcess, UsageTracksProcess, RecordTracksProcess
  <2> QED
    BY <2>1, <2>2
<1>5. CASE ~Busy /\ ~Alive /\ row \in Rows(profiles) /\ ConnectNotLaunched(row)
  <2>1. /\ activeUsage' = profiles[row + 1]
        /\ disconnectRequested' = FALSE /\ stopping' = stopping
        /\ connState' = "Error" /\ pending' = pending
        /\ session' = session /\ record' = record
        /\ process' = process /\ killTimers' = killTimers
    BY <1>5 DEF ConnectNotLaunched, procVars
  <2>2. profiles[row + 1] \in Ids
    BY <1>5, RowIsId
  <2>3. CoreTypes'
    BY <1>1, <2>1, <2>2 DEF CoreTypes
  <2>4. ~stopping /\ ~Alive'
    BY <1>1, <1>5, <2>1 DEF CoreOK, CoreTypes
  <2> QED
    BY <1>5, <2>1, <2>3, <2>4
       DEF CoreOK, CoreTypes, ConnectedIsSettled, StopFlagsAgree, PendingOnlyWhileStopping,
           StopIsBacked, SessionTracksProcess, UsageTracksProcess, RecordTracksProcess
<1>6. CASE ~Busy /\ ~Alive /\ row \in Rows(profiles) /\ ConnectLaunched(row)
  <2>1. /\ process.run < MaxStarts
        /\ activeUsage' = profiles[row + 1]
        /\ disconnectRequested' = FALSE /\ stopping' = stopping
        /\ connState' = "Connecting" /\ pending' = pending
        /\ process' = [state |-> "Starting", run |-> process.run + 1,
                       profile |-> profiles[row + 1], signal |-> "none"]
        /\ session' = session /\ record' = record /\ killTimers' = killTimers
    BY <1>6 DEF ConnectLaunched
  <2>2. profiles[row + 1] \in Ids
    BY <1>6, RowIsId
  <2>3. process.run + 1 \in 1 .. MaxStarts
    BY <1>1, <2>1, ConnectionAssumption DEF CoreTypes
  <2>4. ~stopping /\ session = NoId /\ record = 0 /\ ~(pending >= 0)
    BY <1>1, <1>6
       DEF CoreOK, CoreTypes, SessionTracksProcess, RecordTracksProcess,
           PendingOnlyWhileStopping
  <2>5. CoreTypes'
    <3>1. process.run + 1 \in 0 .. MaxStarts
      BY <2>3
    <3>2. process' \in [state : {"NotRunning", "Starting", "Running"}, run : 0 .. MaxStarts,
                        profile : Ids \union {NoId}, signal : {"none", "term", "kill"}]
      BY <2>1, <2>2, <3>1
    <3> QED
      BY <1>1, <2>1, <2>2, <3>2 DEF CoreTypes
  <2>6. /\ process'.state = "Starting" /\ process'.run > 0
        /\ process'.profile = activeUsage' /\ process'.signal = "none"
    BY <1>1, <2>1, <2>3 DEF CoreTypes
  <2> QED
    BY <2>1, <2>4, <2>5, <2>6
       DEF CoreOK, CoreTypes, ConnectedIsSettled, StopFlagsAgree, PendingOnlyWhileStopping,
           StopIsBacked, SessionTracksProcess, UsageTracksProcess, RecordTracksProcess
<1> QED
  BY <1>2, <1>3, <1>4, <1>5, <1>6 DEF ConnectCall, coreVars

-----------------------------------------------------------------------------
(* The callbacks of the child process keep CoreOK *)

\* QProcess::started, for a launch that was cancelled and for one that was not.
LEMMA StartedKeeps == CoreOK /\ ProcessStarted => CoreOK'
<1> SUFFICES ASSUME CoreOK, ProcessStarted PROVE CoreOK'
  OBVIOUS
<1>1. CoreTypes
  BY DEF CoreOK
<1>2. /\ process.state = "Starting" /\ process.run > 0 /\ Busy
      /\ pending' = pending /\ activeUsage' = activeUsage
  BY DEF ProcessStarted, CoreOK
<1>3. session = NoId /\ record = 0 /\ disconnectRequested = stopping
  BY <1>2 DEF CoreOK, SessionTracksProcess, RecordTracksProcess, StopFlagsAgree
<1>4. CASE disconnectRequested
  <2>1. /\ stopping' = TRUE
        /\ process' = [Terminated EXCEPT !.state = "Running"]
        /\ killTimers' = killTimers \union {process.run}
        /\ connState' = connState /\ disconnectRequested' = disconnectRequested
        /\ session' = session /\ record' = record
    BY <1>4 DEF ProcessStarted, StartCancelled
  <2>2. /\ process'.state = "Running" /\ process'.run = process.run
        /\ process'.profile = process.profile
        /\ process'.signal = IF process.signal = "kill" THEN "kill" ELSE "term"
    BY <1>1, <2>1 DEF Terminated, CoreTypes
  <2>3. process' \in [state : {"NotRunning", "Starting", "Running"}, run : 0 .. MaxStarts,
                      profile : Ids \union {NoId}, signal : {"none", "term", "kill"}]
    BY <1>1, <2>1 DEF Terminated, CoreTypes
  <2>4. CoreTypes'
    BY <1>1, <1>2, <2>1, <2>3 DEF CoreTypes
  <2>5. stopping = TRUE /\ disconnectRequested' = TRUE
    BY <1>1, <1>3, <1>4, <2>1 DEF CoreTypes
  <2> QED
    BY <1>2, <1>3, <2>1, <2>2, <2>4, <2>5
       DEF CoreOK, ConnectedIsSettled, StopFlagsAgree, PendingOnlyWhileStopping, StopIsBacked,
           SessionTracksProcess, UsageTracksProcess, RecordTracksProcess
<1>5. CASE ~disconnectRequested
  <2>1. /\ stopping' = FALSE
        /\ process' = [process EXCEPT !.state = "Running"]
        /\ record' = process.run
        /\ session' = SessionBegun(activeUsage)
        /\ connState' = "Connected"
        /\ disconnectRequested' = disconnectRequested /\ killTimers' = killTimers
    BY <1>5 DEF ProcessStarted, StartCancelled
  <2>2. /\ process'.state = "Running" /\ process'.run = process.run
        /\ process'.profile = process.profile /\ process'.signal = process.signal
    BY <1>1, <2>1 DEF CoreTypes
  <2>3. process' \in [state : {"NotRunning", "Starting", "Running"}, run : 0 .. MaxStarts,
                      profile : Ids \union {NoId}, signal : {"none", "term", "kill"}]
    BY <1>1, <2>1 DEF CoreTypes
  <2>4. session' = activeUsage /\ activeUsage \in {process.profile, NoId}
    BY <1>2, <1>3, <2>1 DEF SessionBegun, CoreOK, UsageTracksProcess
  <2>5. CoreTypes'
    BY <1>1, <1>2, <2>1, <2>3, <2>4 DEF CoreTypes
  <2>6. stopping = FALSE /\ disconnectRequested' = FALSE /\ ~(pending >= 0)
    BY <1>1, <1>3, <1>5, <2>1 DEF CoreOK, CoreTypes, PendingOnlyWhileStopping
  <2>7. process.signal # "term"
    BY <1>2, <2>6 DEF CoreOK
  <2> QED
    BY <1>2, <2>1, <2>2, <2>4, <2>5, <2>6, <2>7
       DEF CoreOK, ConnectedIsSettled, StopFlagsAgree, PendingOnlyWhileStopping, StopIsBacked,
           SessionTracksProcess, UsageTracksProcess, RecordTracksProcess
<1> QED
  BY <1>4, <1>5

\* onProcessError closes the session of the child that runs.
LEMMA SessionCloses == CoreOK => SessionEnded(activeUsage) = NoId
BY DEF CoreOK, SessionTracksProcess, UsageTracksProcess, SessionEnded

\* Whatever ends the child leaves a state without a child, a session or a record.
LEMMA GoneKeeps ==
    /\ CoreOK
    /\ process' = NoProcess(process.run)
    /\ session' = NoId /\ record' = 0
    /\ connState' \in {"Disconnected", "Error"}
    /\ stopping' = FALSE /\ disconnectRequested' = FALSE
    /\ pending' = -1
    /\ activeUsage' \in {activeUsage, NoId}
    /\ killTimers' = killTimers
    => CoreOK'
<1> SUFFICES ASSUME CoreOK,
                    process' = NoProcess(process.run),
                    session' = NoId, record' = 0,
                    connState' \in {"Disconnected", "Error"},
                    stopping' = FALSE, disconnectRequested' = FALSE,
                    pending' = -1,
                    activeUsage' \in {activeUsage, NoId},
                    killTimers' = killTimers
             PROVE  CoreOK'
  OBVIOUS
<1>1. CoreTypes
  BY DEF CoreOK
<1>2. process'.state = "NotRunning"
  BY DEF NoProcess
<1>3. process' \in [state : {"NotRunning", "Starting", "Running"}, run : 0 .. MaxStarts,
                    profile : Ids \union {NoId}, signal : {"none", "term", "kill"}]
  BY <1>1 DEF NoProcess, CoreTypes
<1>4. 0 \in 0 .. MaxStarts /\ -1 \in Nat \union {-1}
  BY ConnectionAssumption
<1>5. CoreTypes'
  BY <1>1, <1>3, <1>4 DEF CoreTypes
<1>6. ~(pending' >= 0)
  OBVIOUS
<1> QED
  BY <1>2, <1>5, <1>6
     DEF CoreOK, ConnectedIsSettled, StopFlagsAgree, PendingOnlyWhileStopping, StopIsBacked,
         SessionTracksProcess, UsageTracksProcess, RecordTracksProcess

\* Nothing is pending, and the flags are down, while no stop is under way.
LEMMA NotStopping ==
    CoreOK /\ ~stopping => stopping = FALSE /\ disconnectRequested = FALSE /\ pending = -1
BY DEF CoreOK, CoreTypes, StopFlagsAgree, PendingOnlyWhileStopping

LEMMA EndedKeeps == CoreOK /\ (ProcessStopped \/ ProcessCrashes \/ ProcessExits) => CoreOK'
<1> SUFFICES ASSUME CoreOK, ProcessStopped \/ ProcessCrashes \/ ProcessExits
             PROVE  CoreOK'
  OBVIOUS
<1>1. /\ process' = NoProcess(process.run)
      /\ session' = NoId /\ record' = 0 /\ killTimers' = killTimers
  BY SessionCloses DEF ProcessStopped, ProcessCrashes, ProcessExits, ProcessGone, ReleaseRuntime
<1>2. CASE ProcessStopped
  <2>1. /\ connState' = "Disconnected" /\ stopping' = FALSE
        /\ disconnectRequested' = FALSE /\ pending' = -1 /\ activeUsage' = activeUsage
    BY <1>2 DEF ProcessStopped, StopSettled, MaybeReconnect
  <2> QED
    BY <1>1, <2>1, GoneKeeps
<1>3. CASE ProcessCrashes
  <2>1. ~stopping /\ connState' = "Error" /\ UNCHANGED <<stopVars, activeUsage>>
    BY <1>3 DEF ProcessCrashes
  <2>2. stopping' = FALSE /\ disconnectRequested' = FALSE /\ pending' = -1
    BY <2>1, NotStopping DEF stopVars
  <2> QED
    BY <1>1, <2>1, <2>2, GoneKeeps
<1>4. CASE ProcessExits
  <2>1. /\ ~stopping /\ connState' \in {"Disconnected", "Error"}
        /\ disconnectRequested' = FALSE /\ pending' = -1 /\ activeUsage' = NoId
        /\ stopping' = stopping
    BY <1>4 DEF ProcessExits
  <2>2. stopping' = FALSE
    BY <2>1, NotStopping
  <2> QED
    BY <1>1, <2>1, <2>2, GoneKeeps
<1> QED
  BY <1>2, <1>3, <1>4

LEMMA FailsToStartKeeps == CoreOK /\ ProcessFailsToStart => CoreOK'
<1> SUFFICES ASSUME CoreOK, ProcessFailsToStart PROVE CoreOK'
  OBVIOUS
<1>1. /\ process.state = "Starting" /\ process' = NoProcess(process.run)
      /\ UNCHANGED <<stopVars, activeUsage, killTimers>>
  BY DEF ProcessFailsToStart
<1>2. CASE ~stopping
  <2>1. connState' = "Error" /\ session' = NoId /\ record' = 0
    BY <1>2, SessionCloses DEF ProcessFailsToStart, ErrorReported, ReleaseRuntime
  <2>2. stopping' = FALSE /\ disconnectRequested' = FALSE /\ pending' = -1
    BY <1>1, <1>2, NotStopping DEF stopVars
  <2> QED
    BY <1>1, <2>1, <2>2, GoneKeeps
<1>3. CASE stopping
  <2>1. connState' = connState /\ session' = session /\ record' = record
    BY <1>3 DEF ProcessFailsToStart
  <2>2. /\ pending' = pending /\ stopping' = stopping
        /\ disconnectRequested' = disconnectRequested
        /\ activeUsage' = activeUsage /\ killTimers' = killTimers
    BY <1>1 DEF stopVars
  <2>3. session = NoId /\ record = 0 /\ Busy
    BY <1>1 DEF CoreOK, SessionTracksProcess, RecordTracksProcess
  <2>4. process'.state = "NotRunning"
    BY <1>1 DEF NoProcess
  <2>5. process' \in [state : {"NotRunning", "Starting", "Running"}, run : 0 .. MaxStarts,
                      profile : Ids \union {NoId}, signal : {"none", "term", "kill"}]
    BY <1>1 DEF NoProcess, CoreOK, CoreTypes
  <2>6. CoreTypes'
    BY <2>1, <2>2, <2>5 DEF CoreOK, CoreTypes
  <2> QED
    BY <2>1, <2>2, <2>3, <2>4, <2>6
       DEF CoreOK, ConnectedIsSettled, StopFlagsAgree, PendingOnlyWhileStopping, StopIsBacked,
           SessionTracksProcess, UsageTracksProcess, RecordTracksProcess
<1> QED
  BY <1>2, <1>3

LEMMA ReadErrorKeeps == CoreOK /\ ProcessReadError => CoreOK'
<1> SUFFICES ASSUME CoreOK, ProcessReadError PROVE CoreOK'
  OBVIOUS
<1>1. /\ process.state = "Running" /\ connState' = "Error"
      /\ session' = NoId /\ record' = 0 /\ pending' = pending
      /\ activeUsage' = activeUsage /\ process' = process /\ killTimers' = killTimers
      /\ stopping' = stopping /\ disconnectRequested' = disconnectRequested
  BY SessionCloses DEF ProcessReadError, ErrorReported, ReleaseRuntime, stopVars, procVars
<1>2. stopping = FALSE /\ ~(pending >= 0)
  BY NotStopping DEF ProcessReadError
<1>3. 0 \in 0 .. MaxStarts
  BY ConnectionAssumption
<1>4. CoreTypes'
  BY <1>1, <1>3 DEF CoreOK, CoreTypes
<1> QED
  BY <1>1, <1>2, <1>4
     DEF CoreOK, ConnectedIsSettled, StopFlagsAgree, PendingOnlyWhileStopping, StopIsBacked,
         SessionTracksProcess, UsageTracksProcess, RecordTracksProcess

\* The late SIGKILL leaves the invariant alone, whichever child it hits.
LEMMA KillKeeps ==
    \A run \in killTimers : CoreOK /\ KillTimerFires(run) => CoreOK'
<1> SUFFICES ASSUME NEW run \in killTimers, CoreOK, KillTimerFires(run) PROVE CoreOK'
  OBVIOUS
<1>1. CoreTypes
  BY DEF CoreOK
<1>2. /\ killTimers' = killTimers \ {run}
      /\ process' = IF Alive THEN [process EXCEPT !.signal = "kill"] ELSE process
      /\ connState' = connState /\ pending' = pending /\ stopping' = stopping
      /\ disconnectRequested' = disconnectRequested
      /\ activeUsage' = activeUsage /\ session' = session /\ record' = record
  BY DEF KillTimerFires, stopVars, usageVars
<1>3. /\ process'.state = process.state /\ process'.run = process.run
      /\ process'.profile = process.profile
      /\ Alive => process'.signal = "kill"
  BY <1>1, <1>2 DEF CoreTypes
<1>4. process' \in [state : {"NotRunning", "Starting", "Running"}, run : 0 .. MaxStarts,
                    profile : Ids \union {NoId}, signal : {"none", "term", "kill"}]
  BY <1>1, <1>2 DEF CoreTypes
<1>5. CoreTypes'
  BY <1>1, <1>2, <1>4 DEF CoreTypes
<1> QED
  BY <1>2, <1>3, <1>5
     DEF CoreOK, ConnectedIsSettled, StopFlagsAgree, PendingOnlyWhileStopping, StopIsBacked,
         SessionTracksProcess, UsageTracksProcess, RecordTracksProcess

-----------------------------------------------------------------------------
(* The rows *)

\* setCurrentProfileIndex selects a row of the list it is given, or keeps one.
LEMMA SelectRows ==
    \A list \in Seq(Ids), state \in {"Disconnected", "Connecting", "Connected", "Error"} :
    \A row \in Rows(list) \union {-1} :
        /\ RowsOK
        /\ SelectRow(row, list, state)
        /\ profiles' = list
        => RowsOK'
<1> SUFFICES ASSUME NEW list \in Seq(Ids),
                    NEW state \in {"Disconnected", "Connecting", "Connected", "Error"},
                    NEW row \in Rows(list) \union {-1},
                    RowsOK, SelectRow(row, list, state), profiles' = list
             PROVE  RowsOK'
  OBVIOUS
<1>1. current' = row /\ reconnects' = reconnects
  BY DEF SelectRow
<1>2. currentId' \in Ids \union {NoId}
  <2>1. \/ currentId' \in {NoId, currentId}
        \/ row \in Rows(list) /\ currentId' = list[row + 1]
    BY DEF SelectRow
  <2> QED
    BY <2>1, RowIsId DEF RowsOK
<1> QED
  BY <1>1, <1>2 DEF RowsOK

LEMMA ConnectRows ==
    \A row : RowsOK /\ ConnectCall(row) /\ reconnects' = reconnects => RowsOK'
<1> SUFFICES ASSUME NEW row, RowsOK, ConnectCall(row), reconnects' = reconnects
             PROVE  RowsOK'
  OBVIOUS
<1>1. CASE UNCHANGED rowVars
  BY <1>1 DEF rowVars, RowsOK
<1>2. CASE /\ row \in Rows(profiles)
           /\ profiles' = profiles /\ current' = row
           /\ currentId' = IF row = current THEN currentId ELSE profiles[row + 1]
  BY <1>2, RowIsId DEF RowsOK
<1> QED
  BY <1>1, <1>2 DEF ConnectCall, ConnectRejected, ConnectWhileAlive, ConnectNotLaunched,
                    ConnectLaunched, rowVars

\* A row posted is a row of the list at that time.
LEMMA ReconnectRows ==
    /\ RowsOK
    /\ UNCHANGED rowVars
    /\ MaybeReconnect(pending, profiles) \/ UNCHANGED reconnects
    => RowsOK'
<1> SUFFICES ASSUME RowsOK, UNCHANGED rowVars,
                    MaybeReconnect(pending, profiles) \/ UNCHANGED reconnects
             PROVE  RowsOK'
  OBVIOUS
<1>1. pending \in Rows(profiles) => Append(reconnects, pending) \in Seq(Nat)
  BY AppendProperties DEF RowsOK, Rows
<1>2. reconnects' \in Seq(Nat)
  BY <1>1 DEF MaybeReconnect, RowsOK
<1> QED
  BY <1>2 DEF RowsOK, rowVars

\* removeProfile: the row selected afterwards is a row of what is left.
LEMMA RemovalSelectsRow ==
    \A row \in Rows(profiles) :
        RowsOK => LET left == [i \in 1 .. Len(profiles) - 1 |->
                                  profiles[IF i <= row THEN i ELSE i + 1]]
                  IN  /\ left \in Seq(Ids)
                      /\ RowAfterRemoval(row, left) \in Rows(left) \union {-1}
<1> SUFFICES ASSUME NEW row \in Rows(profiles), RowsOK
             PROVE  LET left == [i \in 1 .. Len(profiles) - 1 |->
                                    profiles[IF i <= row THEN i ELSE i + 1]]
                    IN  /\ left \in Seq(Ids)
                        /\ RowAfterRemoval(row, left) \in Rows(left) \union {-1}
  OBVIOUS
<1> DEFINE left == [i \in 1 .. Len(profiles) - 1 |-> profiles[IF i <= row THEN i ELSE i + 1]]
<1>1. Len(profiles) \in Nat /\ \A i \in 1 .. Len(profiles) : profiles[i] \in Ids
  BY ElementOfSeq DEF RowsOK
<1>2. row \in 0 .. Len(profiles) - 1 /\ Len(profiles) - 1 \in Nat
  BY <1>1 DEF Rows
<1>3. \A i \in 1 .. Len(profiles) - 1 : profiles[IF i <= row THEN i ELSE i + 1] \in Ids
  BY <1>1, <1>2
<1>4. left \in [1 .. Len(profiles) - 1 -> Ids]
  BY <1>3
<1>5. left \in Seq(Ids)
  BY <1>2, <1>4, SeqDef
<1>6. Len(left) = Len(profiles) - 1
  BY <1>2, <1>5, LenProperties
<1>7. left # <<>> => Len(left) > 0
  BY <1>5, EmptySeq, LenProperties
<1>8. current \in -1 .. Len(profiles) - 1
  BY <1>1 DEF RowsOK, Rows
<1> HIDE DEF left
<1>9. RowAfterRemoval(row, left) \in Rows(left) \union {-1}
  BY <1>2, <1>6, <1>7, <1>8 DEF RowAfterRemoval, Rows
<1> QED
  BY <1>5, <1>9 DEF left

\* addProfile keeps or lengthens the list, and indexOfId finds a row or none.
LEMMA ImportSelectsRow ==
    \A id \in Ids, equivalent \in BOOLEAN :
        RowsOK => LET list == Imported(id, equivalent)
                  IN  /\ list \in Seq(Ids)
                      /\ IndexOfId(list, id) \in Rows(list) \union {-1}
                      /\ current \in Rows(list) \union {-1}
<1> SUFFICES ASSUME NEW id \in Ids, NEW equivalent \in BOOLEAN, RowsOK
             PROVE  LET list == Imported(id, equivalent)
                    IN  /\ list \in Seq(Ids)
                        /\ IndexOfId(list, id) \in Rows(list) \union {-1}
                        /\ current \in Rows(list) \union {-1}
  OBVIOUS
<1> DEFINE list == Imported(id, equivalent)
<1>1. /\ Append(profiles, id) \in Seq(Ids)
      /\ Len(Append(profiles, id)) = Len(profiles) + 1
      /\ Len(profiles) \in Nat
  BY AppendProperties, LenProperties DEF RowsOK
<1>2. list \in Seq(Ids)
  BY <1>1 DEF Imported, RowsOK
<1>3. current \in Rows(list) \union {-1}
  BY <1>1 DEF Imported, RowsOK, Rows
<1>4. IndexOfId(list, id) \in Rows(list) \union {-1}
  BY DEF IndexOfId
<1> QED
  BY <1>2, <1>3, <1>4

-----------------------------------------------------------------------------
(* The inductive invariant *)

LEMMA InitIInv == Init => IInv
<1> SUFFICES ASSUME Init PROVE IInv
  OBVIOUS
<1>1. RowsOK
  BY EmptySeq DEF Init, RowsOK
<1>2. 0 \in 0 .. MaxStarts
  BY ConnectionAssumption
<1>3. CoreOK
  <2>1. process \in [state : {"NotRunning", "Starting", "Running"}, run : 0 .. MaxStarts,
                     profile : Ids \union {NoId}, signal : {"none", "term", "kill"}]
    BY <1>2 DEF Init, NoProcess
  <2>2. CoreTypes
    BY <1>2, <2>1 DEF Init, CoreTypes
  <2>3. /\ process.state = "NotRunning" /\ connState = "Disconnected" /\ pending = -1
        /\ stopping = FALSE /\ disconnectRequested = FALSE
        /\ session = NoId /\ record = 0
    BY DEF Init, NoProcess
  <2>4. ~Alive /\ ~Connected /\ ~(pending >= 0)
    BY <2>3
  <2> QED
    BY <2>2, <2>3, <2>4
       DEF CoreOK, ConnectedIsSettled, StopFlagsAgree, PendingOnlyWhileStopping, StopIsBacked,
           SessionTracksProcess, UsageTracksProcess, RecordTracksProcess
<1> QED
  BY <1>1, <1>3 DEF Init, IInv

\* setCurrentProfileIndex with the list its caller has just stored.
LEMMA SelectIInv ==
    \A list \in Seq(Ids), state \in {"Disconnected", "Connecting", "Connected", "Error"} :
    \A row \in Rows(list) \union {-1} :
        /\ RowsOK /\ CoreOK
        /\ state = connState \/ (connState = "Error" /\ state = "Disconnected")
        /\ SelectRow(row, list, state)
        /\ profiles' = list
        => RowsOK' /\ CoreOK'
BY SelectRows, SelectKeeps

\* disconnect().
LEMMA DisconnectIInv ==
    RowsOK /\ CoreOK /\ DisconnectCall /\ UNCHANGED rowVars => RowsOK' /\ CoreOK'
<1> SUFFICES ASSUME RowsOK, CoreOK, DisconnectCall, UNCHANGED rowVars
             PROVE  RowsOK' /\ CoreOK'
  OBVIOUS
<1>1. pending \in Nat \union {-1}
  BY DEF CoreOK, CoreTypes
<1>2. CASE Alive
  <2>1. StopRuntime(pending) /\ UNCHANGED reconnects
    BY <1>2 DEF DisconnectCall
  <2> QED
    BY <1>1, <1>2, <2>1, StopRuntimeKeeps, ReconnectRows
<1>3. CASE ~Alive
  <2>1. SettleDisconnected
    BY <1>3 DEF DisconnectCall
  <2>2. MaybeReconnect(pending, profiles)
    BY <2>1 DEF SettleDisconnected
  <2> QED
    BY <1>3, <2>1, <2>2, SettleKeeps, ReconnectRows
<1> QED
  BY <1>2, <1>3

LEMMA NextIInv == IInv /\ [Next]_vars => IInv'
<1> SUFFICES ASSUME IInv, [Next]_vars PROVE IInv'
  OBVIOUS
<1>1. /\ RowsOK /\ CoreOK /\ profiles \in Seq(Ids)
      /\ current \in Rows(profiles) \union {-1}
      /\ connState \in {"Disconnected", "Connecting", "Connected", "Error"}
  BY DEF IInv, RowsOK, CoreOK, CoreTypes
<1>2. exit' \in {"no", "asked", "quit"}
  <2>1. exit' \in {exit, TrayAfter(exit), TrayAfter("asked"), "quit"}
    BY DEF Next, Step, SelectProfile, ConnectToProfile, ToggleConnection, ExitClicked,
           RemoveProfile, RemoveAllProfiles, ImportProfileLink, ImportBatch, ReconnectFires,
           ProcessStarted, ProcessFailsToStart, ProcessReadError, ProcessStopped,
           ProcessCrashes, ProcessExits, KillTimerFires, HasQuit, vars
  <2> QED
    BY <2>1 DEF TrayAfter, IInv
<1> SUFFICES RowsOK' /\ CoreOK'
  BY <1>2 DEF IInv
<1>3. ASSUME NEW row \in Rows(profiles), SelectProfile(row)
      PROVE  RowsOK' /\ CoreOK'
  BY <1>1, <1>3, SelectIInv DEF SelectProfile
<1>4. ASSUME NEW row \in Rows(profiles), ConnectToProfile(row)
      PROVE  RowsOK' /\ CoreOK'
  <2>1. row \in Nat \union {-1}
    BY DEF Rows
  <2> QED
    BY <1>1, <1>4, <2>1, ConnectKeeps, ConnectRows DEF ConnectToProfile
<1>5. ASSUME NEW row \in Rows(profiles), RemoveProfile(row)
      PROVE  RowsOK' /\ CoreOK'
  BY <1>1, <1>5, RemovalSelectsRow, SelectIInv DEF RemoveProfile
<1>6. ASSUME NEW id \in Fresh, NEW equivalent \in BOOLEAN,
             ImportProfileLink(id, equivalent) \/ ImportBatch(id, equivalent)
      PROVE  RowsOK' /\ CoreOK'
  <2> DEFINE list == Imported(id, equivalent)
  <2>1. /\ list \in Seq(Ids)
        /\ IndexOfId(list, id) \in Rows(list) \union {-1}
        /\ current \in Rows(list) \union {-1}
    BY <1>1, ImportSelectsRow DEF Fresh
  <2>2. /\ StateAfterImport \in {"Disconnected", "Connecting", "Connected", "Error"}
        /\ StateAfterImport = connState
              \/ (connState = "Error" /\ StateAfterImport = "Disconnected")
    BY <1>1 DEF StateAfterImport
  <2>3. PICK row \in Rows(list) \union {-1} :
            profiles' = list /\ SelectRow(row, list, StateAfterImport)
    BY <1>6, <2>1 DEF ImportProfileLink, ImportBatch
  <2> HIDE DEF list
  <2> QED
    BY <1>1, <2>1, <2>2, <2>3, SelectIInv
<1>7. CASE RemoveAllProfiles
  <2>1. <<>> \in Seq(Ids) /\ -1 \in Rows(<<>>) \union {-1}
    BY EmptySeq
  <2> QED
    BY <1>1, <1>7, <2>1, SelectIInv DEF RemoveAllProfiles
<1>8. CASE ToggleConnection
  <2>1. CASE DisconnectCall /\ UNCHANGED rowVars
    BY <1>1, <2>1, DisconnectIInv
  <2>2. CASE ConnectCall(current) /\ UNCHANGED reconnects
    <3>1. current \in Nat \union {-1}
      BY <1>1 DEF Rows
    <3> QED
      BY <1>1, <2>2, <3>1, ConnectKeeps, ConnectRows
  <2> QED
    BY <1>8, <2>1, <2>2 DEF ToggleConnection
<1>9. CASE ExitClicked
  <2>1. CASE DisconnectCall
    BY <1>1, <1>9, <2>1, DisconnectIInv DEF ExitClicked
  <2>2. CASE UNCHANGED <<connState, stopVars, usageVars, procVars, reconnects>>
    BY <1>1, <1>9, <2>2, CoreStutters, ReconnectRows DEF ExitClicked, coreVars
  <2> QED
    BY <1>9, <2>1, <2>2 DEF ExitClicked
<1>10. CASE ReconnectFires
  <2>1. Head(reconnects) \in Nat /\ Tail(reconnects) \in Seq(Nat)
    BY <1>1, <1>10, HeadTailProperties DEF ReconnectFires, RowsOK
  <2>2. ConnectCall(Head(reconnects)) /\ reconnects' = Tail(reconnects)
    BY <1>10 DEF ReconnectFires
  <2>3. CoreOK'
    BY <1>1, <2>1, <2>2, ConnectKeeps
  <2>4. CASE UNCHANGED rowVars
    BY <1>1, <2>1, <2>2, <2>3, <2>4 DEF RowsOK, rowVars
  <2>5. CASE /\ Head(reconnects) \in Rows(profiles)
             /\ profiles' = profiles /\ current' = Head(reconnects)
             /\ currentId' = IF Head(reconnects) = current THEN currentId
                             ELSE profiles[Head(reconnects) + 1]
    BY <1>1, <2>1, <2>2, <2>3, <2>5, RowIsId DEF RowsOK
  <2> QED
    BY <2>2, <2>3, <2>4, <2>5
       DEF ConnectCall, ConnectRejected, ConnectWhileAlive, ConnectNotLaunched,
           ConnectLaunched, rowVars
<1>11. CASE ProcessStarted
  BY <1>1, <1>11, StartedKeeps, ReconnectRows DEF ProcessStarted
<1>12. CASE ProcessFailsToStart
  BY <1>1, <1>12, FailsToStartKeeps, ReconnectRows DEF ProcessFailsToStart
<1>13. CASE ProcessReadError
  BY <1>1, <1>13, ReadErrorKeeps, ReconnectRows DEF ProcessReadError
<1>14. CASE ProcessStopped
  BY <1>1, <1>14, EndedKeeps, ReconnectRows DEF ProcessStopped, ProcessGone
<1>15. CASE ProcessCrashes
  BY <1>1, <1>15, EndedKeeps, ReconnectRows DEF ProcessCrashes, ProcessGone
<1>16. CASE ProcessExits
  BY <1>1, <1>16, EndedKeeps, ReconnectRows DEF ProcessExits, ProcessGone
<1>17. ASSUME NEW run \in killTimers, KillTimerFires(run)
       PROVE  RowsOK' /\ CoreOK'
  BY <1>1, <1>17, KillKeeps, ReconnectRows DEF KillTimerFires
<1>18. CASE UNCHANGED vars
  BY <1>1, <1>18, CoreStutters, ReconnectRows DEF vars, coreVars
<1> QED
  BY <1>3, <1>4, <1>5, <1>6, <1>7, <1>8, <1>9, <1>10, <1>11, <1>12, <1>13, <1>14, <1>15,
     <1>16, <1>17, <1>18 DEF Next, HasQuit

\* IInv holds in every reachable state.
THEOREM Invariance == Spec => []IInv
BY InitIInv, NextIInv, PTL DEF Spec

\* The fields of the controller and of the process manager always have their types;
\* in particular the selected row is a row of the list.
THEOREM TypeCorrect == Spec => []TypeOK
<1>1. IInv => TypeOK
  BY DEF IInv, RowsOK, CoreOK, CoreTypes, TypeOK
<1> QED
  BY <1>1, Invariance, PTL

\* A tunnel shown as connected has a live child that nobody is stopping
\* (onProcessStarted, disconnect, connectToProfile).
THEOREM ConnectedIsSettledAlways == Spec => []ConnectedIsSettled
<1>1. IInv => ConnectedIsSettled
  BY DEF IInv, CoreOK
<1> QED
  BY <1>1, Invariance, PTL

\* m_disconnectRequested and m_stoppingProcess agree between any two callbacks.
THEOREM StopFlagsAgreeAlways == Spec => []StopFlagsAgree
<1>1. IInv => StopFlagsAgree
  BY DEF IInv, CoreOK
<1> QED
  BY <1>1, Invariance, PTL

\* A pending reconnect always has a stop under way that will take it up.
THEOREM PendingOnlyWhileStoppingAlways == Spec => []PendingOnlyWhileStopping
<1>1. IInv => PendingOnlyWhileStopping
  BY DEF IInv, CoreOK
<1> QED
  BY <1>1, Invariance, PTL

\* A child that is being stopped has been killed or has its kill timer armed.
THEOREM StopIsBackedAlways == Spec => []StopIsBacked
<1>1. IInv => StopIsBacked
  BY DEF IInv, CoreOK
<1> QED
  BY <1>1, Invariance, PTL

\* The flags of a stop, the reconnect that follows it and its kill timer hold together.
THEOREM StopProtocolAlways == Spec => []StopProtocol
<1>1. IInv => StopProtocol
  BY DEF IInv, CoreOK, StopProtocol
<1> QED
  BY <1>1, Invariance, PTL

\* The open usage session, the usage id and the record on disk are those of the child
\* that runs (beginProfileUsageSession, endProfileUsageSession,
\* writeManagedRuntimeRecord).
THEOREM BooksAgreeAlways == Spec => []BooksAgree
<1>1. IInv => BooksAgree
  BY DEF IInv, CoreOK, BooksAgree
<1> QED
  BY <1>1, Invariance, PTL

-----------------------------------------------------------------------------
(* What a step may never do *)

LEMMA StepStartsClean ==
    IInv /\ [Next]_vars =>
        (process'.run # process.run =>
            session = NoId /\ record = 0 /\ ~stopping /\ pending = -1)
<1> SUFFICES ASSUME IInv, [Next]_vars, process'.run # process.run
             PROVE  session = NoId /\ record = 0 /\ ~stopping /\ pending = -1
  OBVIOUS
<1>1. CoreOK /\ CoreTypes
  BY DEF IInv, CoreOK
<1> DEFINE Same == {process, Terminated, [Terminated EXCEPT !.state = "Running"],
                    [process EXCEPT !.state = "Running"],
                    [process EXCEPT !.signal = "kill"], NoProcess(process.run)}
<1>2. process' \in Same => process'.run = process.run
  <2>1. /\ Terminated.run = process.run
        /\ [Terminated EXCEPT !.state = "Running"].run = process.run
    BY <1>1 DEF Terminated, CoreTypes
  <2>2. /\ [process EXCEPT !.state = "Running"].run = process.run
        /\ [process EXCEPT !.signal = "kill"].run = process.run
    BY <1>1 DEF CoreTypes
  <2>3. NoProcess(process.run).run = process.run
    BY DEF NoProcess
  <2> QED
    BY <2>1, <2>2, <2>3, Zenon
<1>3. \A row, list, state : SelectRow(row, list, state) => process'.run = process.run
  BY <1>2 DEF SelectRow, StopRuntime, StopProcess, procVars
<1>4. DisconnectCall => process'.run = process.run
  BY <1>2 DEF DisconnectCall, StopRuntime, StopProcess, SettleDisconnected, procVars
<1>5. ASSUME NEW row, ConnectCall(row)
      PROVE  ~Busy /\ ~Alive
  BY <1>2, <1>5 DEF ConnectCall, ConnectRejected, ConnectNotLaunched, ConnectWhileAlive,
                    StopRuntime, StopProcess, procVars
<1>6. ~Busy /\ ~Alive
  BY <1>2, <1>3, <1>4, <1>5
     DEF Next, SelectProfile, ConnectToProfile, ToggleConnection, ExitClicked, RemoveProfile,
         RemoveAllProfiles, ImportProfileLink, ImportBatch, ReconnectFires, ProcessStarted,
         ProcessFailsToStart, ProcessReadError, ProcessStopped, ProcessCrashes, ProcessExits,
         ProcessGone, KillTimerFires, HasQuit, vars, procVars
<1> QED
  BY <1>1, <1>6
     DEF CoreOK, CoreTypes, SessionTracksProcess, RecordTracksProcess, PendingOnlyWhileStopping

\* A child is launched only when nothing is left of the connection before it.
THEOREM CleanStartAlways == Spec => CleanStart
<1>1. IInv /\ [Next]_vars =>
        [process'.run # process.run =>
            session = NoId /\ record = 0 /\ ~stopping /\ pending = -1]_vars
  BY StepStartsClean
<1> QED
  BY <1>1, Invariance, PTL DEF Spec, CleanStart

LEMMA StepReconnects ==
    IInv /\ [Next]_vars =>
        (Len(reconnects') > Len(reconnects) =>
            stopping /\ ~Alive' /\ connState' = "Disconnected")
<1> SUFFICES ASSUME IInv, [Next]_vars, Len(reconnects') > Len(reconnects)
             PROVE  stopping /\ ~Alive' /\ connState' = "Disconnected"
  OBVIOUS
<1>1. /\ CoreOK /\ reconnects \in Seq(Nat) /\ Len(reconnects) \in Nat
      /\ reconnects' # reconnects
  BY LenProperties DEF IInv, RowsOK
<1>2. reconnects # <<>> => reconnects' # Tail(reconnects)
  BY <1>1, HeadTailProperties
<1>3. CASE SettleDisconnected /\ ~Alive
  <2>1. pending \in Rows(profiles) /\ connState' = "Disconnected" /\ process' = process
    BY <1>1, <1>3 DEF SettleDisconnected, MaybeReconnect, procVars
  <2>2. pending >= 0
    BY <2>1, LenProperties DEF Rows, IInv, RowsOK
  <2> QED
    BY <1>1, <1>3, <2>1, <2>2 DEF CoreOK, PendingOnlyWhileStopping
<1>4. CASE ProcessStopped
  BY <1>4 DEF ProcessStopped, ProcessGone, NoProcess
<1> QED
  BY <1>1, <1>2, <1>3, <1>4
     DEF Next, SelectProfile, SelectRow, ConnectToProfile, ToggleConnection, ExitClicked,
         DisconnectCall, RemoveProfile, RemoveAllProfiles, ImportProfileLink, ImportBatch,
         ReconnectFires, ProcessStarted, ProcessFailsToStart, ProcessReadError,
         ProcessCrashes, ProcessExits, KillTimerFires, HasQuit, vars

\* A reconnect is posted only when a requested stop ends with the child gone.
THEOREM ReconnectOnlyAfterStopAlways == Spec => ReconnectOnlyAfterStop
<1>1. IInv /\ [Next]_vars =>
        [Len(reconnects') > Len(reconnects) =>
            stopping /\ ~Alive' /\ connState' = "Disconnected"]_vars
  BY StepReconnects
<1> QED
  BY <1>1, Invariance, PTL DEF Spec, ReconnectOnlyAfterStop

-----------------------------------------------------------------------------
(* Proxy mode implements the abstract life cycle (TunnelLifecycle).  Every   *)
(* step is a step of that specification or leaves its five variables alone:  *)
(* one lemma per operator that the handlers share says which abstract        *)
(* actions it maps to, and the invariant rules the other ones out.           *)

USE DEF Alive, Busy, Connected

\* What the lemmas take from the invariant.
Before ==
    /\ CoreOK
    /\ reconnects \in Seq(Nat)

\* How the posted reconnects change when a command is served.
CommandServed ==
    \/ reconnects' = reconnects
    \/ reconnects # <<>> /\ reconnects' = Tail(reconnects)

\* A step that the abstract life cycle does not see.
Unseen ==
    /\ connState' = connState
    /\ process'.state = process.state
    /\ stopping' = stopping
    /\ pending' = pending
    /\ reconnects' = reconnects

LEMMA UnseenStutters == Unseen => UNCHANGED Lifecycle!vars
BY DEF Unseen, Lifecycle!vars

LEMMA ServedMaps == Before /\ CommandServed => Lifecycle!Served
<1> SUFFICES ASSUME Before, CommandServed PROVE Lifecycle!Served
  OBVIOUS
<1>1. CASE reconnects' = reconnects
  BY <1>1 DEF Lifecycle!Served
<1>2. CASE reconnects # <<>> /\ reconnects' = Tail(reconnects)
  <2>1. Len(reconnects) \in Nat /\ Len(reconnects) # 0
    BY <1>2, EmptySeq, LenProperties DEF Before
  <2>2. Len(reconnects') = Len(reconnects) - 1
    BY <1>2, HeadTailProperties DEF Before
  <2> QED
    BY <2>1, <2>2 DEF Lifecycle!Served
<1> QED
  BY <1>1, <1>2 DEF CommandServed

\* disconnect() of a child that is alive is the abstract Stop.
LEMMA StopRuntimeMaps ==
    \A row \in Nat \union {-1} :
        /\ Before /\ Alive /\ CommandServed
        /\ row = pending \/ row >= 0
        /\ StopRuntime(row)
        => Lifecycle!Stop
<1> SUFFICES ASSUME NEW row \in Nat \union {-1}, Before, Alive, CommandServed,
                    row = pending \/ row >= 0, StopRuntime(row)
             PROVE  Lifecycle!Stop
  OBVIOUS
<1>1. pending' = row /\ stopping' = TRUE /\ connState' = "Connecting"
  BY DEF StopRuntime
<1>2. process'.state = process.state
  BY DEF StopRuntime, StopProcess, Terminated, Before, CoreOK, CoreTypes
<1>3. (pending' >= 0) = (pending >= 0) \/ (pending' >= 0) = TRUE
  BY <1>1
<1> QED
  BY <1>1, <1>2, <1>3, ServedMaps DEF Lifecycle!Stop

\* What maybeReconnectToPendingProfile posts is what the abstract Down owes.
LEMMA ReconnectOwed ==
    Before /\ MaybeReconnect(pending, profiles)
        => Len(reconnects') \in {Len(reconnects),
                                 IF pending >= 0 THEN Len(reconnects) + 1 ELSE Len(reconnects)}
<1> SUFFICES ASSUME Before, MaybeReconnect(pending, profiles)
             PROVE  Len(reconnects') \in {Len(reconnects),
                        IF pending >= 0 THEN Len(reconnects) + 1 ELSE Len(reconnects)}
  OBVIOUS
<1>1. CASE pending \notin Rows(profiles)
  BY <1>1 DEF MaybeReconnect
<1>2. CASE pending \in Rows(profiles)
  <2>1. pending \in Nat
    BY <1>2 DEF Rows, Before, CoreOK, CoreTypes
  <2>2. Len(reconnects') = Len(reconnects) + 1
    BY <1>2, <2>1, AppendProperties DEF MaybeReconnect, Before
  <2> QED
    BY <2>1, <2>2
<1> QED
  BY <1>1, <1>2

LEMMA DisconnectMaps == Before /\ DisconnectCall => Lifecycle!Next
<1> SUFFICES ASSUME Before, DisconnectCall PROVE Lifecycle!Next
  OBVIOUS
<1>1. CASE Alive
  <2>1. pending \in Nat \union {-1}
    BY DEF Before, CoreOK, CoreTypes
  <2>2. StopRuntime(pending) /\ CommandServed
    BY <1>1 DEF DisconnectCall, CommandServed
  <2> QED
    BY <1>1, <2>1, <2>2, StopRuntimeMaps DEF Lifecycle!Next
<1>2. CASE ~Alive
  <2>1. /\ connState' = "Disconnected" /\ process' = process /\ stopping' = FALSE
        /\ pending' = -1 /\ MaybeReconnect(pending, profiles)
    BY <1>2 DEF DisconnectCall, SettleDisconnected, StopSettled, MaybeReconnect, procVars
  <2>2. Lifecycle!Down
    BY <1>2, <2>1, ReconnectOwed DEF Lifecycle!Down
  <2> QED
    BY <2>2 DEF Lifecycle!Next
<1> QED
  BY <1>1, <1>2

\* setCurrentProfileIndex: a restart, a selection that goes while the tunnel goes down,
\* an error that an import takes back, or nothing that shows.
LEMMA SelectMaps ==
    \A list, row, state :
        /\ Before
        /\ row \in Rows(list) \union {-1}
        /\ state = connState \/ (connState = "Error" /\ state = "Disconnected")
        /\ SelectRow(row, list, state)
        => Lifecycle!Next \/ UNCHANGED Lifecycle!vars
<1> SUFFICES ASSUME NEW list, NEW row, NEW state, Before,
                    row \in Rows(list) \union {-1},
                    state = connState \/ (connState = "Error" /\ state = "Disconnected"),
                    SelectRow(row, list, state)
             PROVE  Lifecycle!Next \/ UNCHANGED Lifecycle!vars
  OBVIOUS
<1>1. reconnects' = reconnects /\ CommandServed
  BY DEF SelectRow, CommandServed
<1>2. CASE Alive /\ row >= 0 /\ StopRuntime(row)
  <2>1. row \in Nat \union {-1}
    BY DEF Rows
  <2> QED
    BY <1>1, <1>2, <2>1, StopRuntimeMaps DEF Lifecycle!Next
<1>3. CASE /\ pending' \in {pending, -1} /\ connState' = state
           /\ stopping' = stopping /\ process' = process
  <2>1. CASE connState' = connState /\ pending' = pending
    BY <1>1, <1>3, <2>1, UnseenStutters DEF Unseen
  <2>2. CASE connState' = connState /\ pending' = -1
    BY <1>1, <1>3, <2>2 DEF Lifecycle!Next, Lifecycle!Forget
  <2>3. CASE connState = "Error" /\ connState' = "Disconnected"
    <3>1. ~(pending >= 0)
      BY <2>3 DEF Before, CoreOK, PendingOnlyWhileStopping
    <3>2. (pending' >= 0) = (pending >= 0)
      BY <1>3, <3>1
    <3> QED
      BY <1>1, <1>3, <2>3, <3>2 DEF Lifecycle!Next, Lifecycle!Acknowledge
  <2> QED
    BY <1>3, <2>1, <2>2, <2>3
<1> QED
  BY <1>2, <1>3 DEF SelectRow, procVars

\* connectToProfile: one abstract action for each of its outcomes.
LEMMA ConnectMaps ==
    \A row : Before /\ ConnectCall(row) /\ CommandServed => Lifecycle!Next
<1> SUFFICES ASSUME NEW row, Before, ConnectCall(row), CommandServed PROVE Lifecycle!Next
  OBVIOUS
<1>1. Lifecycle!Served
  BY ServedMaps
<1>2. CASE Busy /\ UNCHANGED <<connState, stopVars, procVars>>
  <2>1. Lifecycle!Ignore
    BY <1>1, <1>2 DEF Lifecycle!Ignore, Lifecycle!Busy, stopVars, procVars
  <2> QED
    BY <2>1 DEF Lifecycle!Next
<1>3. CASE ~Busy /\ (ConnectRejected \/ ConnectNotLaunched(row))
  <2>1. Lifecycle!Refuse
    BY <1>1, <1>3
       DEF Lifecycle!Refuse, Lifecycle!Busy, ConnectRejected, ConnectNotLaunched, stopVars,
           procVars
  <2> QED
    BY <2>1 DEF Lifecycle!Next
<1>4. CASE ~Busy /\ ~Alive /\ ConnectLaunched(row)
  <2>1. Lifecycle!Start
    BY <1>1, <1>4 DEF Lifecycle!Start, Lifecycle!Busy, ConnectLaunched
  <2> QED
    BY <2>1 DEF Lifecycle!Next
<1>5. CASE ~Busy /\ row \in Rows(profiles) /\ Alive /\ ConnectWhileAlive(row)
  <2>1. CASE StopRuntime(row)
    BY <1>5, <2>1, StopRuntimeMaps DEF Lifecycle!Next, Rows
  <2>2. CASE ~StopRuntime(row)
    <3>1. Lifecycle!Resume
      BY <1>1, <1>5, <2>2
         DEF Lifecycle!Resume, Lifecycle!Busy, ConnectWhileAlive, procVars
    <3> QED
      BY <3>1 DEF Lifecycle!Next
  <2> QED
    BY <2>1, <2>2
<1> QED
  BY <1>2, <1>3, <1>4, <1>5 DEF ConnectCall

\* A tunnel nobody stops has no reconnect to follow.
LEMMA NothingPending == Before /\ ~stopping => ~(pending >= 0)
BY DEF Before, CoreOK, PendingOnlyWhileStopping

\* The signals of QProcess.
LEMMA StartedMaps == Before /\ ProcessStarted => Lifecycle!Next \/ UNCHANGED Lifecycle!vars
<1> SUFFICES ASSUME Before, ProcessStarted
             PROVE  Lifecycle!Next \/ UNCHANGED Lifecycle!vars
  OBVIOUS
<1>1. /\ process.state = "Starting" /\ Busy /\ stopping = disconnectRequested
      /\ stopping \in BOOLEAN
      /\ pending' = pending /\ reconnects' = reconnects
  BY DEF ProcessStarted, Before, CoreOK, CoreTypes, StopFlagsAgree
<1>2. process'.state = "Running"
  BY DEF ProcessStarted, Terminated, Before, CoreOK, CoreTypes
<1>3. CASE disconnectRequested
  \* the start was cancelled: the stop goes on
  <2>1. connState' = connState /\ stopping' = stopping
    BY <1>1, <1>3 DEF ProcessStarted, StartCancelled
  <2>2. UNCHANGED <<connState, Alive, stopping, (pending >= 0), Len(reconnects)>>
    BY <1>1, <1>2, <2>1
  <2> QED
    BY <2>2 DEF Lifecycle!vars
<1>4. CASE ~disconnectRequested
  <2>1. connState' = "Connected" /\ stopping' = stopping
    BY <1>1, <1>4 DEF ProcessStarted, StartCancelled
  <2>2. Lifecycle!ComesUp
    BY <1>1, <1>2, <1>4, <2>1 DEF Lifecycle!ComesUp, Lifecycle!Busy
  <2> QED
    BY <2>2 DEF Lifecycle!Next
<1> QED
  BY <1>3, <1>4

LEMMA FailsToStartMaps == Before /\ ProcessFailsToStart => Lifecycle!Next
<1> SUFFICES ASSUME Before, ProcessFailsToStart PROVE Lifecycle!Next
  OBVIOUS
<1>1. /\ ~Alive' /\ stopping' = stopping /\ pending' = pending
      /\ reconnects' = reconnects
  BY DEF ProcessFailsToStart, NoProcess, stopVars
<1>2. CASE stopping
  <2>1. Lifecycle!Vanishes
    BY <1>1, <1>2 DEF ProcessFailsToStart, Lifecycle!Vanishes
  <2> QED
    BY <2>1 DEF Lifecycle!Next
<1>3. CASE ~stopping
  <2>1. Lifecycle!Lost
    BY <1>1, <1>3, NothingPending DEF ProcessFailsToStart, ErrorReported, Lifecycle!Lost
  <2> QED
    BY <2>1 DEF Lifecycle!Next
<1> QED
  BY <1>2, <1>3

LEMMA ReadErrorMaps == Before /\ ProcessReadError => Lifecycle!Next
<1> SUFFICES ASSUME Before, ProcessReadError PROVE Lifecycle!Fault
  BY DEF Lifecycle!Next
<1> QED
  BY DEF ProcessReadError, ErrorReported, Lifecycle!Fault, stopVars, procVars

LEMMA StoppedMaps == Before /\ ProcessStopped => Lifecycle!Next
<1> SUFFICES ASSUME Before, ProcessStopped PROVE Lifecycle!Down
  BY DEF Lifecycle!Next
<1>1. /\ ~Alive' /\ ~stopping' /\ ~(pending' >= 0) /\ connState' = "Disconnected"
      /\ stopping /\ MaybeReconnect(pending, profiles)
  BY DEF ProcessStopped, ProcessGone, NoProcess, StopSettled, MaybeReconnect
<1> QED
  BY <1>1, ReconnectOwed DEF Lifecycle!Down

\* A crash, or an exit that nobody asked for.
LEMMA LostMaps == Before /\ (ProcessCrashes \/ ProcessExits) => Lifecycle!Next
<1> SUFFICES ASSUME Before, ProcessCrashes \/ ProcessExits PROVE Lifecycle!Lost
  BY DEF Lifecycle!Next
<1>1. /\ ~stopping /\ stopping' = stopping /\ ~Alive' /\ reconnects' = reconnects
      /\ connState' \in {"Error", "Disconnected"}
      /\ pending' \in {pending, -1}
  BY DEF ProcessCrashes, ProcessExits, ProcessGone, NoProcess, stopVars
<1> QED
  BY <1>1, NothingPending DEF Lifecycle!Lost

\* The late kill timer is not seen, whichever child it hits.
LEMMA KillMaps ==
    \A run : Before /\ KillTimerFires(run) => UNCHANGED Lifecycle!vars
<1> SUFFICES ASSUME NEW run, Before, KillTimerFires(run) PROVE Unseen
  BY UnseenStutters
<1>1. process'.state = process.state
  BY DEF KillTimerFires, Before, CoreOK, CoreTypes
<1> QED
  BY <1>1 DEF KillTimerFires, Unseen, stopVars

LEMMA InitMaps == Init => Lifecycle!Init
BY EmptySeq DEF Init, NoProcess, Lifecycle!Init

LEMMA StepMaps == IInv /\ [Next]_vars => [Lifecycle!Next]_(Lifecycle!vars)
<1> SUFFICES ASSUME IInv, [Next]_vars
             PROVE  Lifecycle!Next \/ UNCHANGED Lifecycle!vars
  OBVIOUS
<1>1. Before /\ RowsOK
  BY DEF IInv, RowsOK, Before
<1>2. ASSUME NEW row \in Rows(profiles), SelectProfile(row)
      PROVE  Lifecycle!Next \/ UNCHANGED Lifecycle!vars
  BY <1>1, <1>2, SelectMaps DEF SelectProfile
<1>3. ASSUME NEW row \in Rows(profiles), ConnectToProfile(row)
      PROVE  Lifecycle!Next
  BY <1>1, <1>3, ConnectMaps DEF ConnectToProfile, CommandServed
<1>4. ASSUME NEW row \in Rows(profiles), RemoveProfile(row)
      PROVE  Lifecycle!Next \/ UNCHANGED Lifecycle!vars
  BY <1>1, <1>4, RemovalSelectsRow, SelectMaps DEF RemoveProfile
<1>5. ASSUME NEW id \in Fresh, NEW equivalent \in BOOLEAN,
             ImportProfileLink(id, equivalent) \/ ImportBatch(id, equivalent)
      PROVE  Lifecycle!Next \/ UNCHANGED Lifecycle!vars
  <2> DEFINE list == Imported(id, equivalent)
  <2>1. /\ IndexOfId(list, id) \in Rows(list) \union {-1}
        /\ current \in Rows(list) \union {-1}
    BY <1>1, ImportSelectsRow DEF Fresh
  <2>2. StateAfterImport = connState
            \/ (connState = "Error" /\ StateAfterImport = "Disconnected")
    BY DEF StateAfterImport
  <2>3. PICK row \in Rows(list) \union {-1} : SelectRow(row, list, StateAfterImport)
    BY <1>5, <2>1 DEF ImportProfileLink, ImportBatch
  <2> HIDE DEF list
  <2> QED
    BY <1>1, <2>2, <2>3, SelectMaps
<1>6. CASE RemoveAllProfiles
  BY <1>1, <1>6, SelectMaps DEF RemoveAllProfiles
<1>7. CASE ToggleConnection
  BY <1>1, <1>7, DisconnectMaps, ConnectMaps DEF ToggleConnection, CommandServed
<1>8. CASE ExitClicked
  <2>1. CASE UNCHANGED <<connState, stopVars, usageVars, procVars, reconnects>>
    BY <2>1, UnseenStutters DEF Unseen, stopVars, procVars
  <2> QED
    BY <1>1, <1>8, <2>1, DisconnectMaps DEF ExitClicked
<1>9. CASE ReconnectFires
  BY <1>1, <1>9, ConnectMaps DEF ReconnectFires, CommandServed
<1>10. CASE UNCHANGED vars
  BY <1>10, UnseenStutters DEF vars, Unseen, stopVars, procVars
<1> QED
  BY <1>1, <1>2, <1>3, <1>4, <1>5, <1>6, <1>7, <1>8, <1>9, <1>10, StartedMaps,
     FailsToStartMaps, ReadErrorMaps, StoppedMaps, LostMaps, KillMaps
     DEF Next, HasQuit

\* Whatever the order of clicks, imports, removals, timers and QProcess signals, the
\* connection goes through the states of the abstract life cycle: a start that was cut
\* short never shows Connected, nothing starts over a runtime, and one stop brings one
\* reconnect at most (disconnect, connectToProfile, onProcessStarted, onProcessStopped).
THEOREM LifecycleImplemented == Spec => ImplementsLifecycle
BY InitMaps, StepMaps, Invariance, PTL DEF Spec, ImplementsLifecycle, Lifecycle!Spec
=============================================================================
