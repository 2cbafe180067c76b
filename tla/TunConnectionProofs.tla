------------------------- MODULE TunConnectionProofs -------------------------
(***************************************************************************)
(* Proofs about TunConnection, for any number of workers, attempts and     *)
(* helpers, overlapping operations, requests that time out and runtimes    *)
(* that exit.                                                              *)
(*                                                                         *)
(* The controller's promises rest on the numbers of the attempts alone: no *)
(* two starts have the same, only the last one's is current, and as long   *)
(* as it has not been answered nothing is managed.  What the workers and   *)
(* the helpers do in between is irrelevant to them (ProgressKeeps).        *)
(*                                                                         *)
(* The serial part is about a user who waits for each operation: then one  *)
(* worker is at work at most (TurnsOK), which is enough for the abstract   *)
(* life cycle; without time-outs the phase of that worker says where the   *)
(* runtime is that no helper has tried to stop, which helper tracks it and *)
(* that the pid file names it (RuntimeOK).                                 *)
(***************************************************************************)
EXTENDS TunConnection, FiniteSetTheorems, TLAPS

States == {"Disconnected", "Connecting", "Connected", "Error"}

WorkerType ==
    [kind : {"start", "stop"}, attempt : 0 .. MaxAttempts, phase : Phases, ok : BOOLEAN]

RequestType(n) ==
    [worker : 1 .. n, helper : 0 .. MaxHelpers, action : {"start_tun", "stop_tun"},
     running : BOOLEAN]

-----------------------------------------------------------------------------
(* The invariant *)

GuiOK ==
    /\ connState \in States
    /\ attempt \in 0 .. MaxAttempts
    /\ disconnectRequested \in BOOLEAN /\ managed \in BOOLEAN /\ pending \in BOOLEAN
    /\ wished \in BOOLEAN
    /\ reconnects \in Nat
    /\ record \in 0 .. launched

\* What is posted is posted once.
PoolOK ==
    /\ workers \in Seq(WorkerType)
    /\ posted \in Seq(WorkerIds)
    /\ \A i \in 1 .. Len(posted) : workers[posted[i]].phase = "posted"
    /\ \A i, j \in 1 .. Len(posted) : posted[i] = posted[j] => i = j

HelpersOK ==
    /\ launched \in Nat
    /\ runtimePid \in 0 .. launched /\ pidFile \in 0 .. launched
    /\ helperReady \in BOOLEAN /\ helper \in 0 .. MaxHelpers
    /\ inbox \subseteq RequestType(Len(workers))
    /\ tracking \in [1 .. MaxHelpers -> BOOLEAN]
    /\ up \subseteq 1 .. MaxHelpers
    /\ alive \subseteq 1 .. launched /\ spared \subseteq alive

IsStart(w) == workers[w].kind = "start"
Open(w) == workers[w].phase # "done"

\* The starts are numbered by their attempts, the current one was wished, and while it is
\* open nothing is managed.
AttemptsOK ==
    /\ \A w \in WorkerIds : IsStart(w) =>
          /\ workers[w].attempt <= attempt
          /\ ~Stale(w) => wished
          /\ ~Stale(w) /\ Open(w) => ~managed
    /\ \A v, w \in WorkerIds :
          IsStart(v) /\ IsStart(w) /\ workers[v].attempt = workers[w].attempt => v = w

Promises == ConnectedIsWished /\ BusyIsBacked /\ NothingLeftBehind

IInv == GuiOK /\ PoolOK /\ HelpersOK /\ AttemptsOK /\ Promises

USE TunConnectionAssumption

-----------------------------------------------------------------------------
(* Workers and helpers: nothing the promises are about changes *)

\* The same workers are open.
SameWorkers ==
    /\ Len(workers') = Len(workers)
    /\ \A w \in WorkerIds :
          /\ workers'[w].kind = workers[w].kind
          /\ workers'[w].attempt = workers[w].attempt
          /\ workers'[w].phase = "done" <=> workers[w].phase = "done"

LEMMA ProgressKeeps ==
    ASSUME GuiOK, AttemptsOK, Promises, UNCHANGED guiVars, SameWorkers,
           launched \in Nat, launched' \in Nat, launched <= launched'
    PROVE  GuiOK' /\ AttemptsOK' /\ Promises'
<1>1. GuiOK'
  BY DEF GuiOK, guiVars
<1>2. WorkerIds' = WorkerIds
  BY DEF SameWorkers, WorkerIds
<1>3. AttemptsOK'
  BY <1>2 DEF AttemptsOK, SameWorkers, guiVars, IsStart, Stale, Open
<1>4. ConnectedIsWished' /\ RecordOnlyWhileManaged'
  BY DEF Promises, ConnectedIsWished, NothingLeftBehind, RecordOnlyWhileManaged, Connected,
         guiVars
<1>5. BusyIsBacked'
  BY <1>2 DEF Promises, BusyIsBacked, Busy, SameWorkers, Stale, guiVars
<1>6. PendingOnlyWhileStopping'
  BY <1>2 DEF Promises, NothingLeftBehind, PendingOnlyWhileStopping, SameWorkers, guiVars
<1> QED
  BY <1>1, <1>3, <1>4, <1>5, <1>6 DEF Promises, NothingLeftBehind

\* A worker that is neither posted nor done moves to another such phase, or is posted.
LEMMA MoveWorker ==
    ASSUME PoolOK, NEW w \in WorkerIds, workers[w].phase \notin {"posted", "done"},
           NEW phase \in Phases \ {"posted", "done"}, NEW ok \in BOOLEAN, UNCHANGED posted,
           \/ workers' = [workers EXCEPT ![w].phase = phase]
           \/ workers' = [workers EXCEPT ![w].phase = phase, ![w].ok = ok]
    PROVE  PoolOK' /\ SameWorkers
<1> DEFINE new == IF workers' = [workers EXCEPT ![w].phase = phase]
                  THEN [workers[w] EXCEPT !.phase = phase]
                  ELSE [workers[w] EXCEPT !.phase = phase, !.ok = ok]
<1>1. workers \in Seq(WorkerType) /\ w \in 1 .. Len(workers) /\ workers[w] \in WorkerType
  BY DEF PoolOK, WorkerIds
<1>2. /\ new \in WorkerType
      /\ new.kind = workers[w].kind /\ new.attempt = workers[w].attempt /\ new.phase = phase
  BY <1>1 DEF WorkerType
<1>3. workers' = [workers EXCEPT ![w] = new]
  BY <1>1
<1> HIDE DEF new
<1>4. /\ workers' \in Seq(WorkerType) /\ Len(workers') = Len(workers)
      /\ workers'[w] = new
      /\ \A v \in 1 .. Len(workers) : v # w => workers'[v] = workers[v]
  BY <1>1, <1>2, <1>3
<1>5. SameWorkers
  BY <1>2, <1>4 DEF SameWorkers, WorkerIds
<1>6. WorkerIds' = WorkerIds /\ posted' = posted
  BY <1>4 DEF WorkerIds
<1>7. \A i \in 1 .. Len(posted) : posted[i] \in 1 .. Len(workers) /\ posted[i] # w
  BY DEF PoolOK, WorkerIds
<1>8. \A i \in 1 .. Len(posted) : workers'[posted[i]].phase = "posted"
  BY <1>4, <1>7 DEF PoolOK
<1>9. PoolOK'
  BY <1>4, <1>6, <1>8 DEF PoolOK
<1> QED
  BY <1>5, <1>9

LEMMA PostWorker ==
    ASSUME PoolOK, NEW w \in WorkerIds, workers[w].phase \notin {"posted", "done"},
           NEW ok \in BOOLEAN, Posted(w, ok)
    PROVE  PoolOK' /\ SameWorkers
<1> DEFINE new == [workers[w] EXCEPT !.phase = "posted", !.ok = ok]
<1>1. workers \in Seq(WorkerType) /\ w \in 1 .. Len(workers) /\ workers[w] \in WorkerType
  BY DEF PoolOK, WorkerIds
<1>2. /\ new \in WorkerType
      /\ new.kind = workers[w].kind /\ new.attempt = workers[w].attempt
      /\ new.phase = "posted"
  BY <1>1 DEF WorkerType, Phases
<1>3. workers' = [workers EXCEPT ![w] = new] /\ posted' = Append(posted, w)
  BY <1>1 DEF Posted
<1> HIDE DEF new
<1>4. /\ workers' \in Seq(WorkerType) /\ Len(workers') = Len(workers)
      /\ workers'[w] = new
      /\ \A v \in 1 .. Len(workers) : v # w => workers'[v] = workers[v]
  BY <1>1, <1>2, <1>3
<1>5. SameWorkers
  BY <1>2, <1>4 DEF SameWorkers, WorkerIds
<1>6. /\ posted \in Seq(WorkerIds) /\ posted' \in Seq(WorkerIds)
      /\ Len(posted') = Len(posted) + 1 /\ posted'[Len(posted) + 1] = w
      /\ \A i \in 1 .. Len(posted) : posted'[i] = posted[i] /\ posted[i] \in WorkerIds
  BY <1>3 DEF PoolOK
<1>7. \A i \in 1 .. Len(posted) : posted[i] \in 1 .. Len(workers) /\ posted[i] # w
  BY DEF PoolOK, WorkerIds
<1>8. \A i \in 1 .. Len(posted') : workers'[posted'[i]].phase = "posted"
  <2> SUFFICES ASSUME NEW i \in 1 .. Len(posted')
               PROVE  workers'[posted'[i]].phase = "posted"
    OBVIOUS
  <2>1. CASE i \in 1 .. Len(posted)
    BY <1>4, <1>6, <1>7, <2>1 DEF PoolOK
  <2>2. CASE i = Len(posted) + 1
    BY <1>2, <1>4, <1>6, <2>2
  <2> QED
    BY <1>6, <2>1, <2>2
<1>9. \A i, j \in 1 .. Len(posted') : posted'[i] = posted'[j] => i = j
  BY <1>6, <1>7 DEF PoolOK
<1>10. WorkerIds' = WorkerIds
  BY <1>4 DEF WorkerIds
<1>11. PoolOK'
  BY <1>4, <1>6, <1>8, <1>9, <1>10 DEF PoolOK
<1> QED
  BY <1>5, <1>11

\* What a step of a worker or a helper shows.
Progress == PoolOK' /\ HelpersOK' /\ SameWorkers /\ UNCHANGED guiVars /\ launched <= launched'

LEMMA AskedKeeps ==
    ASSUME PoolOK, HelpersOK, NEW w \in WorkerIds, workers[w].phase \notin {"posted", "done"},
           NEW action \in {"start_tun", "stop_tun"}, NEW h \in 0 .. MaxHelpers,
           NEW phase \in Awaiting, Asked(w, action, h, phase), UNCHANGED posted
    PROVE  PoolOK' /\ SameWorkers /\ inbox' \subseteq RequestType(Len(workers'))
<1>1. PoolOK' /\ SameWorkers
  BY MoveWorker DEF Asked, Moved, Awaiting, Phases
<1>2. Len(workers') = Len(workers)
  BY <1>1 DEF SameWorkers
<1>3. [worker |-> w, helper |-> h, action |-> action, running |-> FALSE]
          \in RequestType(Len(workers))
  BY DEF RequestType, WorkerIds
<1> QED
  BY <1>1, <1>2, <1>3 DEF Asked, HelpersOK

LEMMA AsksToStopKeeps ==
    ASSUME PoolOK, HelpersOK, NEW w \in WorkerIds, workers[w].phase \notin {"posted", "done"},
           NEW phase \in {"stopping", "cancelling"}, AsksToStop(w, phase), UNCHANGED posted
    PROVE  /\ PoolOK' /\ SameWorkers /\ inbox' \subseteq RequestType(Len(workers'))
           /\ runtimePid' \in 0 .. launched
<1>1. CASE helperReady
  <2>1. Asked(w, "stop_tun", helper, phase) /\ runtimePid' = runtimePid
    BY <1>1 DEF AsksToStop
  <2> QED
    BY <2>1, AskedKeeps DEF HelpersOK, Awaiting
<1>2. CASE ~helperReady
  <2>1. PICK yes \in BOOLEAN : yes = TRUE
    OBVIOUS
  <2>2. /\ workers' = [workers EXCEPT ![w].phase = AfterAnswer(phase), ![w].ok = yes]
        /\ runtimePid' = 0 /\ inbox' = inbox
    BY <1>2, <2>1 DEF AsksToStop
  <2>3. AfterAnswer(phase) \in Phases \ {"posted", "done"}
    BY DEF AfterAnswer, Phases
  <2>4. PoolOK' /\ SameWorkers
    BY <2>2, <2>3, MoveWorker
  <2>5. Len(workers') = Len(workers)
    BY <2>4 DEF SameWorkers
  <2>6. inbox' \subseteq RequestType(Len(workers'))
    BY <2>2, <2>5 DEF HelpersOK
  <2>7. runtimePid' \in 0 .. launched
    BY <2>2 DEF HelpersOK
  <2> QED
    BY <2>4, <2>6, <2>7
<1> QED
  BY <1>1, <1>2

LEMMA AnswersAreBoolean ==
    ASSUME PoolOK, NEW w \in WorkerIds
    PROVE  workers[w].ok \in BOOLEAN
<1>1. workers[w] \in WorkerType
  BY DEF PoolOK, WorkerIds
<1>2. workers[w].ok = TRUE \/ workers[w].ok = FALSE
  BY <1>1 DEF WorkerType
<1> QED
  BY <1>2, Zenon

LEMMA WorkerStepKeeps ==
    ASSUME PoolOK, HelpersOK, NEW w \in WorkerIds, WorkerStep(w)
    PROVE  Progress
<1> USE DEF guiVars, helperVars
<1>1. launched \in Nat /\ launched <= launched
  BY DEF HelpersOK
<1>2. CASE StartBegins(w)
  <2>1. PoolOK' /\ SameWorkers
    BY <1>2, MoveWorker DEF StartBegins, InPhase, Moved, Phases
  <2> QED
    BY <1>1, <1>2, <2>1 DEF StartBegins, HelpersOK, SameWorkers, Progress
<1>3. CASE HelperFound(w)
  <2>1. PoolOK' /\ SameWorkers /\ inbox' \subseteq RequestType(Len(workers'))
    BY <1>3, AskedKeeps DEF HelperFound, InPhase, HelpersOK, Awaiting
  <2> QED
    BY <1>1, <1>3, <2>1 DEF HelperFound, HelpersOK, Progress
<1>4. CASE PingFails(w)
  <2>1. PoolOK' /\ SameWorkers
    BY <1>4, MoveWorker DEF PingFails, InPhase, Moved, Phases
  <2> QED
    BY <1>1, <1>4, <2>1 DEF PingFails, HelpersOK, SameWorkers, Progress
<1>5. ASSUME NEW h \in 1 .. MaxHelpers, HelperLaunched(w, h) PROVE Progress
  <2>1. PoolOK' /\ SameWorkers /\ inbox' \subseteq RequestType(Len(workers'))
    BY <1>5, AskedKeeps DEF HelperLaunched, InPhase, HelpersOK, Awaiting
  <2> QED
    BY <1>1, <1>5, <2>1 DEF HelperLaunched, HelpersOK, Progress
<1>6. CASE HelperRefused(w)
  <2>1. PoolOK' /\ SameWorkers
    BY <1>6, PostWorker DEF HelperRefused, InPhase
  <2> QED
    BY <1>1, <1>6, <2>1 DEF HelperRefused, HelpersOK, SameWorkers, Progress
<1>7. CASE PidRead(w)
  <2>1. PoolOK' /\ SameWorkers
    BY <1>7, PostWorker, MoveWorker DEF PidRead, InPhase, Moved, Phases
  <2> QED
    BY <1>1, <1>7, <2>1 DEF PidRead, HelpersOK, SameWorkers, Progress
<1>8. CASE ProbeFails(w)
  <2>1. /\ PoolOK' /\ SameWorkers /\ inbox' \subseteq RequestType(Len(workers'))
        /\ runtimePid' \in 0 .. launched
    BY <1>8, AsksToStopKeeps DEF ProbeFails, InPhase
  <2> QED
    BY <1>1, <1>8, <2>1 DEF ProbeFails, HelpersOK, Progress
<1>9. CASE ProbeSucceeds(w)
  <2>1. CASE Cancelled(w)
    <3>1. /\ PoolOK' /\ SameWorkers /\ inbox' \subseteq RequestType(Len(workers'))
          /\ runtimePid' \in 0 .. launched
      BY <1>9, <2>1, AsksToStopKeeps DEF ProbeSucceeds, InPhase
    <3> QED
      BY <1>1, <1>9, <3>1 DEF ProbeSucceeds, HelpersOK, Progress
  <2>2. CASE ~Cancelled(w)
    <3>1. PoolOK' /\ SameWorkers
      BY <1>9, <2>2, PostWorker DEF ProbeSucceeds, InPhase
    <3> QED
      BY <1>1, <1>9, <2>2, <3>1 DEF ProbeSucceeds, HelpersOK, SameWorkers, Progress
  <2> QED
    BY <2>1, <2>2
<1>10. CASE StartAborted(w)
  <2>1. PoolOK' /\ SameWorkers
    BY <1>10, PostWorker DEF StartAborted, InPhase
  <2> QED
    BY <1>1, <1>10, <2>1 DEF StartAborted, ForgetPid, HelpersOK, SameWorkers, Progress
<1>11. CASE CancelEnds(w)
  <2>1. PoolOK' /\ SameWorkers
    BY <1>11, PostWorker DEF CancelEnds, InPhase
  <2> QED
    BY <1>1, <1>11, <2>1 DEF CancelEnds, HelpersOK, SameWorkers, Progress
<1>12. CASE StopBegins(w)
  <2>1. /\ PoolOK' /\ SameWorkers /\ inbox' \subseteq RequestType(Len(workers'))
        /\ runtimePid' \in 0 .. launched
    BY <1>12, AsksToStopKeeps DEF StopBegins, InPhase
  <2> QED
    BY <1>1, <1>12, <2>1 DEF StopBegins, HelpersOK, Progress
<1>13. CASE StopAnswered(w)
  <2>1. PoolOK' /\ SameWorkers
    <3>1. workers[w].ok \in BOOLEAN
      BY AnswersAreBoolean
    <3> QED
      BY <1>13, <3>1, PostWorker DEF StopAnswered, InPhase
  <2> QED
    BY <1>1, <1>13, <2>1 DEF StopAnswered, ForgetPid, HelpersOK, SameWorkers, Progress
<1>14. CASE RequestFails(w)
  <2>1. PoolOK' /\ SameWorkers
    <3>1. workers[w].phase \notin {"posted", "done"}
      BY <1>14 DEF RequestFails, Awaiting
    <3>2. \/ workers' = [workers EXCEPT ![w].phase = "cancelled"] /\ posted' = posted
          \/ Posted(w, FALSE)
      BY <1>14 DEF RequestFails, Moved
    <3> QED
      BY <3>1, <3>2, PostWorker, MoveWorker DEF Phases
  <2>2. inbox' \subseteq inbox /\ helperReady' \in BOOLEAN
    BY <1>14 DEF RequestFails
  <2> QED
    BY <1>1, <1>14, <2>1, <2>2 DEF RequestFails, HelpersOK, SameWorkers, Progress
<1> QED
  BY <1>2, <1>3, <1>4, <1>5, <1>6, <1>7, <1>8, <1>9, <1>10, <1>11, <1>12, <1>13, <1>14
  DEF WorkerStep

LEMMA AnsweredKeeps ==
    ASSUME PoolOK, HelpersOK, NEW r \in inbox, NEW ok \in BOOLEAN, Answered(r, ok)
    PROVE  /\ PoolOK' /\ SameWorkers /\ inbox' \subseteq RequestType(Len(workers'))
           /\ helperReady' \in BOOLEAN
           /\ UNCHANGED <<guiVars, runtimePid, helper, up>>
<1>1. r.worker \in WorkerIds
  BY DEF HelpersOK, RequestType, WorkerIds
<1>2. CASE workers[r.worker].phase \in Awaiting
  <2>1. AfterAnswer(workers[r.worker].phase) \in Phases \ {"posted", "done"}
    BY <1>2 DEF AfterAnswer, Awaiting, Phases
  <2>2. workers[r.worker].phase \notin {"posted", "done"}
    BY <1>2 DEF Awaiting
  <2>3. /\ workers' = [workers EXCEPT ![r.worker].phase = AfterAnswer(workers[r.worker].phase),
                                      ![r.worker].ok = ok]
        /\ posted' = posted /\ helperReady' = TRUE
    <3>1. workers[r.worker] \in WorkerType
      BY <1>1 DEF PoolOK, WorkerIds
    <3> QED
      BY <1>1, <1>2, <3>1 DEF Answered, PoolOK, WorkerType, WorkerIds
  <2>4. PoolOK' /\ SameWorkers
    BY <1>1, <2>1, <2>2, <2>3, MoveWorker
  <2> QED
    BY <2>3, <2>4 DEF Answered, HelpersOK, SameWorkers
<1>3. CASE workers[r.worker].phase \notin Awaiting
  <2>1. UNCHANGED <<workers, posted, helperReady>>
    BY <1>3 DEF Answered
  <2>2. PoolOK' /\ SameWorkers
    BY <2>1 DEF PoolOK, SameWorkers, WorkerIds
  <2> QED
    BY <2>1, <2>2 DEF Answered, HelpersOK
<1> QED
  BY <1>2, <1>3

LEMMA HelperStepKeeps ==
    ASSUME PoolOK, HelpersOK, NEW r \in inbox, HelperStep(r)
    PROVE  Progress
<1>1. launched \in Nat /\ launched <= launched /\ r \in RequestType(Len(workers))
  BY DEF HelpersOK
<1>2. CASE RuntimeLaunched(r)
  <2>1. /\ launched' = launched + 1 /\ pidFile' = launched'
        /\ alive' \subseteq alive \union {launched'} /\ spared' \subseteq alive'
        /\ UNCHANGED <<guiVars, runtimePid, helper, helperReady, workers, posted, up>>
    BY <1>2 DEF RuntimeLaunched, Spare, poolVars
  <2>2. alive' \subseteq 1 .. launched' /\ spared' \subseteq alive'
        /\ pidFile' \in 0 .. launched'
        /\ runtimePid' \in 0 .. launched' /\ launched' \in Nat /\ launched <= launched'
    BY <1>1, <2>1 DEF HelpersOK
  <2>3. [r EXCEPT !.running = TRUE] \in RequestType(Len(workers))
    BY <1>1 DEF RequestType
  <2>4. inbox' \subseteq RequestType(Len(workers'))
    BY <1>2, <2>1, <2>3 DEF RuntimeLaunched, HelpersOK
  <2>5. tracking' \in [1 .. MaxHelpers -> BOOLEAN]
    BY <1>2 DEF RuntimeLaunched, HelpersOK
  <2>6. PoolOK' /\ SameWorkers
    BY <2>1 DEF PoolOK, SameWorkers, WorkerIds
  <2> QED
    BY <2>1, <2>2, <2>4, <2>5, <2>6 DEF HelpersOK, Progress
<1>3. CASE /\ \E ok \in BOOLEAN : Answered(r, ok)
           /\ alive' \subseteq alive /\ spared' \subseteq alive'
           /\ pidFile' \in {pidFile, 0} /\ launched' = launched
           /\ tracking' \in [1 .. MaxHelpers -> BOOLEAN]
  <2>1. /\ PoolOK' /\ SameWorkers /\ inbox' \subseteq RequestType(Len(workers'))
        /\ helperReady' \in BOOLEAN
        /\ UNCHANGED <<guiVars, runtimePid, helper, up>>
    BY <1>3, AnsweredKeeps
  <2> QED
    BY <1>1, <1>3, <2>1 DEF HelpersOK, Progress
<1>4. ASSUME StartServed(r) \/ StartLosesPid(r) \/ RoutesFail(r)
             \/ StartRefused(r) \/ StopServed(r) \/ StopFails(r)
      PROVE  /\ \E ok \in BOOLEAN : Answered(r, ok)
             /\ alive' \subseteq alive /\ spared' \subseteq alive'
             /\ pidFile' \in {pidFile, 0} /\ launched' = launched
             /\ tracking' \in [1 .. MaxHelpers -> BOOLEAN]
  BY <1>4 DEF StartServed, StartLosesPid, RoutesFail, StartRefused, StopServed, StopFails,
              KillByPidFile, Hit, MayHit, Spare, HelpersOK
<1> QED
  BY <1>2, <1>3, <1>4 DEF HelperStep

LEMMA ExitKeeps ==
    ASSUME PoolOK, HelpersOK,
           \/ \E h \in 1 .. MaxHelpers : HelperIdles(h)
           \/ \E pid \in alive : RuntimeExits(pid)
    PROVE  Progress
<1>1. /\ UNCHANGED <<guiVars, poolVars, inbox, tracking, launched, pidFile>>
      /\ up' \subseteq up /\ alive' \subseteq alive /\ spared' \subseteq alive'
  BY DEF HelperIdles, RuntimeExits, Hit, Spare, HelpersOK
<1>2. PoolOK' /\ SameWorkers
  BY <1>1 DEF PoolOK, SameWorkers, WorkerIds, poolVars
<1>3. HelpersOK' /\ launched <= launched'
  BY <1>1 DEF HelpersOK, poolVars
<1> QED
  BY <1>1, <1>2, <1>3 DEF Progress

-----------------------------------------------------------------------------
(* The controller's handlers *)

\* A worker of this kind is added to those there are.
Added(kind) ==
    /\ Len(workers') = Len(workers) + 1
    /\ \A w \in WorkerIds : workers'[w] = workers[w]
    /\ workers'[Len(workers) + 1].kind = kind
    /\ workers'[Len(workers) + 1].phase = "begin"
    /\ kind = "start" => workers'[Len(workers) + 1].attempt = attempt'

LEMMA StartWorkerAdds ==
    ASSUME PoolOK, HelpersOK, attempt' \in 0 .. MaxAttempts, NEW kind \in {"start", "stop"},
           StartWorker(kind), UNCHANGED helperVars
    PROVE  PoolOK' /\ HelpersOK' /\ Added(kind)
<1> DEFINE new == [kind |-> kind, attempt |-> IF kind = "start" THEN attempt' ELSE 0,
                   phase |-> "begin", ok |-> FALSE]
<1>1. new \in WorkerType
  BY DEF WorkerType, Phases
<1>2. /\ new.kind = kind /\ new.phase = "begin"
      /\ kind = "start" => new.attempt = attempt'
  OBVIOUS
<1>3. workers' = Append(workers, new) /\ UNCHANGED <<runtimePid, helper, helperReady, posted>>
  BY DEF StartWorker
<1> HIDE DEF new
<1>4. /\ workers' \in Seq(WorkerType) /\ Len(workers') = Len(workers) + 1
      /\ \A w \in 1 .. Len(workers) : workers'[w] = workers[w]
      /\ workers'[Len(workers) + 1] = new
  BY <1>1, <1>3 DEF PoolOK
<1>5. Len(workers) \in Nat
  BY DEF PoolOK
<1>6. Added(kind)
  BY <1>2, <1>4 DEF Added, WorkerIds
<1>7. PoolOK'
  <2>1. WorkerIds \subseteq WorkerIds'
    BY <1>4, <1>5 DEF WorkerIds
  <2>2. \A i \in 1 .. Len(posted) : posted[i] \in WorkerIds
    BY DEF PoolOK
  <2>3. posted' \in Seq(WorkerIds')
    BY <1>3, <2>1, <2>2 DEF PoolOK
  <2>4. \A i \in 1 .. Len(posted) : workers'[posted[i]].phase = "posted"
    BY <1>4, <2>2 DEF PoolOK, WorkerIds
  <2> QED
    BY <1>3, <1>4, <2>3, <2>4 DEF PoolOK
<1>8. HelpersOK'
  <2>1. RequestType(Len(workers)) \subseteq RequestType(Len(workers'))
    BY <1>4, <1>5 DEF RequestType
  <2> QED
    BY <1>3, <2>1 DEF HelpersOK, helperVars
<1> QED
  BY <1>6, <1>7, <1>8

LEMMA AttemptsAreNumbers ==
    ASSUME PoolOK, NEW w \in WorkerIds
    PROVE  workers[w].attempt \in Int
<1>1. workers[w] \in WorkerType
  BY DEF PoolOK, WorkerIds
<1>2. workers[w].attempt \in 0 .. MaxAttempts
  BY <1>1 DEF WorkerType
<1> QED
  BY <1>2

\* A stop counts the attempt, so that every start there is becomes stale.
LEMMA StopManagedKeeps ==
    ASSUME IInv, NEW row \in BOOLEAN, StopManaged(row), UNCHANGED helperVars,
           reconnects' \in Nat
    PROVE  IInv'
<1>1. attempt' = attempt + 1 /\ attempt' \in 0 .. MaxAttempts /\ attempt \in Int
  BY DEF StopManaged, IInv, GuiOK
<1>2. PoolOK' /\ HelpersOK' /\ Added("stop")
  BY <1>1, StartWorkerAdds DEF StopManaged, IInv
<1>3. Len(workers) \in Nat /\ WorkerIds' = WorkerIds \union {Len(workers) + 1}
  BY <1>2 DEF IInv, PoolOK, Added, WorkerIds
<1>4. GuiOK'
  BY <1>1 DEF StopManaged, IInv, GuiOK, States, helperVars
<1>5. \A w \in WorkerIds : workers[w].kind = "start" => workers[w].attempt < attempt'
  <2> SUFFICES ASSUME NEW w \in WorkerIds, workers[w].kind = "start"
               PROVE  workers[w].attempt < attempt'
    OBVIOUS
  <2>1. workers[w].attempt \in Int
    BY AttemptsAreNumbers DEF IInv
  <2> QED
    BY <1>1, <2>1 DEF IInv, AttemptsOK, IsStart
<1>6. \A w \in WorkerIds' : workers'[w].kind = "start" =>
          w \in WorkerIds /\ workers'[w] = workers[w]
  BY <1>2, <1>3 DEF Added
<1>7. \A w \in WorkerIds : workers[w].kind = "start" => workers[w].attempt \in Int
  BY AttemptsAreNumbers DEF IInv
<1>8. AttemptsOK'
  BY <1>1, <1>5, <1>6, <1>7 DEF IInv, AttemptsOK, IsStart, Stale, Open
<1>9. Len(workers) + 1 \in WorkerIds'
  BY <1>3
<1>10. BusyIsBacked' /\ PendingOnlyWhileStopping'
  BY <1>2, <1>9 DEF BusyIsBacked, PendingOnlyWhileStopping, Added
<1>11. ConnectedIsWished' /\ RecordOnlyWhileManaged'
  BY DEF StopManaged, ConnectedIsWished, RecordOnlyWhileManaged, Connected, IInv, Promises,
         NothingLeftBehind
<1> QED
  BY <1>2, <1>4, <1>8, <1>10, <1>11 DEF IInv, Promises, NothingLeftBehind

LEMMA ConnectLaunchedKeeps ==
    ASSUME IInv, ~managed, wished' = TRUE, ConnectLaunched, UNCHANGED helperVars,
           reconnects' \in Nat
    PROVE  IInv'
<1>1. attempt' = attempt + 1 /\ attempt' \in 0 .. MaxAttempts /\ attempt \in Int
  BY DEF ConnectLaunched, IInv, GuiOK
<1>2. PoolOK' /\ HelpersOK' /\ Added("start")
  BY <1>1, StartWorkerAdds DEF ConnectLaunched, IInv
<1>3. Len(workers) \in Nat /\ WorkerIds' = WorkerIds \union {Len(workers) + 1}
  BY <1>2 DEF IInv, PoolOK, Added, WorkerIds
<1>4. GuiOK'
  BY <1>1 DEF ConnectLaunched, IInv, GuiOK, States, helperVars
<1>5. \A w \in WorkerIds : workers[w].kind = "start" =>
          workers[w].attempt < attempt' /\ workers[w].attempt \in Int
  <2> SUFFICES ASSUME NEW w \in WorkerIds, workers[w].kind = "start"
               PROVE  workers[w].attempt < attempt' /\ workers[w].attempt \in Int
    OBVIOUS
  <2>1. workers[w].attempt \in Int
    BY AttemptsAreNumbers DEF IInv
  <2> QED
    BY <1>1, <2>1 DEF IInv, AttemptsOK, IsStart
<1>6. \A w \in WorkerIds' : \/ w = Len(workers) + 1 /\ workers'[w].attempt = attempt'
                            \/ w \in WorkerIds /\ workers'[w] = workers[w]
  BY <1>2, <1>3 DEF Added
<1>7. managed' = managed
  BY DEF ConnectLaunched
<1>8. \A w \in WorkerIds' : workers'[w].kind = "start" =>
          /\ workers'[w].attempt <= attempt'
          /\ ~Stale(w)' => wished'
          /\ ~Stale(w)' /\ Open(w)' => ~managed'
  BY <1>1, <1>5, <1>6, <1>7 DEF Stale
<1>9. \A v, w \in WorkerIds' :
          workers'[v].kind = "start" /\ workers'[w].kind = "start"
              /\ workers'[v].attempt = workers'[w].attempt => v = w
  BY <1>1, <1>5, <1>6 DEF IInv, AttemptsOK, IsStart
<1>10. AttemptsOK'
  BY <1>8, <1>9 DEF AttemptsOK, IsStart
<1>11. Len(workers) + 1 \in WorkerIds'
  BY <1>3
<1>12. BusyIsBacked'
  BY <1>2, <1>11 DEF BusyIsBacked, Added, Stale
<1>13. PendingOnlyWhileStopping'
  BY <1>2, <1>3 DEF ConnectLaunched, PendingOnlyWhileStopping, Added, IInv, Promises,
                    NothingLeftBehind
<1>14. ConnectedIsWished' /\ RecordOnlyWhileManaged'
  BY DEF ConnectLaunched, ConnectedIsWished, RecordOnlyWhileManaged, Connected, IInv,
         Promises, NothingLeftBehind
<1> QED
  BY <1>2, <1>4, <1>10, <1>12, <1>13, <1>14 DEF IInv, Promises, NothingLeftBehind

\* A handler that starts no worker and leaves the pool alone.
LEMMA PoolSame ==
    ASSUME IInv, UNCHANGED <<poolVars, helperVars>>
    PROVE  PoolOK' /\ HelpersOK' /\ WorkerIds' = WorkerIds /\ workers' = workers
BY DEF IInv, PoolOK, HelpersOK, WorkerIds, poolVars, helperVars

LEMMA SettleKeeps ==
    ASSUME IInv, SettleDisconnected, UNCHANGED helperVars
    PROVE  IInv'
<1>1. attempt' = attempt + 1 /\ attempt' \in 0 .. MaxAttempts /\ attempt \in Int
  BY DEF SettleDisconnected, IInv, GuiOK
<1>2. PoolOK' /\ HelpersOK' /\ WorkerIds' = WorkerIds /\ workers' = workers
  BY PoolSame DEF SettleDisconnected
<1>3. GuiOK'
  <2>1. reconnects' \in Nat /\ pending' = FALSE /\ wished' = pending
    BY DEF SettleDisconnected, MaybeReconnect, IInv, GuiOK
  <2>2. record' \in 0 .. launched'
    BY DEF SettleDisconnected, ClearRecord, IInv, HelpersOK, helperVars
  <2> QED
    BY <1>1, <2>1, <2>2 DEF SettleDisconnected, IInv, GuiOK, States
<1>4. AttemptsOK'
  BY <1>1, <1>2, AttemptsAreNumbers DEF IInv, AttemptsOK, IsStart, Stale
<1> QED
  BY <1>2, <1>3, <1>4
  DEF SettleDisconnected, MaybeReconnect, ClearRecord, IInv, Promises, ConnectedIsWished,
      BusyIsBacked, NothingLeftBehind, PendingOnlyWhileStopping, RecordOnlyWhileManaged,
      Connected, Busy

\* connectToProfile without a launch: the error is shown, or the tunnel is up already.
LEMMA ConnectSettledKeeps ==
    ASSUME IInv, UNCHANGED <<poolVars, helperVars, managed, pending, record>>,
           reconnects' \in Nat, disconnectRequested' \in BOOLEAN, wished' \in BOOLEAN, wished => wished',
           \/ connState' = "Error"
           \/ connState' = "Connected" /\ managed /\ wished',
           \/ attempt' = attempt
           \/ attempt' = attempt + 1 /\ attempt < MaxAttempts
    PROVE  IInv'
<1>1. attempt' \in 0 .. MaxAttempts /\ attempt \in Int
  BY DEF IInv, GuiOK
<1>2. PoolOK' /\ HelpersOK' /\ WorkerIds' = WorkerIds /\ workers' = workers
  BY PoolSame
<1>3. GuiOK'
  BY <1>1 DEF IInv, GuiOK, States, helperVars
<1>4. AttemptsOK'
  <2>1. CASE attempt' = attempt
    BY <1>2, <2>1 DEF IInv, AttemptsOK, IsStart, Stale, Open
  <2>2. CASE attempt' = attempt + 1
    BY <1>1, <1>2, <2>2, AttemptsAreNumbers DEF IInv, AttemptsOK, IsStart, Stale
  <2> QED
    BY <2>1, <2>2
<1> QED
  BY <1>2, <1>3, <1>4
  DEF IInv, Promises, ConnectedIsWished, BusyIsBacked, NothingLeftBehind,
      PendingOnlyWhileStopping, RecordOnlyWhileManaged, Connected, Busy

\* A posted timer that finds the state Connecting does nothing.
LEMMA IgnoredKeeps ==
    ASSUME IInv, UNCHANGED <<connState, attempt, disconnectRequested, managed, pending, record,
                             wished, poolVars, helperVars>>,
           reconnects' \in Nat
    PROVE  IInv'
<1>1. PoolOK' /\ HelpersOK' /\ WorkerIds' = WorkerIds /\ workers' = workers
  BY PoolSame
<1>2. GuiOK'
  BY DEF IInv, GuiOK, helperVars
<1>3. AttemptsOK'
  BY <1>1 DEF IInv, AttemptsOK, IsStart, Stale, Open
<1>4. Promises'
  BY <1>1 DEF IInv, Promises, ConnectedIsWished, BusyIsBacked, NothingLeftBehind, Stale,
              PendingOnlyWhileStopping, RecordOnlyWhileManaged, Connected, Busy
<1> QED
  BY <1>1, <1>2, <1>3, <1>4 DEF IInv

LEMMA ConnectCallKeeps ==
    ASSUME IInv, NEW other \in BOOLEAN, ConnectCall(other), UNCHANGED helperVars,
           reconnects' \in Nat
    PROVE  IInv'
<1>1. CASE UNCHANGED <<connState, attempt, disconnectRequested, managed, pending, record,
                       wished, poolVars>>
  BY <1>1, IgnoredKeeps
<1>2. CASE managed /\ StopManaged(TRUE)
  BY <1>2, StopManagedKeeps
<1>3. CASE /\ managed /\ connState' = "Connected" /\ wished' = TRUE
           /\ disconnectRequested' = (Connected /\ disconnectRequested)
           /\ UNCHANGED <<attempt, managed, pending, record, poolVars>>
  BY <1>3, ConnectSettledKeeps DEF IInv, GuiOK
<1>4. CASE ~managed /\ wished' = TRUE /\ ConnectRejected
  BY <1>4, ConnectSettledKeeps DEF ConnectRejected, IInv, GuiOK
<1>5. CASE ~managed /\ wished' = TRUE /\ ConnectNotLaunched
  BY <1>5, ConnectSettledKeeps DEF ConnectNotLaunched, IInv, GuiOK
<1>6. CASE ~managed /\ wished' = TRUE /\ ConnectLaunched
  BY <1>6, ConnectLaunchedKeeps
<1>7. CASE managed /\ wished' = wished /\ ConnectRejected
  BY <1>7, ConnectSettledKeeps DEF ConnectRejected, IInv, GuiOK
<1> QED
  BY <1>1, <1>2, <1>3, <1>4, <1>5, <1>6, <1>7 DEF ConnectCall

LEMMA UserKeeps ==
    ASSUME IInv,
           \/ ToggleConnection
           \/ \E other \in BOOLEAN : ConnectToProfile(other)
           \/ SelectOther
           \/ \E other \in BOOLEAN : ReconnectFires(other)
    PROVE  IInv'
<1>1. reconnects \in Nat /\ pending \in BOOLEAN
  BY DEF IInv, GuiOK
<1>2. CASE ToggleConnection
  <2>1. CASE DisconnectCall
    <3>1. CASE managed
      BY <1>1, <1>2, <2>1, <3>1, StopManagedKeeps DEF ToggleConnection, DisconnectCall
    <3>2. CASE ~managed
      BY <1>2, <2>1, <3>2, SettleKeeps DEF ToggleConnection, DisconnectCall
    <3> QED
      BY <3>1, <3>2
  <2>2. CASE ConnectCall(FALSE) /\ UNCHANGED reconnects
    BY <1>1, <1>2, <2>2, ConnectCallKeeps DEF ToggleConnection
  <2> QED
    BY <1>2, <2>1, <2>2 DEF ToggleConnection
<1>3. ASSUME NEW other \in BOOLEAN, ConnectToProfile(other) PROVE IInv'
  BY <1>1, <1>3, ConnectCallKeeps DEF ConnectToProfile
<1>4. CASE SelectOther
  BY <1>1, <1>4, StopManagedKeeps DEF SelectOther
<1>5. ASSUME NEW other \in BOOLEAN, ReconnectFires(other) PROVE IInv'
  <2>1. reconnects' \in Nat
    BY <1>1, <1>5 DEF ReconnectFires
  <2> QED
    BY <1>5, <2>1, ConnectCallKeeps DEF ReconnectFires
<1> QED
  BY <1>2, <1>3, <1>4, <1>5

-----------------------------------------------------------------------------
(* The queued calls *)

\* Worker w is done, the others are as they were.
Closed(w) ==
    /\ WorkerIds' = WorkerIds
    /\ workers[w].phase = "posted" /\ workers'[w].phase = "done"
    /\ workers'[w].kind = workers[w].kind /\ workers'[w].attempt = workers[w].attempt
    /\ \A v \in WorkerIds \ {w} : workers'[v] = workers[v]

LEMMA HandledCloses ==
    ASSUME PoolOK, HelpersOK, NEW w \in WorkerIds, Handled(w),
           runtimePid' \in {runtimePid, 0}, pidFile' \in {pidFile, 0}
    PROVE  PoolOK' /\ HelpersOK' /\ Closed(w)
<1> DEFINE new == [workers[w] EXCEPT !.phase = "done"]
<1>1. /\ posted # <<>> /\ w = posted[1] /\ posted' = Tail(posted)
      /\ workers' = [workers EXCEPT ![w] = new]
      /\ workers \in Seq(WorkerType) /\ posted \in Seq(WorkerIds)
  BY DEF Handled, PoolOK
<1>2. w \in 1 .. Len(workers) /\ workers[w] \in WorkerType
  BY <1>1 DEF WorkerIds
<1>3. /\ new \in WorkerType /\ new.phase = "done"
      /\ new.kind = workers[w].kind /\ new.attempt = workers[w].attempt
  BY <1>2 DEF WorkerType, Phases
<1> HIDE DEF new
<1>4. /\ workers' \in Seq(WorkerType) /\ Len(workers') = Len(workers) /\ workers'[w] = new
      /\ \A v \in 1 .. Len(workers) : v # w => workers'[v] = workers[v]
  BY <1>1, <1>2, <1>3
<1>5. /\ posted' \in Seq(WorkerIds) /\ Len(posted') = Len(posted) - 1 /\ Len(posted) \in Nat
      /\ \A i \in 1 .. Len(posted') : i + 1 \in 1 .. Len(posted) /\ posted'[i] = posted[i + 1]
  BY <1>1
<1>6. WorkerIds' = WorkerIds
  BY <1>4 DEF WorkerIds
<1>7. 1 \in 1 .. Len(posted)
  BY <1>1
<1>8. workers[w].phase = "posted"
  BY <1>1, <1>7 DEF PoolOK
<1>9. Closed(w)
  BY <1>3, <1>4, <1>6, <1>8 DEF Closed, WorkerIds
<1>10. PoolOK'
  <2>1. ASSUME NEW i \in 1 .. Len(posted')
        PROVE  workers'[posted'[i]].phase = "posted"
    <3>1. posted[i + 1] # w
      BY <1>1, <1>5, <1>7 DEF PoolOK
    <3>2. posted[i + 1] \in 1 .. Len(workers) /\ workers[posted[i + 1]].phase = "posted"
      BY <1>1, <1>5 DEF PoolOK, WorkerIds
    <3> QED
      BY <1>4, <1>5, <3>1, <3>2
  <2>2. ASSUME NEW i \in 1 .. Len(posted'), NEW j \in 1 .. Len(posted'),
               posted'[i] = posted'[j]
        PROVE  i = j
    <3>1. i + 1 = j + 1
      BY <1>5, <2>2 DEF PoolOK
    <3> QED
      BY <3>1
  <2> QED
    BY <1>4, <1>5, <1>6, <2>1, <2>2 DEF PoolOK
<1>11. HelpersOK'
  BY <1>4 DEF Handled, HelpersOK
<1> QED
  BY <1>9, <1>10, <1>11

\* The end of a stop, also of one that was overtaken: Disconnected, and the reconnect posted.
LEMMA StopCompletesKeeps ==
    ASSUME IInv, NEW w \in WorkerIds, StopCompletes(w)
    PROVE  IInv'
<1>1. PoolOK' /\ HelpersOK' /\ Closed(w)
  BY HandledCloses DEF StopCompletes, IInv
<1>2. UNCHANGED <<attempt, wished, launched>>
  BY DEF StopCompletes, Handled
<1>3. GuiOK'
  <2>1. reconnects' \in Nat
    BY DEF StopCompletes, MaybeReconnect, IInv, GuiOK
  <2>2. record' \in 0 .. launched'
    BY <1>1 DEF StopCompletes, ClearRecord, HelpersOK
  <2> QED
    BY <1>2, <2>1, <2>2 DEF StopCompletes, MaybeReconnect, IInv, GuiOK, States
<1>4. AttemptsOK'
  BY <1>1, <1>2 DEF StopCompletes, IInv, AttemptsOK, IsStart, Stale, Open, Closed
<1>5. Promises'
  BY DEF StopCompletes, MaybeReconnect, ClearRecord, Promises, ConnectedIsWished,
         BusyIsBacked, NothingLeftBehind, PendingOnlyWhileStopping, RecordOnlyWhileManaged,
         Connected, Busy
<1> QED
  BY <1>1, <1>3, <1>4, <1>5 DEF IInv

\* A start that was replaced changes nothing: whoever replaced it stands for the state.
LEMMA StartCompletesKeeps ==
    ASSUME IInv, NEW w \in WorkerIds, StartCompletes(w)
    PROVE  IInv'
<1>1. PoolOK' /\ HelpersOK' /\ Closed(w)
  <2>1. runtimePid' \in {runtimePid, 0} /\ pidFile' = pidFile /\ Handled(w)
    BY DEF StartCompletes
  <2> QED
    BY <2>1, HandledCloses DEF IInv
<1>2. UNCHANGED <<attempt, wished, launched, pending, reconnects>> /\ IsStart(w)
  BY DEF StartCompletes, Handled, IsStart
<1>3. PendingOnlyWhileStopping'
  <2> SUFFICES ASSUME pending PROVE PendingOnlyWhileStopping'
    BY <1>2 DEF PendingOnlyWhileStopping
  <2>1. PICK v \in WorkerIds : workers[v].kind = "stop" /\ workers[v].phase # "done"
    BY DEF IInv, Promises, NothingLeftBehind, PendingOnlyWhileStopping
  <2>2. v # w
    BY <1>2, <2>1 DEF IsStart
  <2> QED
    BY <1>1, <2>1, <2>2 DEF PendingOnlyWhileStopping, Closed
<1>4. CASE Stale(w)
  <2>1. UNCHANGED <<connState, disconnectRequested, managed, record, runtimePid>>
    BY <1>4 DEF StartCompletes
  <2>2. GuiOK'
    BY <1>2, <2>1 DEF IInv, GuiOK
  <2>3. AttemptsOK'
    BY <1>1, <1>2, <2>1 DEF IInv, AttemptsOK, IsStart, Stale, Open, Closed
  <2>4. BusyIsBacked'
    <3> SUFFICES ASSUME Busy PROVE BusyIsBacked'
      BY <2>1 DEF BusyIsBacked, Busy
    <3>1. PICK v \in WorkerIds : /\ workers[v].phase # "done"
                                 /\ workers[v].kind = "start" => ~Stale(v)
      BY DEF IInv, Promises, BusyIsBacked
    <3>2. v # w
      BY <1>2, <1>4, <3>1 DEF IsStart
    <3> QED
      BY <1>1, <1>2, <3>1, <3>2 DEF BusyIsBacked, Closed, Stale
  <2>5. ConnectedIsWished' /\ RecordOnlyWhileManaged'
    BY <1>2, <2>1 DEF IInv, Promises, ConnectedIsWished, NothingLeftBehind,
                      RecordOnlyWhileManaged, Connected
  <2> QED
    BY <1>1, <1>3, <2>2, <2>3, <2>4, <2>5 DEF IInv, Promises, NothingLeftBehind
<1>5. CASE ~Stale(w)
  <2>1. wished /\ ~managed
    BY <1>1, <1>2, <1>5 DEF IInv, AttemptsOK, Open, Closed
  <2>2. record = 0
    BY <2>1 DEF IInv, Promises, NothingLeftBehind, RecordOnlyWhileManaged
  <2>3. \/ /\ managed' = TRUE /\ connState' = "Connected" /\ disconnectRequested' = FALSE
           /\ record' \in {record, runtimePid}
        \/ /\ managed' = FALSE /\ connState' = "Error"
           /\ UNCHANGED <<disconnectRequested, record>>
    BY <1>5 DEF StartCompletes
  <2>4. GuiOK'
    <3>1. record' \in 0 .. launched'
      BY <1>2, <2>3 DEF IInv, GuiOK, HelpersOK
    <3> QED
      BY <1>2, <2>3, <3>1 DEF IInv, GuiOK, States
  <2>5. AttemptsOK'
    <3>1. \A v \in WorkerIds : IsStart(v) /\ ~Stale(v) => v = w
      BY <1>2, <1>5 DEF IInv, AttemptsOK, Stale
    <3>2. \A v \in WorkerIds : IsStart(v)' = IsStart(v) /\ Stale(v)' = Stale(v)
      BY <1>1, <1>2 DEF Closed, IsStart, Stale
    <3>3. ~Open(w)'
      BY <1>1 DEF Closed, Open
    <3>4. \A v \in WorkerIds : workers'[v].attempt = workers[v].attempt
      BY <1>1 DEF Closed
    <3> QED
      BY <1>1, <1>2, <3>1, <3>2, <3>3, <3>4 DEF IInv, AttemptsOK, Closed
  <2>6. ConnectedIsWished' /\ RecordOnlyWhileManaged' /\ BusyIsBacked'
    BY <1>2, <2>1, <2>2, <2>3
    DEF ConnectedIsWished, RecordOnlyWhileManaged, BusyIsBacked, Connected, Busy
  <2> QED
    BY <1>1, <1>3, <2>4, <2>5, <2>6 DEF IInv, Promises, NothingLeftBehind
<1> QED
  BY <1>4, <1>5

-----------------------------------------------------------------------------
(* The theorems *)

LEMMA ProgressIsKept == IInv /\ Progress => IInv'
<1> SUFFICES ASSUME IInv, Progress PROVE IInv'
  OBVIOUS
<1>1. launched \in Nat /\ launched' \in Nat
  BY DEF IInv, Progress, HelpersOK
<1> QED
  BY <1>1, ProgressKeeps DEF IInv, Progress

LEMMA InitEstablishes == Init => IInv
<1> SUFFICES ASSUME Init PROVE IInv
  OBVIOUS
<1>1. WorkerIds = {} /\ Len(posted) = 0 /\ workers \in Seq(WorkerType)
      /\ posted \in Seq(WorkerIds)
  BY DEF Init, WorkerIds
<1>2. MaxAttempts \in Nat /\ MaxHelpers \in Nat
  OBVIOUS
<1>3. 0 \in 0 .. MaxAttempts /\ 0 \in 0 .. MaxHelpers /\ 0 \in 0 .. 0 /\ 0 \in Nat
  BY <1>2
<1>4. GuiOK
  BY <1>3 DEF Init, GuiOK, States
<1>5. PoolOK
  BY <1>1 DEF PoolOK
<1>6. tracking \in [1 .. MaxHelpers -> BOOLEAN]
  BY DEF Init
<1>7. HelpersOK
  BY <1>3, <1>6 DEF Init, HelpersOK
<1>8. AttemptsOK /\ Promises
  BY <1>1 DEF Init, AttemptsOK, Promises, ConnectedIsWished, BusyIsBacked, NothingLeftBehind,
              PendingOnlyWhileStopping, RecordOnlyWhileManaged, Connected, Busy
<1> QED
  BY <1>4, <1>5, <1>7, <1>8 DEF IInv

LEMMA StepPreserves == IInv /\ [Next]_vars => IInv'
<1> SUFFICES ASSUME IInv, [Next]_vars PROVE IInv'
  OBVIOUS
<1>1. CASE \/ ToggleConnection
           \/ \E other \in BOOLEAN : ConnectToProfile(other)
           \/ SelectOther
           \/ \E other \in BOOLEAN : ReconnectFires(other)
  BY <1>1, UserKeeps
<1>2. ASSUME NEW w \in WorkerIds, StartCompletes(w) \/ StopCompletes(w) \/ WorkerStep(w)
      PROVE  IInv'
  BY <1>2, StartCompletesKeeps, StopCompletesKeeps, WorkerStepKeeps, ProgressIsKept DEF IInv
<1>3. ASSUME NEW r \in inbox, HelperStep(r) PROVE IInv'
  BY <1>3, HelperStepKeeps, ProgressIsKept DEF IInv
<1>4. CASE \/ \E h \in 1 .. MaxHelpers : HelperIdles(h)
           \/ \E pid \in alive : RuntimeExits(pid)
  BY <1>4, ExitKeeps, ProgressIsKept DEF IInv
<1>5. CASE UNCHANGED vars
  <2>1. UNCHANGED <<connState, attempt, disconnectRequested, managed, pending, record,
                    wished, poolVars, helperVars>> /\ reconnects' = reconnects
    BY <1>5 DEF vars, guiVars
  <2> QED
    BY <2>1, IgnoredKeeps DEF IInv, GuiOK
<1> QED
  BY <1>1, <1>2, <1>3, <1>4, <1>5 DEF Next

\* The inductive invariant holds in every state of every run.
THEOREM Invariance == Spec => []IInv
BY InitEstablishes, StepPreserves, PTL DEF Spec

\* Every field that threads share keeps its type; in particular what is posted to the event
\* loop is the result of a worker, and the pids are of runtimes that were launched.
THEOREM TypeCorrect == Spec => []TypeOK
<1>1. IInv => TypeOK
  <2> SUFFICES ASSUME IInv PROVE TypeOK
    OBVIOUS
  <2>1. \A w \in WorkerIds : workers[w] \in WorkerType
    BY DEF IInv, PoolOK, WorkerIds
  <2>2. \A i \in 1 .. Len(posted) : posted[i] \in WorkerIds
    BY DEF IInv, PoolOK
  <2> QED
    BY <2>1, <2>2 DEF IInv, GuiOK, HelpersOK, TypeOK, States, WorkerType, RequestType, WorkerIds
<1> QED
  BY <1>1, Invariance, PTL

\* However starts and stops overlap, time out and come back late: a tunnel shown as connected
\* is managed and was the user's last wish (connectToProfile, disconnect and the queued call
\* that compares the attempts).
THEOREM ConnectedIsWishedAlways == Spec => []ConnectedIsWished
<1>1. IInv => ConnectedIsWished
  BY DEF IInv, Promises
<1> QED
  BY <1>1, Invariance, PTL

\* Connecting is never shown without a worker whose queued call will end it.
THEOREM BusyIsBackedAlways == Spec => []BusyIsBacked
<1>1. IInv => BusyIsBacked
  BY DEF IInv, Promises
<1> QED
  BY <1>1, Invariance, PTL

\* A pending reconnect has a stop under way, and the record on disk something managed
\* (maybeReconnectToPendingProfile, writeManagedRuntimeRecord, clearManagedRuntimeRecord).
THEOREM NothingLeftBehindAlways == Spec => []NothingLeftBehind
<1>1. IInv => NothingLeftBehind
  BY DEF IInv, Promises
<1> QED
  BY <1>1, Invariance, PTL

-----------------------------------------------------------------------------
(* One operation at a time: what holds when the user waits for each to end *)

\* At most one worker is under way, for the current operation.
TurnsOK ==
    /\ \A v, w \in WorkerIds : Open(v) /\ Open(w) => v = w
    /\ \A w \in WorkerIds : Open(w) =>
          /\ Busy
          /\ IF IsStart(w) THEN ~Stale(w) /\ managed = FALSE /\ disconnectRequested = FALSE
                           ELSE managed = TRUE /\ disconnectRequested = TRUE
    /\ Quiet => disconnectRequested = FALSE

LEMMA QuietUnlessBusy == TurnsOK /\ ~Busy => Quiet
BY DEF TurnsOK, Quiet, Open

LEMMA ProgressKeepsTurns == TurnsOK /\ SameWorkers /\ UNCHANGED guiVars => TurnsOK'
<1> SUFFICES ASSUME TurnsOK, SameWorkers, UNCHANGED guiVars PROVE TurnsOK'
  OBVIOUS
<1>1. WorkerIds' = WorkerIds
  BY DEF SameWorkers, WorkerIds
<1>2. \A w \in WorkerIds : /\ Open(w)' <=> Open(w)
                           /\ IsStart(w)' <=> IsStart(w)
                           /\ Stale(w)' <=> Stale(w)
  BY DEF SameWorkers, Open, IsStart, Stale, guiVars
<1>3. Quiet' <=> Quiet
  BY <1>1 DEF SameWorkers, Quiet
<1> QED
  BY <1>1, <1>2, <1>3 DEF TurnsOK, Busy, guiVars

\* A worker is started when none is under way.
LEMMA AddedTakesTurn ==
    ASSUME PoolOK, Quiet, NEW kind \in {"start", "stop"}, Added(kind), Busy',
           IF kind = "start" THEN managed' = FALSE /\ disconnectRequested' = FALSE
                             ELSE managed' = TRUE /\ disconnectRequested' = TRUE
    PROVE  TurnsOK'
<1>1. PICK n : n = Len(workers) + 1
  OBVIOUS
<1>2. n \in Int /\ WorkerIds' = WorkerIds \union {n} /\ n \notin WorkerIds
  BY <1>1 DEF PoolOK, Added, WorkerIds
<1>3. \A w \in WorkerIds' : Open(w)' => w = n
  BY <1>2 DEF Added, Quiet, Open
<1>4. ~Quiet'
  BY <1>1, <1>2 DEF Added, Quiet
<1>5. \/ kind = "start" /\ IsStart(n)' /\ ~Stale(n)'
      \/ kind = "stop" /\ ~IsStart(n)'
  BY <1>1 DEF Added, IsStart, Stale
<1> QED
  BY <1>3, <1>4, <1>5 DEF TurnsOK

\* No worker is under way and none is started.
LEMMA RestKeepsTurns ==
    ASSUME Quiet, workers' = workers, disconnectRequested' = FALSE
    PROVE  TurnsOK'
<1>1. Quiet' /\ WorkerIds' = WorkerIds
  BY DEF Quiet, WorkerIds
<1> QED
  BY <1>1 DEF TurnsOK, Quiet, Open

LEMMA ConnectTakesTurn ==
    ASSUME IInv, TurnsOK, NEW other \in BOOLEAN, ConnectCall(other), UNCHANGED helperVars
    PROVE  TurnsOK'
<1>1. PoolOK /\ HelpersOK /\ managed \in BOOLEAN /\ attempt \in 0 .. MaxAttempts
  BY DEF IInv, GuiOK
<1>2. CASE Busy
  <2>1. UNCHANGED <<connState, attempt, disconnectRequested, managed, workers>>
    BY <1>2 DEF ConnectCall, poolVars
  <2>2. WorkerIds' = WorkerIds /\ (Quiet' <=> Quiet)
    BY <2>1 DEF WorkerIds, Quiet
  <2> QED
    BY <2>1, <2>2 DEF TurnsOK, Open, IsStart, Stale, Busy
<1>3. CASE ~Busy
  <2>1. Quiet /\ disconnectRequested = FALSE
    BY <1>3, QuietUnlessBusy DEF TurnsOK
  <2>2. CASE managed /\ StopManaged(TRUE)
    <3>1. attempt' \in 0 .. MaxAttempts
      BY <1>1, <2>2 DEF StopManaged
    <3>2. Added("stop")
      BY <1>1, <2>2, <3>1, StartWorkerAdds DEF StopManaged
    <3> QED
      BY <1>1, <2>1, <2>2, <3>2, AddedTakesTurn DEF StopManaged, Busy
  <2>3. CASE ~managed /\ ConnectLaunched
    <3>1. attempt' \in 0 .. MaxAttempts
      BY <1>1, <2>3 DEF ConnectLaunched
    <3>2. Added("start")
      BY <1>1, <2>3, <3>1, StartWorkerAdds DEF ConnectLaunched
    <3>3. managed' = FALSE /\ disconnectRequested' = FALSE /\ Busy'
      BY <1>1, <2>3 DEF ConnectLaunched, Busy
    <3> QED
      BY <1>1, <2>1, <3>2, <3>3, AddedTakesTurn
  <2>4. CASE UNCHANGED poolVars /\ disconnectRequested' = FALSE
    BY <2>1, <2>4, RestKeepsTurns DEF poolVars
  <2> QED
    BY <1>3, <2>1, <2>2, <2>3, <2>4 DEF ConnectCall, ConnectRejected, ConnectNotLaunched
<1> QED
  BY <1>2, <1>3

\* Without Overlap the user acts between operations; a posted reconnect can fire during one,
\* and is then ignored.
LEMMA UserTakesTurn ==
    ASSUME IInv, TurnsOK, ~Overlap,
           \/ ToggleConnection
           \/ \E other \in BOOLEAN : ConnectToProfile(other)
           \/ SelectOther
           \/ \E other \in BOOLEAN : ReconnectFires(other)
    PROVE  TurnsOK'
<1>1. PoolOK /\ HelpersOK /\ pending \in BOOLEAN /\ managed \in BOOLEAN
      /\ attempt \in 0 .. MaxAttempts
  BY DEF IInv, GuiOK
<1>2. ASSUME NEW row \in BOOLEAN, Quiet, managed, StopManaged(row), UNCHANGED helperVars
      PROVE  TurnsOK'
  <2>1. attempt' \in 0 .. MaxAttempts
    BY <1>1, <1>2 DEF StopManaged
  <2>2. Added("stop")
    BY <1>1, <1>2, <2>1, StartWorkerAdds DEF StopManaged
  <2> QED
    BY <1>1, <1>2, <2>2, AddedTakesTurn DEF StopManaged, Busy
<1>3. CASE ToggleConnection
  <2>1. Quiet /\ UNCHANGED helperVars
    BY <1>3 DEF ToggleConnection, MayAct
  <2>2. CASE DisconnectCall
    <3>1. CASE managed
      BY <1>1, <1>2, <2>1, <2>2, <3>1 DEF DisconnectCall
    <3>2. CASE ~managed
      BY <2>1, <2>2, <3>2, RestKeepsTurns DEF DisconnectCall, SettleDisconnected, poolVars
    <3> QED
      BY <3>1, <3>2
  <2>3. CASE ConnectCall(FALSE)
    BY <2>1, <2>3, ConnectTakesTurn
  <2> QED
    BY <1>3, <2>2, <2>3 DEF ToggleConnection
<1>4. ASSUME NEW other \in BOOLEAN, ConnectToProfile(other) PROVE TurnsOK'
  BY <1>4, ConnectTakesTurn DEF ConnectToProfile
<1>5. CASE SelectOther
  <2>1. Quiet /\ managed /\ StopManaged(TRUE) /\ UNCHANGED helperVars
    BY <1>5 DEF SelectOther, MayAct
  <2> QED
    BY <1>2, <2>1
<1>6. ASSUME NEW other \in BOOLEAN, ReconnectFires(other) PROVE TurnsOK'
  BY <1>6, ConnectTakesTurn DEF ReconnectFires
<1> QED
  BY <1>3, <1>4, <1>5, <1>6

\* The queued call ends the operation it belongs to.
LEMMA CompletionEndsTurn ==
    ASSUME IInv, TurnsOK, NEW w \in WorkerIds, StartCompletes(w) \/ StopCompletes(w)
    PROVE  /\ Closed(w) /\ Open(w) /\ (StartCompletes(w) => ~Stale(w))
           /\ Quiet' /\ disconnectRequested' = FALSE /\ TurnsOK'
<1>1. Handled(w) /\ runtimePid' \in {runtimePid, 0} /\ pidFile' \in {pidFile, 0}
  BY DEF StartCompletes, StopCompletes
<1>2. Closed(w) /\ Open(w)
  BY <1>1, HandledCloses DEF IInv, Closed, Open
<1>3. \A v \in WorkerIds' : workers'[v].phase = "done"
  BY <1>2 DEF TurnsOK, Closed, Open
<1>4. StartCompletes(w) => ~Stale(w) /\ disconnectRequested = FALSE
  BY <1>2 DEF TurnsOK, StartCompletes, IsStart
<1>5. disconnectRequested' = FALSE
  BY <1>4 DEF StartCompletes, StopCompletes
<1> QED
  BY <1>2, <1>3, <1>4, <1>5 DEF TurnsOK, Quiet, Open

LEMMA StepKeepsTurns ==
    ASSUME ~Overlap, IInv, TurnsOK, [Next]_vars
    PROVE  TurnsOK'
<1>1. CASE \/ ToggleConnection
           \/ \E other \in BOOLEAN : ConnectToProfile(other)
           \/ SelectOther
           \/ \E other \in BOOLEAN : ReconnectFires(other)
  BY <1>1, UserTakesTurn
<1>2. ASSUME NEW w \in WorkerIds, StartCompletes(w) \/ StopCompletes(w) PROVE TurnsOK'
  BY <1>2, CompletionEndsTurn
<1>3. ASSUME NEW w \in WorkerIds, WorkerStep(w) PROVE TurnsOK'
  BY <1>3, WorkerStepKeeps, ProgressKeepsTurns DEF IInv, Progress
<1>4. ASSUME NEW r \in inbox, HelperStep(r) PROVE TurnsOK'
  BY <1>4, HelperStepKeeps, ProgressKeepsTurns DEF IInv, Progress
<1>5. CASE \/ \E h \in 1 .. MaxHelpers : HelperIdles(h)
           \/ \E pid \in alive : RuntimeExits(pid)
  BY <1>5, ExitKeeps, ProgressKeepsTurns DEF IInv, Progress
<1>6. CASE UNCHANGED vars
  BY <1>6, ProgressKeepsTurns DEF vars, poolVars, SameWorkers
<1> QED
  BY <1>1, <1>2, <1>3, <1>4, <1>5, <1>6 DEF Next

LEMMA InitTakesTurn == Init => TurnsOK
BY DEF Init, TurnsOK, WorkerIds, Open

-----------------------------------------------------------------------------
(* TUN mode implements the abstract life cycle *)

LEMMA StopManagedMaps ==
    ASSUME IInv, NEW row \in {pending, TRUE}, managed, StopManaged(row), Lifecycle!Served
    PROVE  Lifecycle!Next
<1>1. Lifecycle!Stop
  BY DEF StopManaged, Lifecycle!Stop
<1> QED
  BY <1>1 DEF Lifecycle!Next

LEMMA ConnectMaps ==
    ASSUME IInv, TurnsOK, NEW other \in BOOLEAN, ConnectCall(other), Lifecycle!Served
    PROVE  Lifecycle!Next
<1>1. CASE Busy /\ UNCHANGED <<connState, disconnectRequested, managed, pending>>
  BY <1>1 DEF Lifecycle!Next, Lifecycle!Ignore, Lifecycle!Busy, Busy
<1>2. CASE managed /\ StopManaged(TRUE)
  BY <1>2, StopManagedMaps
<1>3. ASSUME ~Busy PROVE disconnectRequested = FALSE
  BY <1>3, QuietUnlessBusy DEF TurnsOK
<1>4. CASE /\ ~Busy /\ managed /\ connState' = "Connected"
           /\ disconnectRequested' = (Connected /\ disconnectRequested)
           /\ UNCHANGED <<managed, pending>>
  <2>1. disconnectRequested' = disconnectRequested
    BY <1>3, <1>4
  <2> QED
    BY <1>4, <2>1 DEF Lifecycle!Next, Lifecycle!Resume, Lifecycle!Busy, Busy
<1>5. CASE ~Busy /\ (ConnectRejected \/ ConnectNotLaunched)
  <2>1. UNCHANGED <<disconnectRequested, managed, pending>> /\ connState' = "Error"
    BY <1>3, <1>5 DEF ConnectRejected, ConnectNotLaunched
  <2> QED
    BY <1>5, <2>1 DEF Lifecycle!Next, Lifecycle!Refuse, Lifecycle!Busy, Busy
<1>6. CASE ~Busy /\ ~managed /\ ConnectLaunched
  <2>1. UNCHANGED <<disconnectRequested, managed, pending>> /\ connState' = "Connecting"
        /\ managed' \in BOOLEAN
    BY <1>3, <1>6 DEF ConnectLaunched, IInv, GuiOK
  <2> QED
    BY <1>6, <2>1 DEF Lifecycle!Next, Lifecycle!Start, Lifecycle!Busy, Busy
<1> QED
  BY <1>1, <1>2, <1>4, <1>5, <1>6 DEF ConnectCall

LEMMA UserMaps ==
    ASSUME IInv, TurnsOK,
           \/ ToggleConnection
           \/ \E other \in BOOLEAN : ConnectToProfile(other)
           \/ SelectOther
           \/ \E other \in BOOLEAN : ReconnectFires(other)
    PROVE  Lifecycle!Next
<1>1. CASE ToggleConnection
  <2>1. CASE DisconnectCall
    <3>1. CASE managed
      BY <2>1, <3>1, StopManagedMaps DEF DisconnectCall, Lifecycle!Served
    <3>2. CASE ~managed
      <4>1. /\ connState' = "Disconnected" /\ ~managed' /\ ~disconnectRequested' /\ ~pending'
            /\ reconnects' = IF pending THEN reconnects + 1 ELSE reconnects
        BY <2>1, <3>2 DEF DisconnectCall, SettleDisconnected, MaybeReconnect
      <4>2. Lifecycle!Down
        BY <3>2, <4>1 DEF Lifecycle!Down
      <4> QED
        BY <4>2 DEF Lifecycle!Next
    <3> QED
      BY <3>1, <3>2
  <2>2. CASE ConnectCall(FALSE) /\ UNCHANGED reconnects
    BY <2>2, ConnectMaps DEF Lifecycle!Served
  <2> QED
    BY <1>1, <2>1, <2>2 DEF ToggleConnection
<1>2. ASSUME NEW other \in BOOLEAN, ConnectToProfile(other) PROVE Lifecycle!Next
  BY <1>2, ConnectMaps DEF ConnectToProfile, Lifecycle!Served
<1>3. CASE SelectOther
  BY <1>3, StopManagedMaps DEF SelectOther, Lifecycle!Served
<1>4. ASSUME NEW other \in BOOLEAN, ReconnectFires(other) PROVE Lifecycle!Next
  BY <1>4, ConnectMaps DEF ReconnectFires, Lifecycle!Served
<1> QED
  BY <1>1, <1>2, <1>3, <1>4

\* A queued call is that of the operation under way: a start comes up or is lost, and a stop
\* comes down.
LEMMA CompletionMaps ==
    ASSUME IInv, TurnsOK, NEW w \in WorkerIds, StartCompletes(w) \/ StopCompletes(w)
    PROVE  Lifecycle!Next
<1>1. Open(w) /\ (StartCompletes(w) => ~Stale(w))
  BY CompletionEndsTurn
<1>2. CASE StartCompletes(w)
  <2>1. /\ Busy /\ disconnectRequested = FALSE /\ workers[w].kind = "start"
        /\ UNCHANGED <<pending, reconnects>>
    BY <1>1, <1>2 DEF TurnsOK, StartCompletes, IsStart
  <2>2. CASE managed' = TRUE /\ disconnectRequested' = FALSE /\ connState' = "Connected"
    BY <2>1, <2>2 DEF Lifecycle!Next, Lifecycle!ComesUp, Lifecycle!Busy, Busy
  <2>3. CASE managed' = FALSE /\ connState' = "Error" /\ UNCHANGED disconnectRequested
    <3>1. ~pending
      BY <1>1, <2>1
      DEF TurnsOK, IInv, Promises, NothingLeftBehind, PendingOnlyWhileStopping, Open
    <3> QED
      BY <2>1, <2>3, <3>1 DEF Lifecycle!Next, Lifecycle!Lost
  <2> QED
    BY <1>1, <1>2, <2>2, <2>3 DEF StartCompletes
<1>3. CASE StopCompletes(w)
  <2>1. disconnectRequested = TRUE
    BY <1>1, <1>3 DEF TurnsOK, StopCompletes, IsStart
  <2>2. Lifecycle!Down
    BY <1>3, <2>1 DEF StopCompletes, MaybeReconnect, Lifecycle!Down
  <2> QED
    BY <2>2 DEF Lifecycle!Next
<1> QED
  BY <1>2, <1>3

LEMMA GuiStutters == UNCHANGED guiVars => UNCHANGED Lifecycle!vars
BY DEF guiVars, Lifecycle!vars

LEMMA StepMaps ==
    IInv /\ TurnsOK /\ [Next]_vars => [Lifecycle!Next]_(Lifecycle!vars)
<1> SUFFICES ASSUME IInv, TurnsOK, [Next]_vars
             PROVE  Lifecycle!Next \/ UNCHANGED Lifecycle!vars
  OBVIOUS
<1>1. CASE \/ ToggleConnection
           \/ \E other \in BOOLEAN : ConnectToProfile(other)
           \/ SelectOther
           \/ \E other \in BOOLEAN : ReconnectFires(other)
  BY <1>1, UserMaps
<1>2. ASSUME NEW w \in WorkerIds, StartCompletes(w) \/ StopCompletes(w)
      PROVE  Lifecycle!Next
  BY <1>2, CompletionMaps
<1>3. ASSUME NEW w \in WorkerIds, WorkerStep(w) PROVE UNCHANGED Lifecycle!vars
  BY <1>3, WorkerStepKeeps, GuiStutters DEF IInv, Progress
<1>4. ASSUME NEW r \in inbox, HelperStep(r) PROVE UNCHANGED Lifecycle!vars
  BY <1>4, HelperStepKeeps, GuiStutters DEF IInv, Progress
<1>5. CASE \/ \E h \in 1 .. MaxHelpers : HelperIdles(h)
           \/ \E pid \in alive : RuntimeExits(pid)
  BY <1>5, ExitKeeps, GuiStutters DEF IInv, Progress
<1>6. CASE UNCHANGED vars
  BY <1>6, GuiStutters DEF vars
<1> QED
  BY <1>1, <1>2, <1>3, <1>4, <1>5, <1>6 DEF Next

\* When the user waits for each operation to end, a tunnel that a privileged helper carries
\* goes through the states that one in a child process does, whatever the workers, the
\* helpers and the runtimes do, and also when their requests time out (connectToProfile,
\* disconnect, and the queued calls at the end of a start and of a stop).
THEOREM LifecycleImplemented == ~Overlap /\ Spec => ImplementsLifecycle
<1> SUFFICES ASSUME ~Overlap PROVE Spec => ImplementsLifecycle
  OBVIOUS
<1>1. Init => Lifecycle!Init
  BY DEF Init, Lifecycle!Init
<1>2. Init => IInv /\ TurnsOK
  BY InitEstablishes, InitTakesTurn
<1>3. IInv /\ TurnsOK /\ [Next]_vars => (IInv /\ TurnsOK)'
  BY StepPreserves, StepKeepsTurns
<1> QED
  BY <1>1, <1>2, <1>3, StepMaps, PTL DEF Spec, ImplementsLifecycle, Lifecycle!Spec

-----------------------------------------------------------------------------
(* One runtime at most, when moreover no request times out *)

USE DEF Untouched

Down == Untouched = {}

\* What runs untouched is what the pid file names, and the helper that the controller can
\* reach tracks it.  (The runtime may have exited.)
HasRuntime ==
    /\ pidFile # 0 /\ Untouched \subseteq {pidFile}
    /\ helperReady = TRUE /\ helper \in up /\ tracking[helper] = TRUE

\* startTun has launched a runtime that it does not track yet.
Launching == pidFile # 0 /\ Untouched \subseteq {pidFile}

Asks(w, action, running) ==
    /\ helper \in up
    /\ inbox = {[worker |-> w, helper |-> helper, action |-> action, running |-> running]}

\* What worker w relies on, from phase to phase.
At(w) ==
    LET phase == workers[w].phase IN
    /\ phase \in {"begin", "ensure", "launching"} =>
          inbox = {} /\ IF IsStart(w) THEN Down ELSE HasRuntime
    /\ phase = "waiting" => \/ Asks(w, "start_tun", FALSE) /\ Down
                            \/ Asks(w, "start_tun", TRUE) /\ Launching
    /\ phase = "answered" => inbox = {} /\ IF workers[w].ok = TRUE THEN HasRuntime ELSE Down
    /\ phase = "probing" => inbox = {} /\ HasRuntime
    /\ phase = "stopping" => Asks(w, "stop_tun", FALSE) /\ HasRuntime
    /\ phase = "stopped" => inbox = {} /\ Down
    /\ phase \notin {"cancelling", "cancelled"}
    /\ phase = "posted" =>
          inbox = {} /\ IF IsStart(w) /\ workers[w].ok = TRUE THEN HasRuntime ELSE Down

RuntimeOK ==
    /\ \A w \in WorkerIds : Open(w) => At(w)
    /\ Quiet => inbox = {} /\ IF managed THEN HasRuntime ELSE Down

SInv == IInv /\ TurnsOK /\ RuntimeOK

\* Whoever steps, the worker under way finds what it relies on.
LEMMA OnlyTheWorkerMatters ==
    ASSUME TurnsOK, SameWorkers, NEW w \in WorkerIds, Open(w), At(w)'
    PROVE  RuntimeOK'
<1>1. WorkerIds' = WorkerIds /\ (\A v \in WorkerIds : Open(v)' <=> Open(v))
  BY DEF SameWorkers, WorkerIds, Open
<1>2. \A v \in WorkerIds' : Open(v)' => v = w
  BY <1>1 DEF TurnsOK
<1>3. ~Quiet'
  BY <1>1 DEF Quiet, Open
<1> QED
  BY <1>2, <1>3 DEF RuntimeOK

LEMMA MovedRecord ==
    ASSUME PoolOK, NEW w \in WorkerIds, NEW phase, workers' = Moved(w, phase)
    PROVE  /\ workers'[w].phase = phase
           /\ workers'[w].kind = workers[w].kind /\ workers'[w].ok = workers[w].ok
<1>1. workers \in Seq(WorkerType) /\ w \in 1 .. Len(workers) /\ workers[w] \in WorkerType
  BY DEF PoolOK, WorkerIds
<1> QED
  BY <1>1 DEF Moved, WorkerType

LEMMA AnsweredRecord ==
    ASSUME PoolOK, NEW w \in WorkerIds, NEW phase \in Phases, NEW ok \in BOOLEAN,
           workers' = [workers EXCEPT ![w].phase = phase, ![w].ok = ok]
    PROVE  /\ workers'[w].phase = phase
           /\ workers'[w].kind = workers[w].kind /\ workers'[w].ok = ok
<1>1. workers \in Seq(WorkerType) /\ w \in 1 .. Len(workers) /\ workers[w] \in WorkerType
  BY DEF PoolOK, WorkerIds
<1> QED
  BY <1>1 DEF WorkerType

LEMMA PostedRecord ==
    ASSUME PoolOK, NEW w \in WorkerIds, NEW ok \in BOOLEAN, Posted(w, ok)
    PROVE  /\ workers'[w].phase = "posted"
           /\ workers'[w].kind = workers[w].kind /\ workers'[w].ok = ok
<1>1. "posted" \in Phases
  BY DEF Phases
<1>2. workers' = [workers EXCEPT ![w].phase = "posted", ![w].ok = ok]
  BY DEF Posted
<1> QED
  BY <1>1, <1>2, AnsweredRecord

LEMMA WorkerStepReliesOn ==
    ASSUME ~TimeOuts, SInv, NEW w \in WorkerIds, WorkerStep(w)
    PROVE  Open(w) /\ At(w)'
<1> USE DEF guiVars, helperVars, InPhase
<1>1. PoolOK /\ HelpersOK /\ TurnsOK
  BY DEF SInv, IInv
<1>2. Open(w)
  BY DEF WorkerStep, StartBegins, HelperFound, PingFails, HelperLaunched, HelperRefused,
         PidRead, ProbeFails, ProbeSucceeds, StartAborted, CancelEnds, StopBegins,
         StopAnswered, RequestFails, Open, Awaiting
<1>3. At(w)
  BY <1>2 DEF SInv, RuntimeOK
<1> SUFFICES At(w)'
  BY <1>2
<1>4. CASE StartBegins(w)
  <2>1. inbox = {} /\ Down
    BY <1>3, <1>4 DEF StartBegins, At, IsStart
  <2>2. workers'[w].phase = "ensure" /\ workers'[w].kind = "start"
    BY <1>1, <1>4, MovedRecord DEF StartBegins
  <2> QED
    BY <1>4, <2>1, <2>2 DEF StartBegins, At, IsStart, Down
<1>5. CASE HelperFound(w)
  <2>1. inbox = {} /\ Down
    BY <1>3, <1>5 DEF HelperFound, At, IsStart
  <2>2. workers'[w].phase = "waiting"
    BY <1>1, <1>5, MovedRecord DEF HelperFound, Asked
  <2>3. Asks(w, "start_tun", FALSE)' /\ Down'
    BY <1>5, <2>1 DEF HelperFound, Asked, Asks, Down
  <2> QED
    BY <2>2, <2>3 DEF At
<1>6. CASE PingFails(w)
  <2>1. inbox = {} /\ Down
    BY <1>3, <1>6 DEF PingFails, At, IsStart
  <2>2. workers'[w].phase = "launching" /\ workers'[w].kind = "start"
    BY <1>1, <1>6, MovedRecord DEF PingFails
  <2> QED
    BY <1>6, <2>1, <2>2 DEF PingFails, At, IsStart, Down
<1>7. ASSUME NEW h \in 1 .. MaxHelpers, HelperLaunched(w, h) PROVE At(w)'
  <2>1. inbox = {} /\ Down
    BY <1>3, <1>7 DEF HelperLaunched, At, IsStart
  <2>2. workers'[w].phase = "waiting"
    BY <1>1, <1>7, MovedRecord DEF HelperLaunched, Asked
  <2>3. Asks(w, "start_tun", FALSE)' /\ Down'
    BY <1>7, <2>1 DEF HelperLaunched, Asked, Asks, Down
  <2> QED
    BY <2>2, <2>3 DEF At
<1>8. CASE HelperRefused(w)
  <2>1. inbox = {} /\ Down
    BY <1>3, <1>8 DEF HelperRefused, At, IsStart
  <2>2. workers'[w].phase = "posted" /\ workers'[w].ok = FALSE
    BY <1>1, <1>8, PostedRecord DEF HelperRefused
  <2> QED
    BY <1>8, <2>1, <2>2 DEF HelperRefused, At, Down
<1>9. CASE PidRead(w)
  <2>1. inbox' = {} /\ UNCHANGED <<helper, helperReady, tracking, up, alive, spared, pidFile>>
    BY <1>3, <1>9 DEF PidRead, At
  <2>2. CASE workers[w].ok
    <3>1. HasRuntime /\ HasRuntime'
      BY <1>3, <1>9, <2>1, <2>2 DEF PidRead, At, HasRuntime
    <3>2. workers'[w].phase = "probing"
      BY <1>1, <1>9, <2>2, <3>1, MovedRecord DEF PidRead, HasRuntime
    <3> QED
      BY <2>1, <3>1, <3>2 DEF At
  <2>3. CASE ~workers[w].ok
    <3>1. Down'
      BY <1>3, <1>9, <2>1, <2>3 DEF PidRead, At, Down
    <3>2. workers'[w].phase = "posted" /\ workers'[w].ok = FALSE
      BY <1>1, <1>9, <2>3, PostedRecord DEF PidRead
    <3> QED
      BY <2>1, <3>1, <3>2 DEF At
  <2> QED
    BY <2>2, <2>3
<1>10. CASE ProbeFails(w)
  <2>1. inbox = {} /\ HasRuntime
    BY <1>3, <1>10 DEF ProbeFails, At
  <2>2. Asked(w, "stop_tun", helper, "stopping")
    BY <1>10, <2>1 DEF ProbeFails, AsksToStop, HasRuntime
  <2>3. workers'[w].phase = "stopping"
    BY <1>1, <2>2, MovedRecord DEF Asked
  <2>4. Asks(w, "stop_tun", FALSE)' /\ HasRuntime'
    BY <1>10, <2>1, <2>2 DEF ProbeFails, Asked, Asks, HasRuntime
  <2> QED
    BY <2>3, <2>4 DEF At
<1>11. CASE ProbeSucceeds(w)
  <2>1. inbox = {} /\ HasRuntime
    BY <1>3, <1>11 DEF ProbeSucceeds, At
  <2>2. ~Cancelled(w)
    BY <1>1, <1>2, <1>11 DEF ProbeSucceeds, TurnsOK, IsStart, Cancelled
  <2>3. workers'[w].phase = "posted"
    BY <1>1, <1>11, <2>2, PostedRecord DEF ProbeSucceeds
  <2>4. workers'[w].kind = "start" /\ workers'[w].ok = TRUE
    BY <1>1, <1>11, <2>2, PostedRecord DEF ProbeSucceeds
  <2>5. inbox' = {} /\ HasRuntime'
    BY <1>11, <2>1, <2>2 DEF ProbeSucceeds, HasRuntime
  <2> QED
    BY <2>3, <2>4, <2>5 DEF At, IsStart
<1>12. CASE StartAborted(w)
  <2>1. inbox = {} /\ Down
    BY <1>3, <1>12 DEF StartAborted, At
  <2>2. workers'[w].phase = "posted" /\ workers'[w].ok = FALSE
    BY <1>1, <1>12, PostedRecord DEF StartAborted
  <2> QED
    BY <1>12, <2>1, <2>2 DEF StartAborted, At, Down
<1>13. ~CancelEnds(w)
  BY <1>3 DEF CancelEnds, At
<1>14. CASE StopBegins(w)
  <2>1. inbox = {} /\ HasRuntime
    BY <1>3, <1>14 DEF StopBegins, At, IsStart
  <2>2. Asked(w, "stop_tun", helper, "stopping")
    BY <1>14, <2>1 DEF StopBegins, AsksToStop, HasRuntime
  <2>3. workers'[w].phase = "stopping"
    BY <1>1, <2>2, MovedRecord DEF Asked
  <2>4. Asks(w, "stop_tun", FALSE)' /\ HasRuntime'
    BY <1>14, <2>1, <2>2 DEF StopBegins, Asked, Asks, HasRuntime
  <2> QED
    BY <2>3, <2>4 DEF At
<1>15. CASE StopAnswered(w)
  <2>1. inbox = {} /\ Down
    BY <1>3, <1>15 DEF StopAnswered, At
  <2>2. workers'[w].phase = "posted" /\ workers'[w].kind = "stop"
    BY <1>1, <1>15, AnswersAreBoolean, PostedRecord DEF StopAnswered
  <2> QED
    BY <1>15, <2>1, <2>2 DEF StopAnswered, At, Down, IsStart
<1>16. ~RequestFails(w)
  <2> SUFFICES ASSUME RequestFails(w) PROVE FALSE
    OBVIOUS
  <2>1. PICK action, running : Asks(w, action, running)
    BY <1>3 DEF RequestFails, Awaiting, At
  <2>2. \A r \in inbox : r.worker = w /\ r.helper = helper
    BY <2>1 DEF Asks
  <2>3. inbox # {} /\ helper \in up
    BY <2>1 DEF Asks
  <2>4. RequestOf(w) \in inbox
    BY <2>2, <2>3 DEF RequestOf
  <2> QED
    BY <2>2, <2>3, <2>4 DEF RequestFails
<1> QED
  BY <1>4, <1>5, <1>6, <1>7, <1>8, <1>9, <1>10, <1>11, <1>12, <1>13, <1>14, <1>15, <1>16
  DEF WorkerStep

\* The only request there can be is that of the worker under way.
LEMMA RequestIsOfTheWorker ==
    ASSUME SInv, NEW r \in inbox
    PROVE  \E w \in WorkerIds :
              /\ Open(w) /\ At(w) /\ r.worker = w /\ r.helper = helper /\ inbox = {r}
              /\ \/ /\ workers[w].phase = "waiting" /\ r.action = "start_tun"
                    /\ \/ r.running = FALSE /\ Down
                       \/ r.running = TRUE /\ Launching
                 \/ /\ workers[w].phase = "stopping" /\ r.action = "stop_tun"
                    /\ r.running = FALSE /\ HasRuntime
<1>1. ~Quiet
  BY DEF SInv, RuntimeOK
<1>2. PICK w \in WorkerIds : Open(w)
  BY <1>1 DEF Quiet, Open
<1>3. At(w)
  BY <1>2 DEF SInv, RuntimeOK
<1>4. workers[w].phase \in Phases \ {"done"}
  <2>1. workers[w] \in WorkerType
    BY DEF SInv, IInv, PoolOK, WorkerIds
  <2> QED
    BY <1>2, <2>1 DEF WorkerType, Open
<1>5. workers[w].phase \in {"waiting", "stopping"}
  BY <1>3, <1>4 DEF At, Phases
<1>6. CASE workers[w].phase = "waiting"
  <2>1. PICK running \in BOOLEAN :
            /\ Asks(w, "start_tun", running)
            /\ IF running THEN Launching ELSE Down
    BY <1>3, <1>6 DEF At
  <2>2. /\ r.worker = w /\ r.helper = helper /\ r.action = "start_tun" /\ r.running = running
        /\ inbox = {r}
    BY <2>1 DEF Asks
  <2> QED
    BY <1>2, <1>3, <1>6, <2>1, <2>2
<1>7. CASE workers[w].phase = "stopping"
  <2>1. PICK running \in BOOLEAN : running = FALSE /\ Asks(w, "stop_tun", running) /\ HasRuntime
    BY <1>3, <1>7 DEF At
  <2>2. /\ r.worker = w /\ r.helper = helper /\ r.action = "stop_tun" /\ r.running = running
        /\ inbox = {r}
    BY <2>1 DEF Asks
  <2> QED
    BY <1>2, <1>3, <1>7, <2>1, <2>2
<1> QED
  BY <1>5, <1>6, <1>7

LEMMA AnswerReaches ==
    ASSUME PoolOK, NEW r \in inbox, inbox = {r}, r.worker \in WorkerIds, NEW ok \in BOOLEAN,
           workers[r.worker].phase \in {"waiting", "stopping"}, Answered(r, ok)
    PROVE  /\ inbox' = {} /\ helperReady' = TRUE
           /\ UNCHANGED <<helper, up>>
           /\ workers'[r.worker].phase =
                 (IF workers[r.worker].phase = "waiting" THEN "answered" ELSE "stopped")
           /\ workers'[r.worker].ok = ok
<1> DEFINE w == r.worker
<1>1. workers[w] \in WorkerType
  BY DEF PoolOK, WorkerIds
<1>2. workers' = [workers EXCEPT ![w].phase = AfterAnswer(workers[w].phase), ![w].ok = ok]
  BY <1>1 DEF Answered, Awaiting, PoolOK, WorkerType, WorkerIds
<1>3. workers'[w].phase = AfterAnswer(workers[w].phase) /\ workers'[w].ok = ok
  <2>1. AfterAnswer(workers[w].phase) \in Phases
    BY DEF AfterAnswer, Phases
  <2> QED
    BY <1>2, <2>1, AnsweredRecord
<1> QED
  BY <1>3 DEF Answered, AfterAnswer, Awaiting

LEMMA RunningIsMarked ==
    ASSUME NEW w, NEW h, NEW a, NEW before, NEW after
    PROVE  [[worker |-> w, helper |-> h, action |-> a, running |-> before]
                EXCEPT !.running = after]
              = [worker |-> w, helper |-> h, action |-> a, running |-> after]
OBVIOUS

LEMMA HelperStepServes ==
    ASSUME SInv, NEW r \in inbox, HelperStep(r)
    PROVE  \E w \in WorkerIds : Open(w) /\ At(w)'
<1>1. PICK w \in WorkerIds :
        /\ Open(w) /\ At(w) /\ r.worker = w /\ r.helper = helper /\ inbox = {r}
        /\ \/ /\ workers[w].phase = "waiting" /\ r.action = "start_tun"
              /\ \/ r.running = FALSE /\ Down
                 \/ r.running = TRUE /\ Launching
           \/ /\ workers[w].phase = "stopping" /\ r.action = "stop_tun"
              /\ r.running = FALSE /\ HasRuntime
  BY RequestIsOfTheWorker
<1> SUFFICES At(w)'
  BY <1>1
<1>2. PoolOK /\ helper \in 1 .. MaxHelpers /\ tracking \in [1 .. MaxHelpers -> BOOLEAN]
      /\ launched \in Nat
  <2>1. helper \in up
    BY <1>1 DEF At, Asks
  <2> QED
    BY <2>1 DEF SInv, IInv, HelpersOK
<1>3. CASE RuntimeLaunched(r)
  <2>1. workers[w].phase = "waiting" /\ r.running = FALSE /\ Down
    BY <1>1, <1>3 DEF RuntimeLaunched, NextRequest
  <2>2. /\ pidFile' = launched + 1 /\ Untouched' \subseteq {launched + 1}
        /\ UNCHANGED <<workers, helper, up>>
    BY <1>3, <2>1 DEF RuntimeLaunched, Spare, Down, poolVars
  <2>3. Launching'
    BY <1>2, <2>2 DEF Launching
  <2>4. PICK no \in BOOLEAN :
          r = [worker |-> w, helper |-> helper, action |-> "start_tun", running |-> no]
    BY <1>1, <2>1 DEF At, Asks
  <2>5. PICK yes \in BOOLEAN : yes = TRUE
    OBVIOUS
  <2>6. inbox' = {[r EXCEPT !.running = yes]}
    BY <1>1, <1>3, <2>5 DEF RuntimeLaunched
  <2>7. [r EXCEPT !.running = yes]
           = [worker |-> w, helper |-> helper, action |-> "start_tun", running |-> yes]
    BY <2>4, RunningIsMarked
  <2>8. Asks(w, "start_tun", yes)'
    BY <1>1, <2>1, <2>2, <2>6, <2>7 DEF At, Asks
  <2> QED
    BY <2>1, <2>2, <2>3, <2>5, <2>8 DEF At
<1>4. CASE StartServed(r)
  <2>1. workers[w].phase = "waiting" /\ Launching
    BY <1>1, <1>4 DEF StartServed
  <2>2. /\ inbox' = {} /\ helperReady' = TRUE /\ UNCHANGED <<helper, up, alive, spared, pidFile>>
        /\ workers'[w].phase = "answered"
    BY <1>1, <1>2, <1>4, <2>1, AnswerReaches DEF StartServed
  <2>3. HasRuntime'
    <3>1. helper \in up
      BY <1>1, <2>1 DEF At, Asks
    <3>2. tracking'[helper] = TRUE
      BY <1>1, <1>2, <1>4 DEF StartServed
    <3> QED
      BY <2>1, <2>2, <3>1, <3>2 DEF Launching, HasRuntime
  <2>4. workers'[w].ok = TRUE
    BY <1>1, <1>2, <1>4, <2>1, AnswerReaches DEF StartServed
  <2> QED
    BY <2>2, <2>3, <2>4 DEF At
<1>5. ~StartLosesPid(r)
  BY <1>1 DEF StartLosesPid, Launching
<1>6. CASE Down' /\ workers[w].phase = "waiting" /\ Answered(r, FALSE)
  <2>1. inbox' = {} /\ workers'[w].phase = "answered" /\ workers'[w].ok = FALSE
    BY <1>1, <1>2, <1>6, AnswerReaches
  <2> QED
    BY <1>6, <2>1 DEF At
<1>7. CASE RoutesFail(r)
  <2>1. workers[w].phase = "waiting" /\ Launching
    BY <1>1, <1>7 DEF RoutesFail
  <2>2. Down'
    BY <1>7, <2>1 DEF RoutesFail, MayHit, Spare, Launching, Down
  <2> QED
    BY <1>6, <1>7, <2>1, <2>2 DEF RoutesFail
<1>8. CASE StartRefused(r)
  <2>1. workers[w].phase = "waiting" /\ r.running = FALSE /\ Down
    BY <1>1, <1>8 DEF StartRefused, NextRequest
  <2>2. Down'
    BY <1>8, <2>1 DEF StartRefused, MayHit, Spare, Down
  <2> QED
    BY <1>6, <1>8, <2>1, <2>2 DEF StartRefused
<1>9. CASE StopServed(r)
  <2>1. workers[w].phase = "stopping" /\ HasRuntime
    BY <1>1, <1>9 DEF StopServed
  <2>2. Down'
    BY <1>9, <2>1 DEF StopServed, KillByPidFile, Hit, Spare, HasRuntime, Down
  <2>3. inbox' = {} /\ workers'[w].phase = "stopped"
    BY <1>1, <1>2, <1>9, <2>1, AnswerReaches DEF StopServed
  <2> QED
    BY <2>2, <2>3 DEF At
<1>10. CASE StopFails(r)
  <2>1. workers[w].phase = "stopping" /\ HasRuntime
    BY <1>1, <1>10 DEF StopFails
  <2>2. Down'
    BY <1>10, <2>1 DEF StopFails, MayHit, Spare, HasRuntime, Down
  <2>3. inbox' = {} /\ workers'[w].phase = "stopped"
    BY <1>1, <1>2, <1>10, <2>1, AnswerReaches DEF StopFails
  <2> QED
    BY <2>2, <2>3 DEF At
<1> QED
  BY <1>3, <1>4, <1>5, <1>7, <1>8, <1>9, <1>10 DEF HelperStep

\* A helper that is in use does not idle, and a runtime that exits is not missed.
LEMMA ExitsAreHarmless ==
    ASSUME SInv,
           \/ \E h \in 1 .. MaxHelpers : HelperIdles(h)
           \/ \E pid \in alive : RuntimeExits(pid)
    PROVE  RuntimeOK'
<1>1. /\ UNCHANGED <<guiVars, poolVars, inbox, tracking, pidFile>>
      /\ Untouched' \subseteq Untouched
  BY DEF HelperIdles, RuntimeExits, Hit, Spare
<1>2. ASSUME helper \in up, helper \in 1 .. MaxHelpers,
             tracking[helper] = TRUE \/ Serving(helper)
      PROVE  helper \in up'
  BY <1>2 DEF HelperIdles, RuntimeExits
<1>3. up \subseteq 1 .. MaxHelpers
  BY DEF SInv, IInv, HelpersOK
<1>4. Down => Down'
  BY <1>1 DEF Down
<1>5. HasRuntime => HasRuntime'
  BY <1>1, <1>2, <1>3 DEF HasRuntime, poolVars
<1>6. Launching => Launching'
  BY <1>1 DEF Launching
<1>7. ASSUME NEW w \in WorkerIds, NEW action, NEW running, Asks(w, action, running)
      PROVE  Asks(w, action, running)'
  <2>1. Serving(helper)
    BY <1>7 DEF Asks, Serving
  <2> QED
    BY <1>1, <1>2, <1>3, <1>7, <2>1 DEF Asks, poolVars
<1>8. WorkerIds' = WorkerIds /\ workers' = workers /\ managed' = managed /\ (Quiet' <=> Quiet)
  BY <1>1 DEF poolVars, guiVars, WorkerIds, Quiet
<1>9. ASSUME NEW w \in WorkerIds, At(w) PROVE At(w)'
  BY <1>1, <1>4, <1>5, <1>6, <1>7, <1>8, <1>9 DEF At, IsStart
<1> QED
  BY <1>1, <1>4, <1>5, <1>8, <1>9 DEF SInv, RuntimeOK, Open

\* What a command does to the pool: it leaves it alone, or starts a worker when none is
\* under way.
LEMMA UserStartsOneWorker ==
    ASSUME ~Overlap, SInv,
           \/ ToggleConnection
           \/ \E other \in BOOLEAN : ConnectToProfile(other)
           \/ SelectOther
           \/ \E other \in BOOLEAN : ReconnectFires(other)
    PROVE  /\ UNCHANGED <<managed, helper, helperReady, helperVars>>
           /\ \/ workers' = workers
              \/ Quiet /\ managed /\ Added("stop")
              \/ Quiet /\ ~managed /\ Added("start")
<1>1. PoolOK /\ HelpersOK /\ attempt \in 0 .. MaxAttempts /\ pending \in BOOLEAN
  BY DEF SInv, IInv, GuiOK
<1>2. UNCHANGED helperVars
  BY DEF ToggleConnection, ConnectToProfile, SelectOther, ReconnectFires
<1>3. ASSUME NEW row, StopManaged(row), managed, Quiet
      PROVE  UNCHANGED <<managed, helper, helperReady>> /\ Added("stop")
  BY <1>1, <1>2, <1>3, StartWorkerAdds DEF StopManaged, StartWorker
<1>4. ASSUME ConnectLaunched
      PROVE  UNCHANGED <<managed, helper, helperReady>> /\ Added("start")
  BY <1>1, <1>2, <1>4, StartWorkerAdds DEF ConnectLaunched, StartWorker
<1>5. CASE \E other \in BOOLEAN : ConnectCall(other)
  <2>1. ~Busy => Quiet
    BY QuietUnlessBusy DEF SInv
  <2>2. CASE Busy
    BY <1>2, <1>5, <2>2 DEF ConnectCall, poolVars
  <2>3. CASE ~Busy
    BY <1>2, <1>3, <1>4, <1>5, <2>1, <2>3
    DEF ConnectCall, ConnectRejected, ConnectNotLaunched, poolVars
  <2> QED
    BY <2>2, <2>3
<1>6. CASE DisconnectCall /\ Quiet
  BY <1>2, <1>3, <1>6 DEF DisconnectCall, SettleDisconnected, poolVars
<1>7. CASE SelectOther
  BY <1>2, <1>3, <1>7 DEF SelectOther, MayAct
<1> QED
  BY <1>5, <1>6, <1>7 DEF ToggleConnection, ConnectToProfile, ReconnectFires, MayAct

LEMMA UserKeepsRuntime ==
    ASSUME ~Overlap, SInv,
           \/ ToggleConnection
           \/ \E other \in BOOLEAN : ConnectToProfile(other)
           \/ SelectOther
           \/ \E other \in BOOLEAN : ReconnectFires(other)
    PROVE  RuntimeOK'
<1>1. /\ UNCHANGED <<managed, helper, helperReady, helperVars>>
      /\ \/ workers' = workers
         \/ Quiet /\ managed /\ Added("stop")
         \/ Quiet /\ ~managed /\ Added("start")
  BY UserStartsOneWorker
<1>2. /\ (Down' <=> Down) /\ (HasRuntime' <=> HasRuntime) /\ (Launching' <=> Launching)
      /\ inbox' = inbox
  BY <1>1 DEF helperVars, Down, HasRuntime, Launching
<1>3. CASE workers' = workers
  <2>1. WorkerIds' = WorkerIds /\ (Quiet' <=> Quiet)
    BY <1>3 DEF WorkerIds, Quiet
  <2>2. \A w \in WorkerIds : At(w)' <=> At(w)
    BY <1>1, <1>2, <1>3 DEF At, Asks, IsStart, helperVars
  <2> QED
    BY <1>1, <1>2, <1>3, <2>1, <2>2 DEF SInv, RuntimeOK, Open
<1>4. CASE Quiet /\ \E kind \in {"start", "stop"} :
                     Added(kind) /\ (kind = "stop" <=> managed)
  <2>1. PICK kind \in {"start", "stop"} : Added(kind) /\ (kind = "stop" <=> managed)
    BY <1>4
  <2>2. inbox = {} /\ IF managed THEN HasRuntime ELSE Down
    BY <1>4 DEF SInv, RuntimeOK
  <2>3. PICK n : n = Len(workers) + 1
    OBVIOUS
  <2>4. n \in Int /\ WorkerIds' = WorkerIds \union {n} /\ n \notin WorkerIds
    BY <2>1, <2>3 DEF SInv, IInv, PoolOK, Added, WorkerIds
  <2>5. workers'[n].phase = "begin" /\ workers'[n].kind = kind
    BY <2>1, <2>3 DEF Added
  <2>6. \A w \in WorkerIds' : Open(w)' => w = n
    BY <1>4, <2>1, <2>4 DEF Added, Quiet, Open
  <2>7. At(n)'
    BY <1>2, <2>1, <2>2, <2>5 DEF At, IsStart
  <2>8. ~Quiet'
    BY <2>4, <2>5 DEF Quiet
  <2> QED
    BY <2>6, <2>7, <2>8 DEF RuntimeOK
<1> QED
  BY <1>1, <1>3, <1>4

LEMMA CompletionSettlesRuntime ==
    ASSUME SInv, NEW w \in WorkerIds, StartCompletes(w) \/ StopCompletes(w)
    PROVE  RuntimeOK'
<1>1. /\ Closed(w) /\ Open(w) /\ (StartCompletes(w) => ~Stale(w))
      /\ Quiet'
  BY CompletionEndsTurn DEF SInv
<1>2. At(w) /\ workers[w].phase = "posted"
  BY <1>1 DEF SInv, RuntimeOK, Closed
<1>3. inbox' = {} /\ UNCHANGED <<helper, helperReady, tracking, up, alive, spared>>
  BY <1>2 DEF At, StartCompletes, StopCompletes, Handled
<1>4. IF managed' THEN HasRuntime' ELSE Down'
  <2>1. CASE StartCompletes(w) /\ workers[w].ok
    <3>1. HasRuntime /\ managed' = TRUE /\ pidFile' = pidFile
      BY <1>1, <1>2, <2>1 DEF At, StartCompletes, IsStart
    <3> QED
      BY <1>3, <3>1 DEF HasRuntime
  <2>2. CASE StartCompletes(w) /\ ~workers[w].ok
    <3>1. Down /\ managed' = FALSE
      BY <1>1, <1>2, <2>2 DEF At, StartCompletes
    <3> QED
      BY <1>3, <3>1 DEF Down
  <2>3. CASE StopCompletes(w)
    <3>1. Down /\ managed' = FALSE
      BY <1>2, <2>3 DEF At, StopCompletes, IsStart
    <3> QED
      BY <1>3, <3>1 DEF Down
  <2> QED
    BY <2>1, <2>2, <2>3
<1> QED
  BY <1>1, <1>3, <1>4 DEF RuntimeOK, Quiet, Open

LEMMA StepKeepsSerial ==
    ASSUME ~Overlap, ~TimeOuts, SInv, [Next]_vars
    PROVE  SInv'
<1>1. IInv' /\ TurnsOK'
  BY StepPreserves, StepKeepsTurns DEF SInv
<1>2. PoolOK /\ HelpersOK /\ TurnsOK
  BY DEF SInv, IInv
<1> SUFFICES RuntimeOK'
  BY <1>1 DEF SInv
<1>3. CASE \/ ToggleConnection
           \/ \E other \in BOOLEAN : ConnectToProfile(other)
           \/ SelectOther
           \/ \E other \in BOOLEAN : ReconnectFires(other)
  BY <1>3, UserKeepsRuntime
<1>4. ASSUME NEW w \in WorkerIds, StartCompletes(w) \/ StopCompletes(w) PROVE RuntimeOK'
  BY <1>4, CompletionSettlesRuntime
<1>5. ASSUME NEW w \in WorkerIds, WorkerStep(w) PROVE RuntimeOK'
  BY <1>2, <1>5, WorkerStepReliesOn, WorkerStepKeeps, OnlyTheWorkerMatters DEF Progress
<1>6. ASSUME NEW r \in inbox, HelperStep(r) PROVE RuntimeOK'
  BY <1>2, <1>6, HelperStepServes, HelperStepKeeps, OnlyTheWorkerMatters DEF Progress
<1>7. CASE \/ \E h \in 1 .. MaxHelpers : HelperIdles(h)
           \/ \E pid \in alive : RuntimeExits(pid)
  BY <1>7, ExitsAreHarmless
<1>8. CASE UNCHANGED vars
  <2>1. UNCHANGED <<workers, managed, helper, helperReady, inbox, tracking, up, alive, spared,
                    pidFile>>
    BY <1>8 DEF vars, guiVars, poolVars, helperVars
  <2> QED
    BY <2>1 DEF SInv, RuntimeOK, WorkerIds, Quiet, Open, At, Asks, IsStart, Down, HasRuntime,
                Launching
<1> QED
  BY <1>3, <1>4, <1>5, <1>6, <1>7, <1>8 DEF Next

LEMMA OneAtMost == SInv => NoRuntimeLeft
<1> SUFFICES ASSUME SInv PROVE NoRuntimeLeft
  OBVIOUS
<1>1. Untouched \subseteq {pidFile}
  <2>1. CASE Quiet
    BY <2>1 DEF SInv, RuntimeOK, HasRuntime, Down
  <2>2. CASE ~Quiet
    <3>1. PICK w \in WorkerIds : Open(w)
      BY <2>2 DEF Quiet, Open
    <3>2. At(w)
      BY <3>1 DEF SInv, RuntimeOK
    <3>3. workers[w] \in WorkerType
      BY DEF SInv, IInv, PoolOK, WorkerIds
    <3>4. workers[w].phase \in Phases \ {"done"}
      BY <3>1, <3>3 DEF WorkerType, Open
    <3> QED
      BY <3>2, <3>4 DEF At, Phases, HasRuntime, Launching, Down
  <2> QED
    BY <2>1, <2>2
<1>2. Cardinality(Untouched) <= 1
  <2>1. IsFiniteSet({pidFile}) /\ Cardinality({pidFile}) = 1
    BY FS_Singleton
  <2>2. Cardinality(Untouched) <= Cardinality({pidFile})
    BY <1>1, <2>1, FS_Subset
  <2> QED
    BY <2>1, <2>2
<1>3. Quiet /\ ~managed => Untouched = {}
  BY DEF SInv, RuntimeOK, Down
<1> QED
  BY <1>2, <1>3 DEF NoRuntimeLeft

\* When the user waits for each operation to end and no request times out, there is one
\* runtime at most that no helper has tried to stop, and none once the tunnel is down,
\* however runtimes exit or outlive the attempt to stop them, helpers idle or are refused,
\* routes and stops fail and probes are not answered (startPrivilegedTunProcess,
\* stopPrivilegedTunProcess, startTun, stopTun).
THEOREM NoRuntimeLeftAlways == ~Overlap /\ ~TimeOuts /\ Spec => []NoRuntimeLeft
<1> SUFFICES ASSUME ~Overlap, ~TimeOuts PROVE Spec => []NoRuntimeLeft
  OBVIOUS
<1>1. Init => SInv
  <2> SUFFICES ASSUME Init PROVE SInv
    OBVIOUS
  <2>1. RuntimeOK
    BY DEF Init, RuntimeOK, WorkerIds, Down
  <2> QED
    BY <2>1, InitEstablishes, InitTakesTurn DEF SInv
<1>2. SInv /\ [Next]_vars => SInv'
  BY StepKeepsSerial
<1> QED
  BY <1>1, <1>2, OneAtMost, PTL DEF Spec
=============================================================================
