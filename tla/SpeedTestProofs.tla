--------------------------- MODULE SpeedTestProofs ---------------------------
(***************************************************************************)
(* Proofs about SpeedTest, for every number of probes and endpoints, both  *)
(* modes, every stall limit and every number of tests.                     *)
(*                                                                         *)
(* The inductive invariant adds two things to what is to be proved: how    *)
(* many timers and sockets there are, from which the bounds of the counts  *)
(* follow although those of earlier tests count, too; and that an upload   *)
(* under way has a download behind it.                                     *)
(***************************************************************************)
EXTENDS SpeedTest, TLAPS

Phases == {"Idle", "Latency", "Download", "Upload", "Completed", "Cancelled", "Failed"}

\* A test has one latency timer or socket of its own at most; the others are of earlier
\* tests.  What has been answered was counted as a probe of this test, or was the socket of
\* an earlier one.
TimersCounted ==
    /\ calls.own + sockets.own <= 1
    /\ calls.own + calls.old + sockets.own + sockets.old <= MaxTimers
    /\ t.answered + sockets.own + sockets.old <= t.probed + MaxTimers

UploadIsMeasured == t.running /\ t.phase = "Upload" => t.down

IInv == TypeOK /\ TimersCounted /\ UploadIsMeasured /\ TestIsSound

USE SpeedTestAssumption

-----------------------------------------------------------------------------
(* What the operators on the test's fields do.  x stands for t as the caller leaves it. *)

LEMMA NoReplyType == NoReply \in ReplyType /\ NoReply.kind = "none"
BY DEF NoReply, ReplyType, Full

\* The figures of the probes are left alone.
SameProbes(x, y) == y.probed = x.probed /\ y.answered = x.answered

LEMMA FinishEnds ==
    \A x \in TestType, phase \in Phases :
        Finish(x, phase) =>
            /\ t' \in TestType /\ SameProbes(x, t')
            /\ ~t'.running /\ t'.phase = phase /\ t'.down = x.down
            /\ reply' \in ReplyType /\ reply'.kind = "none"
<1> SUFFICES ASSUME NEW x \in TestType, NEW phase \in Phases, Finish(x, phase)
             PROVE  /\ t' \in TestType /\ SameProbes(x, t')
                    /\ ~t'.running /\ t'.phase = phase /\ t'.down = x.down
                    /\ reply' \in ReplyType /\ reply'.kind = "none"
  OBVIOUS
<1>1. t' = [x EXCEPT !.running = FALSE, !.phase = phase] /\ reply' = NoReply
  BY DEF Finish
<1>2. t' \in TestType
  BY <1>1 DEF TestType, Phases
<1>3. /\ ~t'.running /\ t'.phase = phase /\ t'.down = x.down
      /\ t'.probed = x.probed /\ t'.answered = x.answered
  BY <1>1 DEF TestType
<1> QED
  BY <1>1, <1>2, <1>3, NoReplyType DEF SameProbes

\* A request of `phase' is on its way, or the endpoints have run out.
Requested(x, phase) ==
    /\ t' \in TestType /\ SameProbes(x, t')
    /\ t'.down = x.down /\ t'.direct = x.direct
    /\ reply' \in ReplyType
    /\ \/ ~t'.running /\ t'.phase = "Failed" /\ reply'.kind = "none"
       \/ /\ t'.running = x.running /\ t'.phase = phase
          /\ reply'.kind = IF phase = "Upload" THEN "post" ELSE "get"

LEMMA RequestStarts ==
    \A x \in TestType : StartRequest(x) => Requested(x, x.phase)
<1> SUFFICES ASSUME NEW x \in TestType, StartRequest(x) PROVE Requested(x, x.phase)
  OBVIOUS
<1>1. CASE ~HasEndpoint(x)
  <2>1. t' = [x EXCEPT !.running = FALSE, !.phase = "Failed"] /\ reply' = NoReply
    BY <1>1 DEF StartRequest, Finish
  <2>2. t' \in TestType
    BY <2>1 DEF TestType
  <2>3. /\ ~t'.running /\ t'.phase = "Failed" /\ t'.down = x.down /\ t'.direct = x.direct
        /\ t'.probed = x.probed /\ t'.answered = x.answered
    BY <2>1 DEF TestType
  <2> QED
    BY <2>1, <2>2, <2>3, NoReplyType DEF Requested, SameProbes
<1>2. CASE HasEndpoint(x)
  <2> DEFINE kind == IF x.phase = "Upload" THEN "post" ELSE "get"
  <2>1. /\ t' = [x EXCEPT !.attempt = x.attempt + 1, !.since = x.elapsed]
        /\ reply' = [NoReply EXCEPT !.kind = kind]
    BY <1>2 DEF StartRequest
  <2>2. x.attempt + 1 \in 0 .. MaxEndpoints /\ x.elapsed \in 0 .. NoProgress
    BY <1>2 DEF HasEndpoint, Endpoints, MaxEndpoints, TestType
  <2>3. t' \in TestType
    BY <2>1, <2>2 DEF TestType
  <2>4. /\ t'.running = x.running /\ t'.phase = x.phase /\ t'.down = x.down
        /\ t'.direct = x.direct /\ t'.probed = x.probed /\ t'.answered = x.answered
    BY <2>1 DEF TestType
  <2>5. reply' \in ReplyType /\ reply'.kind = kind
    BY <2>1 DEF NoReply, ReplyType, Full
  <2> QED
    BY <2>3, <2>4, <2>5 DEF Requested, SameProbes
<1> QED
  BY <1>1, <1>2

LEMMA PhaseStarts ==
    \A x \in TestType, phase \in {"Download", "Upload"} :
        StartPhase(x, phase) => Requested(x, phase)
<1> SUFFICES ASSUME NEW x \in TestType, NEW phase \in {"Download", "Upload"},
                    StartPhase(x, phase)
             PROVE  Requested(x, phase)
  OBVIOUS
<1> DEFINE y == [x EXCEPT !.phase = phase, !.attempt = 0, !.received = 0, !.elapsed = 0,
                          !.since = 0]
<1>1. 0 \in 0 .. MaxEndpoints /\ 0 \in 0 .. Full /\ 0 \in 0 .. NoProgress
  BY DEF MaxEndpoints, Full
<1>2. y \in TestType
  BY <1>1 DEF TestType
<1>3. /\ y.probed = x.probed /\ y.answered = x.answered /\ y.direct = x.direct
      /\ y.down = x.down /\ y.running = x.running /\ y.phase = phase
  BY DEF TestType
<1>4. StartRequest(y)
  BY DEF StartPhase
<1> HIDE DEF y
<1> QED
  BY <1>2, <1>3, <1>4, RequestStarts DEF Requested, SameProbes

\* A figure is there or not.
LEMMA MeasuredType ==
    \A x \in TestType, figure \in BOOLEAN :
        [x EXCEPT !.up = figure] \in TestType /\ [x EXCEPT !.down = figure] \in TestType
BY DEF TestType

\* A transfer that counts: the upload begins, or the test is completed.
LEMMA AcceptGoesOn ==
    \A x \in TestType :
        /\ Accept(x)
        /\ x.phase \in {"Download", "Upload"}
        /\ x.phase = "Download" => x.received > 0
        /\ x.phase = "Upload" => x.down
        => /\ t' \in TestType /\ SameProbes(x, t') /\ reply' \in ReplyType
           /\ \/ /\ ~t'.running /\ reply'.kind = "none"
                 /\ \/ t'.phase = "Failed"
                    \/ t'.phase = "Completed" /\ t'.down
              \/ /\ t'.running = x.running /\ x.phase = "Download" /\ t'.phase = "Upload"
                 /\ reply'.kind = "post" /\ t'.down /\ t'.direct = x.direct
<1> SUFFICES ASSUME NEW x \in TestType, Accept(x), x.phase \in {"Download", "Upload"},
                    x.phase = "Download" => x.received > 0,
                    x.phase = "Upload" => x.down
             PROVE  /\ t' \in TestType /\ SameProbes(x, t') /\ reply' \in ReplyType
                    /\ \/ /\ ~t'.running /\ reply'.kind = "none"
                          /\ \/ t'.phase = "Failed"
                             \/ t'.phase = "Completed" /\ t'.down
                       \/ /\ t'.running = x.running /\ x.phase = "Download"
                          /\ t'.phase = "Upload" /\ reply'.kind = "post" /\ t'.down
                          /\ t'.direct = x.direct
  OBVIOUS
<1>1. CASE x.phase = "Upload"
  <2> DEFINE y == [x EXCEPT !.up = x.received > 0]
  <2> (x.received > 0) \in BOOLEAN
    OBVIOUS
  <2>1. y \in TestType
    BY MeasuredType, Zenon
  <2>2. y.down = x.down /\ y.probed = x.probed /\ y.answered = x.answered
    BY DEF TestType
  <2>3. Finish(y, "Completed")
    BY <1>1 DEF Accept, Measured
  <2>4. "Completed" \in Phases
    BY DEF Phases
  <2> HIDE DEF y
  <2> QED
    BY <1>1, <2>1, <2>2, <2>3, <2>4, FinishEnds DEF SameProbes
<1>2. CASE x.phase = "Download"
  <2> DEFINE y == [x EXCEPT !.down = x.received > 0]
  <2> (x.received > 0) \in BOOLEAN
    OBVIOUS
  <2>1. y \in TestType
    BY MeasuredType, Zenon
  <2>2. /\ y.down /\ y.probed = x.probed /\ y.answered = x.answered
        /\ y.direct = x.direct /\ y.running = x.running
    BY <1>2 DEF TestType
  <2>3. StartPhase(y, "Upload")
    BY <1>2 DEF Accept, Measured
  <2> HIDE DEF y
  <2> QED
    BY <1>2, <2>1, <2>2, <2>3, PhaseStarts DEF SameProbes, Requested
<1> QED
  BY <1>1, <1>2

-----------------------------------------------------------------------------
(* The inductive invariant *)

\* A step that changes neither the timers nor the tests' count keeps the invariant when
\* the test it leaves is sound.
LEMMA TransferKeeps ==
    /\ IInv
    /\ t' \in TestType /\ reply' \in ReplyType
    /\ UNCHANGED <<connected, calls, sockets, tests>>
    /\ proxy' \in {"tunnel", "none"}
    /\ SameProbes(t, t')
    /\ t'.running => t.running
    /\ t'.running => t'.phase \in {"Download", "Upload"}
    /\ t'.running /\ t'.phase = "Download" <=> reply'.kind = "get"
    /\ t'.running /\ t'.phase = "Upload" <=> reply'.kind = "post"
    /\ t'.running /\ t'.phase = "Upload" => t'.down
    /\ t'.phase = "Completed" => t'.down
    /\ t'.running => (proxy' = "none" <=> t'.direct \/ TunMode)
    => IInv'
BY DEF IInv, TypeOK, TimersCounted, UploadIsMeasured, TestIsSound,
       TestIsBacked, CompletedIsMeasured, ProxyIsOfTest, SameProbes

LEMMA BlankType == /\ Blank \in TestType /\ Blank.running = FALSE /\ Blank.phase = "Idle"
                   /\ Blank.probed = 0 /\ Blank.answered = 0
BY DEF Blank, TestType, MaxEndpoints, Full

LEMMA InitIInv == Init => IInv
<1> SUFFICES ASSUME Init PROVE IInv
  OBVIOUS
<1>1. NoTimers \in TimersType /\ NoTimers.own = 0 /\ NoTimers.old = 0
  BY DEF NoTimers, TimersType
<1>2. 0 \in 0 .. MaxTests
  OBVIOUS
<1>3. TypeOK
  BY <1>1, <1>2, BlankType, NoReplyType, Zenon DEF Init, TypeOK
<1> QED
  BY <1>1, <1>3, BlankType, NoReplyType
     DEF Init, IInv, TimersCounted, UploadIsMeasured, TestIsSound,
         TestIsBacked, CompletedIsMeasured, ProxyIsOfTest

\* What the invariant says of the fields, for the steps below.
LEMMA Fields ==
    IInv => /\ t \in TestType /\ reply \in ReplyType /\ tests \in 0 .. MaxTests
            /\ connected \in BOOLEAN /\ proxy \in {"tunnel", "none"}
            /\ calls \in TimersType /\ sockets \in TimersType
            /\ calls.own \in 0 .. 1 /\ calls.old \in 0 .. MaxTimers
            /\ sockets.own \in 0 .. 1 /\ sockets.old \in 0 .. MaxTimers
            /\ t.probed \in 0 .. Probes /\ t.answered \in 0 .. (Probes + MaxTimers)
            /\ t.received \in 0 .. Full
BY DEF IInv, TypeOK, TestType, TimersType

\* Cancelling and giving up end the request.
LEMMA EndKeeps ==
    \A phase \in {"Cancelled", "Failed"} :
        /\ IInv /\ Finish(t, phase)
        /\ connected' \in BOOLEAN
        /\ UNCHANGED <<proxy, calls, sockets, tests>>
        => IInv'
<1> SUFFICES ASSUME NEW phase \in {"Cancelled", "Failed"}, IInv, Finish(t, phase),
                    connected' \in BOOLEAN, UNCHANGED <<proxy, calls, sockets, tests>>
             PROVE  IInv'
  OBVIOUS
<1>1. /\ t' \in TestType /\ SameProbes(t, t') /\ ~t'.running /\ t'.phase = phase
      /\ reply' \in ReplyType /\ reply'.kind = "none"
  BY FinishEnds, Fields DEF Phases
<1> QED
  BY <1>1 DEF IInv, TypeOK, TimersCounted, UploadIsMeasured, TestIsSound,
              TestIsBacked, CompletedIsMeasured, ProxyIsOfTest, SameProbes

LEMMA CancelKeeps ==
    /\ IInv /\ Cancelled
    /\ connected' \in BOOLEAN
    /\ UNCHANGED <<proxy, calls, sockets, tests>>
    => IInv'
<1> SUFFICES ASSUME IInv, Cancelled, connected' \in BOOLEAN,
                    UNCHANGED <<proxy, calls, sockets, tests>>
             PROVE  IInv'
  OBVIOUS
<1>1. CASE t.running
  BY <1>1, EndKeeps DEF Cancelled
<1>2. CASE ~t.running
  <2>1. t' = Blank /\ reply' = NoReply
    BY <1>2 DEF Cancelled
  <2>2. TypeOK' /\ TimersCounted'
    BY <2>1, BlankType, NoReplyType, Fields DEF IInv, TypeOK, TimersCounted
  <2> QED
    BY <2>1, <2>2, BlankType, NoReplyType
       DEF IInv, UploadIsMeasured, TestIsSound, TestIsBacked,
           CompletedIsMeasured, ProxyIsOfTest
<1> QED
  BY <1>1, <1>2

LEMMA TestBegins ==
    LET x == [Blank EXCEPT !.running = TRUE, !.phase = "Latency"]
    IN  /\ x \in TestType /\ x.running /\ x.phase = "Latency" /\ x.probed = 0
        /\ x.answered = 0 /\ x.direct = FALSE
<1> DEFINE x == [Blank EXCEPT !.running = TRUE, !.phase = "Latency"]
<1>1. x \in TestType
  BY BlankType DEF TestType
<1>2. /\ x.running /\ x.phase = "Latency" /\ x.probed = 0
      /\ x.answered = 0 /\ x.direct = FALSE
  BY DEF Blank
<1> QED
  BY <1>1, <1>2

LEMMA StartKeeps == IInv /\ StartSpeedTest => IInv'
<1> SUFFICES ASSUME IInv, StartSpeedTest PROVE IInv'
  OBVIOUS
<1>1. /\ t' = [Blank EXCEPT !.running = TRUE, !.phase = "Latency"]
      /\ calls' = [LeftOver(calls) EXCEPT !.own = 1] /\ sockets' = LeftOver(sockets)
      /\ calls.old + calls.own + sockets.old + sockets.own < MaxTimers
      /\ connected /\ connected' = connected /\ ~t.running /\ reply' = reply
      /\ tests' = tests + 1 /\ tests < MaxTests
      /\ proxy' = IF TunMode THEN "none" ELSE "tunnel"
  BY DEF StartSpeedTest, SetProxy
<1>2. /\ t' \in TestType /\ t'.running /\ t'.phase = "Latency" /\ t'.probed = 0
      /\ t'.answered = 0 /\ t'.direct = FALSE
  BY <1>1, TestBegins
<1>3. /\ calls'.own = 1 /\ calls'.old = calls.old + calls.own
      /\ sockets'.own = 0 /\ sockets'.old = sockets.old + sockets.own
  BY <1>1 DEF LeftOver
<1>4. calls' \in TimersType /\ sockets' \in TimersType
  BY <1>1, Fields DEF LeftOver, TimersType
<1>5. TypeOK'
  BY <1>1, <1>2, <1>4, Fields DEF TypeOK
<1>6. TimersCounted'
  BY <1>1, <1>2, <1>3, Fields DEF TimersCounted
<1>7. reply.kind \notin {"get", "post"}
  BY <1>1 DEF IInv, TestIsSound, TestIsBacked
<1> QED
  BY <1>1, <1>2, <1>3, <1>5, <1>6, <1>7
     DEF IInv, UploadIsMeasured, TestIsSound, TestIsBacked,
         CompletedIsMeasured, ProxyIsOfTest

\* One timer or socket fewer, and one more.
LEMMA TimerMoves ==
    \A timers \in TimersType, whose \in {"own", "old"} :
        /\ Without(timers, whose).own = IF whose = "own" THEN timers.own - 1 ELSE timers.own
        /\ Without(timers, whose).old = IF whose = "old" THEN timers.old - 1 ELSE timers.old
        /\ [timers EXCEPT ![whose] = @ + 1].own
              = IF whose = "own" THEN timers.own + 1 ELSE timers.own
        /\ [timers EXCEPT ![whose] = @ + 1].old
              = IF whose = "old" THEN timers.old + 1 ELSE timers.old
        /\ timers[whose] = IF whose = "own" THEN timers.own ELSE timers.old
BY DEF Without, TimersType

Counts == [own : Int, old : Int]

\* What a probe's timer or socket leaves has its type when its two counts do.
LEMMA TimersTyped ==
    \A timers \in TimersType, whose \in {"own", "old"} :
        /\ Without(timers, whose) = [own |-> Without(timers, whose).own,
                                     old |-> Without(timers, whose).old]
        /\ [timers EXCEPT ![whose] = @ + 1]
              = [own |-> [timers EXCEPT ![whose] = @ + 1].own,
                 old |-> [timers EXCEPT ![whose] = @ + 1].old]
<1>1. \A timers \in TimersType : timers \in Counts
  BY DEF TimersType, Counts
<1>2. \A r \in Counts, n \in Int :
          /\ [r EXCEPT !["own"] = n] \in Counts
          /\ [r EXCEPT !["old"] = n] \in Counts
  BY DEF Counts
<1>3. \A r \in Counts : r = [own |-> r.own, old |-> r.old]
  BY DEF Counts
<1>4. ASSUME NEW timers \in TimersType, NEW whose \in {"own", "old"}
      PROVE  timers[whose] - 1 \in Int /\ timers[whose] + 1 \in Int
  BY DEF TimersType
<1> QED
  BY <1>1, <1>2, <1>3, <1>4 DEF Without

LEMMA RunProbeKeeps == IInv /\ RunNextProbe => IInv'
<1> SUFFICES ASSUME IInv, RunNextProbe PROVE IInv'
  OBVIOUS
<1>1. PICK whose \in {"own", "old"} :
          /\ calls[whose] > 0
          /\ calls' = Without(calls, whose)
          /\ IF ~ProbeWanted THEN UNCHANGED <<t, reply, sockets>>
             ELSE IF t.probed >= Probes
             THEN StartPhase(t, "Download") /\ UNCHANGED sockets
             ELSE /\ sockets' = [sockets EXCEPT ![whose] = @ + 1]
                  /\ t' = [t EXCEPT !.probed = @ + 1]
                  /\ UNCHANGED reply
  BY DEF RunNextProbe
<1>2. UNCHANGED <<connected, proxy, tests>>
  BY DEF RunNextProbe
<1>3. /\ calls'.own = IF whose = "own" THEN calls.own - 1 ELSE calls.own
      /\ calls'.old = IF whose = "old" THEN calls.old - 1 ELSE calls.old
      /\ (IF whose = "own" THEN calls.own ELSE calls.old) > 0
  BY <1>1, Fields, TimerMoves
<1>4. calls' = [own |-> calls'.own, old |-> calls'.old]
  BY <1>1, Fields, TimersTyped
<1>5. calls' \in TimersType
  <2>1. calls'.own \in 0 .. 1 /\ calls'.old \in 0 .. MaxTimers
    BY <1>3, Fields
  <2> QED
    BY <1>4, <2>1 DEF TimersType
<1>6. CASE ~ProbeWanted
  <2>1. UNCHANGED <<t, reply, sockets>>
    BY <1>1, <1>6
  <2>2. TypeOK' /\ TimersCounted'
    BY <1>2, <1>3, <1>5, <2>1, Fields DEF IInv, TypeOK, TimersCounted
  <2> QED
    BY <1>2, <1>6, <2>1, <2>2
       DEF IInv, ProbeWanted, UploadIsMeasured, TestIsSound, TestIsBacked,
           CompletedIsMeasured, ProxyIsOfTest
<1>7. CASE ProbeWanted /\ t.probed >= Probes
  <2>1. Requested(t, "Download") /\ sockets' = sockets
    BY <1>1, <1>7, PhaseStarts, Fields
  <2>2. TypeOK' /\ TimersCounted'
    BY <1>2, <1>3, <1>5, <2>1, Fields
       DEF IInv, TypeOK, TimersCounted, Requested, SameProbes
  <2> QED
    BY <1>2, <1>7, <2>1, <2>2
       DEF IInv, ProbeWanted, UploadIsMeasured, TestIsSound, TestIsBacked,
           CompletedIsMeasured, ProxyIsOfTest, Requested
<1>8. CASE ProbeWanted /\ ~(t.probed >= Probes)
  <2>1. /\ sockets' = [sockets EXCEPT ![whose] = @ + 1]
        /\ t' = [t EXCEPT !.probed = t.probed + 1] /\ reply' = reply
    BY <1>1, <1>8
  <2>2. /\ sockets'.own = IF whose = "own" THEN sockets.own + 1 ELSE sockets.own
        /\ sockets'.old = IF whose = "old" THEN sockets.old + 1 ELSE sockets.old
        /\ sockets' = [own |-> sockets'.own, old |-> sockets'.old]
    BY <2>1, Fields, TimerMoves, TimersTyped
  <2>3. t.probed + 1 \in 0 .. Probes
    BY <1>8, Fields
  <2>4. t' \in TestType
    BY <2>1, <2>3, Fields DEF TestType
  <2>5. /\ t'.running = t.running /\ t'.phase = t.phase /\ t'.down = t.down
        /\ t'.direct = t.direct /\ t'.probed = t.probed + 1 /\ t'.answered = t.answered
    BY <2>1, Fields DEF TestType
  <2>6. TimersCounted'
    BY <1>3, <2>2, <2>5, Fields DEF IInv, TimersCounted
  <2>7. sockets' \in TimersType
    <3>1. sockets'.own \in 0 .. 1 /\ sockets'.old \in 0 .. MaxTimers
      BY <1>3, <2>2, Fields DEF IInv, TimersCounted
    <3> QED
      BY <2>2, <3>1 DEF TimersType
  <2>8. TypeOK'
    BY <1>2, <1>5, <2>1, <2>4, <2>7, Fields DEF TypeOK
  <2> QED
    BY <1>2, <1>3, <2>1, <2>2, <2>5, <2>6, <2>8, Fields
       DEF IInv, UploadIsMeasured, TestIsSound, TestIsBacked,
           CompletedIsMeasured, ProxyIsOfTest
<1> QED
  BY <1>6, <1>7, <1>8

LEMMA ProbeEndsKeeps == IInv /\ ProbeEnds => IInv'
<1> SUFFICES ASSUME IInv, ProbeEnds PROVE IInv'
  OBVIOUS
<1>1. PICK whose \in {"own", "old"}, success \in {0, 1} :
          /\ sockets[whose] > 0
          /\ sockets' = Without(sockets, whose)
          /\ IF t.running /\ t.phase = "Latency"
             THEN /\ t' = [t EXCEPT !.answered = @ + success]
                  /\ calls' = [calls EXCEPT ![whose] = @ + 1]
             ELSE UNCHANGED <<t, calls>>
  BY DEF ProbeEnds
<1>2. UNCHANGED <<connected, proxy, reply, tests>>
  BY DEF ProbeEnds
<1>3. /\ sockets'.own = IF whose = "own" THEN sockets.own - 1 ELSE sockets.own
      /\ sockets'.old = IF whose = "old" THEN sockets.old - 1 ELSE sockets.old
      /\ (IF whose = "own" THEN sockets.own ELSE sockets.old) > 0
      /\ sockets' = [own |-> sockets'.own, old |-> sockets'.old]
  BY <1>1, Fields, TimerMoves, TimersTyped
<1>4. sockets' \in TimersType
  <2>1. sockets'.own \in 0 .. 1 /\ sockets'.old \in 0 .. MaxTimers
    BY <1>3, Fields
  <2> QED
    BY <1>3, <2>1 DEF TimersType
<1>5. CASE t.running /\ t.phase = "Latency"
  <2>1. /\ t' = [t EXCEPT !.answered = t.answered + success]
        /\ calls' = [calls EXCEPT ![whose] = @ + 1]
    BY <1>1, <1>5
  <2>2. /\ calls'.own = IF whose = "own" THEN calls.own + 1 ELSE calls.own
        /\ calls'.old = IF whose = "old" THEN calls.old + 1 ELSE calls.old
        /\ calls' = [own |-> calls'.own, old |-> calls'.old]
    BY <2>1, Fields, TimerMoves, TimersTyped
  <2>3. t.answered + success \in 0 .. (Probes + MaxTimers)
    BY <1>3, Fields DEF IInv, TimersCounted
  <2>4. t' \in TestType
    BY <2>1, <2>3, Fields DEF TestType
  <2>5. /\ t'.running = t.running /\ t'.phase = t.phase /\ t'.down = t.down
        /\ t'.direct = t.direct /\ t'.probed = t.probed
        /\ t'.answered = t.answered + success
    BY <2>1, Fields DEF TestType
  <2>6. TimersCounted'
    BY <1>3, <2>2, <2>5, Fields DEF IInv, TimersCounted
  <2>7. calls' \in TimersType
    <3>1. calls'.own \in 0 .. 1 /\ calls'.old \in 0 .. MaxTimers
      BY <1>3, <2>2, Fields DEF IInv, TimersCounted
    <3> QED
      BY <2>2, <3>1 DEF TimersType
  <2>8. TypeOK'
    BY <1>2, <1>4, <2>4, <2>7, Fields DEF TypeOK
  <2> QED
    BY <1>2, <1>3, <1>5, <2>2, <2>5, <2>6, <2>8, Fields
       DEF IInv, UploadIsMeasured, TestIsSound, TestIsBacked,
           CompletedIsMeasured, ProxyIsOfTest
<1>6. CASE ~(t.running /\ t.phase = "Latency")
  <2>1. UNCHANGED <<t, calls>>
    BY <1>1, <1>6
  <2>2. TypeOK' /\ TimersCounted'
    BY <1>2, <1>3, <1>4, <2>1, Fields DEF IInv, TypeOK, TimersCounted
  <2> QED
    BY <1>2, <1>6, <2>1, <2>2
       DEF IInv, UploadIsMeasured, TestIsSound, TestIsBacked,
           CompletedIsMeasured, ProxyIsOfTest
<1> QED
  BY <1>5, <1>6

-----------------------------------------------------------------------------
(* The transfers *)

\* A reply belongs to a transfer of the running test.
LEMMA ReplyIsOfTest ==
    IInv /\ reply.kind # "none" => t.running /\ t.phase \in {"Download", "Upload"}
BY DEF IInv, TypeOK, ReplyType, TestIsSound, TestIsBacked

LEMMA AcceptKeeps ==
    /\ IInv /\ t.running
    /\ t.phase \in {"Download", "Upload"}
    /\ t.phase = "Download" => t.received > 0
    /\ Accept(t)
    /\ UNCHANGED <<connected, proxy, calls, sockets, tests>>
    => IInv'
<1> SUFFICES ASSUME IInv, t.running, t.phase \in {"Download", "Upload"},
                    t.phase = "Download" => t.received > 0, Accept(t),
                    UNCHANGED <<connected, proxy, calls, sockets, tests>>
             PROVE  IInv'
  OBVIOUS
<1>1. /\ t.phase = "Upload" => t.down
      /\ proxy = "none" <=> t.direct \/ TunMode
  BY DEF IInv, UploadIsMeasured, TestIsSound, ProxyIsOfTest
<1>2. /\ t' \in TestType /\ SameProbes(t, t') /\ reply' \in ReplyType
      /\ \/ /\ ~t'.running /\ reply'.kind = "none"
            /\ \/ t'.phase = "Failed"
               \/ t'.phase = "Completed" /\ t'.down
         \/ /\ t'.running /\ t'.phase = "Upload"
            /\ reply'.kind = "post" /\ t'.down /\ t'.direct = t.direct
  BY <1>1, AcceptGoesOn, Fields
<1> QED
  BY <1>1, <1>2, Fields, TransferKeeps

LEMMA RetryKeeps ==
    /\ IInv /\ t.running
    /\ t.phase \in {"Download", "Upload"}
    /\ CanRetry(t) /\ Retry(t)
    /\ UNCHANGED <<connected, calls, sockets, tests>>
    => IInv'
<1> SUFFICES ASSUME IInv, t.running, t.phase \in {"Download", "Upload"},
                    CanRetry(t), Retry(t), UNCHANGED <<connected, calls, sockets, tests>>
             PROVE  IInv'
  OBVIOUS
<1>1. /\ t.phase = "Upload" => t.down
      /\ proxy = "none" <=> t.direct \/ TunMode
  BY DEF IInv, UploadIsMeasured, TestIsSound, ProxyIsOfTest
<1>2. CASE HasEndpoint(t)
  <2>1. Requested(t, t.phase) /\ proxy' = proxy
    BY <1>2, RequestStarts, Fields DEF Retry
  <2> QED
    BY <1>1, <2>1, Fields, TransferKeeps DEF Requested
<1>3. CASE ~HasEndpoint(t)
  <2> DEFINE x == [t EXCEPT !.direct = TRUE, !.attempt = 0]
  <2>1. t.phase = "Download" /\ proxy' = "none" /\ StartRequest(x)
    BY <1>3 DEF CanRetry, DirectAllowed, Retry
  <2>2. 0 \in 0 .. MaxEndpoints
    BY DEF MaxEndpoints
  <2>3. x \in TestType
    BY <2>2, Fields DEF TestType
  <2>4. /\ x.direct /\ x.phase = t.phase /\ x.running = t.running /\ x.down = t.down
        /\ x.probed = t.probed /\ x.answered = t.answered
    BY Fields DEF TestType
  <2> HIDE DEF x
  <2>5. Requested(x, t.phase)
    BY <2>1, <2>3, <2>4, RequestStarts
  <2>6. SameProbes(t, t') /\ t'.direct
    BY <2>4, <2>5 DEF Requested, SameProbes
  <2> QED
    BY <2>1, <2>4, <2>5, <2>6, Fields, TransferKeeps DEF Requested
<1> QED
  BY <1>2, <1>3

\* Giving up a transfer.
LEMMA GiveUpKeeps ==
    /\ IInv /\ Finish(t, "Failed") /\ UNCHANGED <<connected, proxy, calls, sockets, tests>>
    => IInv'
BY EndKeeps, Fields

LEMMA TickKeeps == IInv /\ Tick => IInv'
<1> SUFFICES ASSUME IInv, Tick PROVE IInv'
  OBVIOUS
<1>1. t.running /\ t.phase \in {"Download", "Upload"}
  BY DEF Tick, Transfer
<1>2. UNCHANGED <<connected, calls, sockets, tests>>
  BY DEF Tick
<1>3. CASE PayloadSent(t) /\ Accept(t) /\ UNCHANGED proxy
  BY <1>1, <1>2, <1>3, AcceptKeeps DEF PayloadSent
<1>4. CASE CanRetry(t) /\ Retry(t)
  BY <1>1, <1>2, <1>4, RetryKeeps
<1>5. CASE t.received > 0 /\ Accept(t) /\ UNCHANGED proxy
  BY <1>1, <1>2, <1>5, AcceptKeeps
<1>6. CASE Finish(t, "Failed") /\ UNCHANGED proxy
  BY <1>2, <1>6, GiveUpKeeps
<1> QED
  BY <1>3, <1>4, <1>5, <1>6 DEF Tick

LEMMA SucceedsKeeps == IInv /\ ReplySucceeds => IInv'
<1> SUFFICES ASSUME IInv, ReplySucceeds PROVE IInv'
  OBVIOUS
<1>1. /\ t.running /\ t.phase \in {"Download", "Upload"}
      /\ UNCHANGED <<connected, proxy, calls, sockets, tests>>
  BY ReplyIsOfTest DEF ReplySucceeds
<1>2. CASE t.received = 0
  BY <1>1, <1>2, GiveUpKeeps DEF ReplySucceeds, AcceptData
<1>3. CASE t.received # 0
  <2>1. t.received > 0
    BY <1>3, Fields DEF Full
  <2> QED
    BY <1>1, <1>3, <2>1, AcceptKeeps DEF ReplySucceeds, AcceptData
<1> QED
  BY <1>2, <1>3

LEMMA FailsKeeps == IInv /\ ReplyFails => IInv'
<1> SUFFICES ASSUME IInv, ReplyFails PROVE IInv'
  OBVIOUS
<1>1. /\ t.running /\ t.phase \in {"Download", "Upload"}
      /\ UNCHANGED <<connected, calls, sockets, tests>>
  BY ReplyIsOfTest DEF ReplyFails
<1>2. CASE t.received = Full /\ Accept(t) /\ UNCHANGED proxy
  BY <1>1, <1>2, AcceptKeeps DEF Full
<1>3. CASE CanRetry(t) /\ Retry(t)
  BY <1>1, <1>3, RetryKeeps
<1>4. CASE /\ t.phase = "Upload" /\ Finish([t EXCEPT !.up = FALSE], "Completed")
           /\ UNCHANGED proxy
  <2> DEFINE x == [t EXCEPT !.up = FALSE]
  <2>1. x \in TestType
    BY Fields, MeasuredType, Zenon
  <2>2. x.down = t.down /\ x.probed = t.probed /\ x.answered = t.answered
    BY Fields DEF TestType
  <2>3. "Completed" \in Phases
    BY DEF Phases
  <2>4. Finish(x, "Completed")
    BY <1>4
  <2> HIDE DEF x
  <2>5. /\ t' \in TestType /\ SameProbes(x, t') /\ ~t'.running /\ t'.phase = "Completed"
        /\ t'.down = x.down /\ reply' \in ReplyType /\ reply'.kind = "none"
    BY <2>1, <2>3, <2>4, FinishEnds
  <2>6. t.down
    BY <1>1, <1>4 DEF IInv, UploadIsMeasured
  <2> QED
    BY <1>1, <1>4, <2>2, <2>5, <2>6, Fields, TransferKeeps DEF SameProbes
<1>5. CASE Finish(t, "Failed") /\ UNCHANGED proxy
  BY <1>1, <1>5, GiveUpKeeps
<1> QED
  BY <1>2, <1>3, <1>4, <1>5 DEF ReplyFails

LEMMA ProgressKeeps == IInv /\ Progress => IInv'
<1> SUFFICES ASSUME IInv, Progress PROVE IInv'
  OBVIOUS
<1>1. /\ t.running /\ t.phase \in {"Download", "Upload"}
      /\ UNCHANGED <<connected, proxy, calls, sockets, tests>>
  BY ReplyIsOfTest DEF Progress
<1>2. reply' = [reply EXCEPT !.got = reply.got + 1, !.quiet = 0] /\ reply.got < Full
  BY DEF Progress
<1>3. reply' \in ReplyType /\ reply'.kind = reply.kind
  <2>1. reply.got + 1 \in 0 .. Full /\ 0 \in 0 .. NoProgress
    BY <1>2, Fields DEF ReplyType, Full
  <2> QED
    BY <1>2, <2>1, Fields DEF ReplyType
<1>4. \/ t' = t
      \/ t' = [t EXCEPT !.received = reply'.got, !.since = 0]
  BY DEF Progress
<1>5. reply'.got \in 0 .. Full
  BY <1>3 DEF ReplyType
<1>6. t' \in TestType
  <2>1. 0 \in 0 .. NoProgress
    OBVIOUS
  <2>2. [t EXCEPT !.received = reply'.got, !.since = 0] \in TestType
    BY <1>5, <2>1, Fields DEF TestType
  <2> QED
    BY <1>4, <2>2, Fields
<1>7. /\ t'.running = t.running /\ t'.phase = t.phase /\ t'.down = t.down
      /\ t'.direct = t.direct /\ SameProbes(t, t')
  BY <1>4, Fields DEF TestType, SameProbes
<1>8. /\ t.phase = "Upload" => t.down
      /\ t.phase = "Download" <=> reply.kind = "get"
      /\ t.phase = "Upload" <=> reply.kind = "post"
      /\ proxy = "none" <=> t.direct \/ TunMode
  BY <1>1 DEF IInv, UploadIsMeasured, TestIsSound, TestIsBacked, ProxyIsOfTest
<1> QED
  BY <1>1, <1>3, <1>6, <1>7, <1>8, Fields, TransferKeeps

LEMMA TimeKeeps == IInv /\ TimePasses => IInv'
<1> SUFFICES ASSUME IInv, TimePasses PROVE IInv'
  OBVIOUS
<1>1. /\ t.running /\ t.phase \in {"Download", "Upload"}
      /\ UNCHANGED <<connected, proxy, calls, sockets, tests>>
  BY DEF TimePasses, Transfer
<1>2. \A n \in 0 .. NoProgress : Next1(n) \in 0 .. NoProgress
  BY DEF Next1
<1>3. /\ reply' = [reply EXCEPT !.quiet = Next1(reply.quiet)]
      /\ t' = [t EXCEPT !.elapsed = Next1(t.elapsed), !.since = Next1(t.since)]
  BY DEF TimePasses
<1>4. reply' \in ReplyType /\ reply'.kind = reply.kind
  BY <1>2, <1>3, Fields DEF ReplyType
<1>5. t.elapsed \in 0 .. NoProgress /\ t.since \in 0 .. NoProgress
  BY Fields DEF TestType
<1>6. t' \in TestType
  BY <1>2, <1>3, <1>5, Fields DEF TestType
<1>7. /\ t'.running = t.running /\ t'.phase = t.phase /\ t'.down = t.down
      /\ t'.direct = t.direct /\ SameProbes(t, t')
  BY <1>3, Fields DEF TestType, SameProbes
<1>8. /\ t.phase = "Upload" => t.down
      /\ t.phase = "Download" <=> reply.kind = "get"
      /\ t.phase = "Upload" <=> reply.kind = "post"
      /\ proxy = "none" <=> t.direct \/ TunMode
  BY <1>1 DEF IInv, UploadIsMeasured, TestIsSound, TestIsBacked, ProxyIsOfTest
<1> QED
  BY <1>1, <1>4, <1>6, <1>7, <1>8, Fields, TransferKeeps

\* A test refused, and the tunnel's coming and going without a test's being cancelled.
LEMMA IdleKeeps == IInv /\ (StartRefused \/ TunnelLost \/ TunnelComes) => IInv'
<1> SUFFICES ASSUME IInv, StartRefused \/ TunnelLost \/ TunnelComes PROVE IInv'
  OBVIOUS
<1>1. connected' \in BOOLEAN /\ UNCHANGED <<proxy, reply, calls, sockets, tests>>
  BY Fields DEF StartRefused, TunnelLost, TunnelComes
<1>2. \/ t' = t
      \/ ~t.running /\ t' = [t EXCEPT !.phase = "Failed"]
  BY DEF StartRefused, TunnelLost, TunnelComes
<1>3. t' \in TestType
  BY <1>2, Fields DEF TestType
<1>4. /\ t'.running = t.running /\ SameProbes(t, t') /\ t'.down = t.down
      /\ t'.direct = t.direct
      /\ t'.phase = "Completed" => t.phase = "Completed"
  BY <1>2, Fields DEF TestType, SameProbes
<1>5. (t'.phase = t.phase) \/ (~t.running /\ ~t'.running)
  BY <1>2, <1>4
<1> QED
  BY <1>1, <1>3, <1>4, <1>5
     DEF IInv, TypeOK, TimersCounted, UploadIsMeasured, TestIsSound,
         TestIsBacked, CompletedIsMeasured, ProxyIsOfTest, SameProbes

LEMMA NextIInv == IInv /\ [Next]_vars => IInv'
<1> SUFFICES ASSUME IInv, [Next]_vars PROVE IInv'
  OBVIOUS
<1>1. CASE CancelSpeedTest
  BY <1>1, CancelKeeps, Fields DEF CancelSpeedTest
<1>2. CASE TunnelGoes
  BY <1>2, CancelKeeps DEF TunnelGoes
<1>3. CASE UNCHANGED vars
  BY <1>3 DEF vars, IInv, TypeOK, TimersCounted, UploadIsMeasured,
              TestIsSound, TestIsBacked, CompletedIsMeasured, ProxyIsOfTest
<1> QED
  BY <1>1, <1>2, <1>3, StartKeeps, IdleKeeps, RunProbeKeeps, ProbeEndsKeeps, ProgressKeeps,
     TimeKeeps, TickKeeps, SucceedsKeeps, FailsKeeps DEF Next

-----------------------------------------------------------------------------
(* The theorems *)

\* IInv holds in every reachable state.
THEOREM Invariance == Spec => []IInv
BY InitIInv, NextIInv, PTL DEF Spec

\* The fields of the test keep their types; in particular no endpoint is asked that is not
\* there, and the probes counted stay within their bound although those of cancelled tests
\* are counted, too (finishProbe).
THEOREM TypeCorrect == Spec => []TypeOK
<1>1. IInv => TypeOK
  BY DEF IInv
<1> QED
  BY <1>1, Invariance, PTL

\* A running test is taken on by a timer, a probe or a request of its own, a completed one
\* has a download figure, and the tunnel's proxy is used unless this test has fallen back
\* (startSpeedTest, finishSpeedTest, onSpeedTestTick, onSpeedTestFinished).
THEOREM TestIsSoundAlways == Spec => []TestIsSound
<1>1. IInv => TestIsSound
  BY DEF IInv
<1> QED
  BY <1>1, Invariance, PTL

LEMMA RequestKeepsBytes ==
    \A x \in TestType : StartRequest(x) => t'.received = x.received
BY DEF StartRequest, Finish, TestType

\* What a step may do with a test that runs before and after it.
InOrder ==
    \/ t.phase = t'.phase /\ t.received <= t'.received
    \/ <<t.phase, t'.phase>> \in {<<"Latency", "Download">>, <<"Download", "Upload">>}

LEMMA StepInOrder == IInv /\ [Next]_vars => (t.running /\ t'.running => InOrder)
<1> SUFFICES ASSUME IInv, [Next]_vars, t.running, t'.running
             PROVE  \/ t.phase = t'.phase /\ t.received <= t'.received
                    \/ t.phase = "Latency" /\ t'.phase = "Download"
                    \/ t.phase = "Download" /\ t'.phase = "Upload"
  BY DEF InOrder
<1> DEFINE Goal == \/ t.phase = t'.phase /\ t.received <= t'.received
                   \/ t.phase = "Latency" /\ t'.phase = "Download"
                   \/ t.phase = "Download" /\ t'.phase = "Upload"
<1>0. t.received <= t.received
  BY Fields
<1>1. \A x \in TestType, phase \in Phases : ~Finish(x, phase)
  BY FinishEnds
<1>2. "Cancelled" \in Phases /\ "Failed" \in Phases /\ "Completed" \in Phases
  BY DEF Phases
<1>3. ASSUME Accept(t), t.phase \in {"Download", "Upload"} PROVE Goal
  <2>1. CASE t.phase = "Upload"
    <3>1. Finish([t EXCEPT !.up = t.received > 0], "Completed")
      BY <1>3, <2>1 DEF Accept, Measured
    <3>2. [t EXCEPT !.up = t.received > 0] \in TestType
      <4> (t.received > 0) \in BOOLEAN
        OBVIOUS
      <4> QED
        BY MeasuredType, Fields, Zenon
    <3> QED
      BY <1>1, <1>2, <3>1, <3>2
  <2>2. CASE t.phase = "Download"
    <3>1. StartPhase([t EXCEPT !.down = t.received > 0], "Upload")
      BY <1>3, <2>2 DEF Accept, Measured
    <3>2. [t EXCEPT !.down = t.received > 0] \in TestType
      <4> (t.received > 0) \in BOOLEAN
        OBVIOUS
      <4> QED
        BY MeasuredType, Fields, Zenon
    <3>3. Requested([t EXCEPT !.down = t.received > 0], "Upload")
      BY <3>1, <3>2, PhaseStarts
    <3> QED
      BY <2>2, <3>3 DEF Requested
  <2> QED
    BY <1>3, <2>1, <2>2
<1>4. ASSUME Retry(t) PROVE Goal
  <2>1. ASSUME NEW x \in TestType, StartRequest(x), x.phase = t.phase,
               x.received = t.received
        PROVE  Goal
    BY <1>0, <2>1, RequestStarts, RequestKeepsBytes DEF Requested
  <2>2. [t EXCEPT !.direct = TRUE, !.attempt = 0] \in TestType
    <3>1. 0 \in 0 .. MaxEndpoints
      BY DEF MaxEndpoints
    <3> QED
      BY <3>1, Fields DEF TestType
  <2>3. /\ [t EXCEPT !.direct = TRUE, !.attempt = 0].phase = t.phase
        /\ [t EXCEPT !.direct = TRUE, !.attempt = 0].received = t.received
    BY Fields DEF TestType
  <2> QED
    BY <1>4, <2>1, <2>2, <2>3, Fields DEF Retry
<1>5. CASE RunNextProbe
  <2>1. \/ t' = t
        \/ t.phase = "Latency" /\ StartPhase(t, "Download")
        \/ t' = [t EXCEPT !.probed = t.probed + 1]
    BY <1>5 DEF RunNextProbe, ProbeWanted
  <2>2. /\ [t EXCEPT !.probed = t.probed + 1].phase = t.phase
        /\ [t EXCEPT !.probed = t.probed + 1].received = t.received
    BY Fields DEF TestType
  <2> QED
    BY <1>0, <2>1, <2>2, PhaseStarts, Fields DEF Requested
<1>6. CASE ProbeEnds
  <2>1. PICK success \in {0, 1} : t' = t \/ t' = [t EXCEPT !.answered = t.answered + success]
    BY <1>6 DEF ProbeEnds
  <2>2. /\ [t EXCEPT !.answered = t.answered + success].phase = t.phase
        /\ [t EXCEPT !.answered = t.answered + success].received = t.received
    BY Fields DEF TestType
  <2> QED
    BY <1>0, <2>1, <2>2
<1>7. CASE Progress \/ TimePasses
  <2>1. \/ t' = t
        \/ reply'.got > t.received /\ t' = [t EXCEPT !.received = reply'.got, !.since = 0]
        \/ t' = [t EXCEPT !.elapsed = Next1(t.elapsed), !.since = Next1(t.since)]
    BY <1>7 DEF Progress, TimePasses
  <2>2. /\ [t EXCEPT !.received = reply'.got, !.since = 0].phase = t.phase
        /\ [t EXCEPT !.received = reply'.got, !.since = 0].received = reply'.got
        /\ [t EXCEPT !.elapsed = Next1(t.elapsed), !.since = Next1(t.since)].phase = t.phase
        /\ [t EXCEPT !.elapsed = Next1(t.elapsed), !.since = Next1(t.since)].received
              = t.received
    BY Fields DEF TestType
  <2>3. ASSUME reply'.got > t.received PROVE t.received <= reply'.got
    <3>1. reply' = reply \/ reply' = [reply EXCEPT !.got = reply.got + 1, !.quiet = 0]
                         \/ reply' = [reply EXCEPT !.quiet = Next1(reply.quiet)]
      BY <1>7 DEF Progress, TimePasses
    <3>2. reply'.got = reply.got \/ reply'.got = reply.got + 1
      BY <3>1, Fields DEF ReplyType
    <3>3. reply.got \in 0 .. Full
      BY Fields DEF ReplyType
    <3> QED
      BY <2>3, <3>2, <3>3, Fields DEF Full
  <2> QED
    BY <1>0, <2>1, <2>2, <2>3
<1>8. CASE Tick
  BY <1>1, <1>2, <1>3, <1>4, <1>8, Fields DEF Tick, Transfer
<1>9. CASE ReplySucceeds
  BY <1>1, <1>2, <1>3, <1>9, Fields, ReplyIsOfTest DEF ReplySucceeds, AcceptData
<1>10. CASE ReplyFails
  <2>1. [t EXCEPT !.up = FALSE] \in TestType
    BY MeasuredType, Fields, Zenon
  <2> QED
    BY <1>1, <1>2, <1>3, <1>4, <1>10, <2>1, Fields, ReplyIsOfTest DEF ReplyFails
<1>11. CASE StartSpeedTest
  BY <1>11 DEF StartSpeedTest
<1>12. CASE CancelSpeedTest \/ TunnelGoes
  BY <1>1, <1>2, <1>12, Fields DEF CancelSpeedTest, TunnelGoes, Cancelled
<1>13. CASE StartRefused \/ TunnelLost \/ TunnelComes
  BY <1>0, <1>13 DEF StartRefused, TunnelLost, TunnelComes
<1>14. CASE UNCHANGED vars
  BY <1>0, <1>14 DEF vars
<1> QED
  BY <1>5, <1>6, <1>7, <1>8, <1>9, <1>10, <1>11, <1>12, <1>13, <1>14 DEF Next

\* A running test goes from the probes to the download and from there to the upload, and a
\* phase is not begun again: no timer of its own or of an earlier test takes it back
\* (runNextSpeedTestLatencyProbe), no retry loses what was received.
THEOREM PhasesInOrderAlways == Spec => PhasesInOrder
<1>1. IInv /\ [Next]_vars =>
        [t.running /\ t'.running =>
            \/ t.phase = t'.phase /\ t.received <= t'.received
            \/ <<t.phase, t'.phase>> \in {<<"Latency", "Download">>,
                                         <<"Download", "Upload">>}]_vars
  BY StepInOrder DEF InOrder
<1> QED
  BY <1>1, Invariance, PTL DEF Spec, PhasesInOrder
=============================================================================
