-------------------------- MODULE UsageAccounting ---------------------------
(***************************************************************************)
(* The per-profile usage books of vpncontroller.cpp: sampling of the       *)
(* tunnel's counters, sessions, saving to disk and clearing.               *)
(*                                                                         *)
(* Two counters exist for one child: its statistics API, which a worker    *)
(* polls (pollTrafficStats), and the sums XrayProcessManager parses from   *)
(* its log lines (onTrafficUpdated).  They need not agree.  Down and up    *)
(* are booked alike: one direction stands for both.  The connection's life *)
(* cycle is that of module Connection, proxy mode, with the parts that do  *)
(* not touch the books left out; a profile is its id, a row the id in it.  *)
(***************************************************************************)
EXTENDS Integers, FiniteSetsExt

CONSTANTS
    MaxProfile,     \* bound: profiles
    MaxBytes,       \* bound: units of traffic
    MaxStarts,      \* bound: children launched
    MaxClears       \* bound: books cleared

ASSUME UsageAssumption ==
    /\ MaxProfile \in Nat \ {0}
    /\ MaxBytes \in Nat /\ MaxStarts \in Nat /\ MaxClears \in Nat

VARIABLES
    ctl,        \* the controller's connection fields, see CtlType
    child,      \* the xray process, see ChildType
    sample,     \* m_profileUsageLastRxSample, -1: none
    shown,      \* m_rxBytes
    session,    \* m_usageSessionProfileId, m_usageSessionRxBytes
    poll,       \* the statistics poll under way (m_statsPolling), see PollType
    books,      \* m_profileUsageRoot: per profile the total and the sum of its sessions
    dirty,      \* history: books has changed since the last attempt to save them
    saving,     \* m_profileUsageSaveTimer is active
    phase,      \* of the application: up, quitting or gone
    moved,      \* history: traffic of all children, how much of it they logged, and what
                \* late answers may have booked again
    used        \* children launched, books cleared

account == <<books, session, sample, saving, dirty>>
vars == <<ctl, child, shown, poll, phase, moved, used, account>>

Profiles == 1..MaxProfile
Profile0 == 0..MaxProfile           \* 0: none

CtlType ==
    [state : {"Disconnected", "Connecting", "Connected", "Error"},
     selected : Profile0,           \* m_currentProfileId
     active : Profile0,             \* m_activeProfileUsageId
     pending : Profile0,            \* m_pendingReconnectProfileIndex
     posted : Profile0,             \* the single shot of maybeReconnectToPendingProfile
     cancelled : BOOLEAN,           \* m_disconnectRequested
     stopping : BOOLEAN,            \* m_stoppingProcess
     timer : BOOLEAN]               \* m_statsPollTimer is active

ChildType ==
    [pc : {"none", "starting", "running"}, profile : Profile0,
     api : 0..MaxBytes,             \* its statistics API
     log : 0..MaxBytes]             \* XrayProcessManager::m_rxBytes

PollType == [stage : {"none", "asked", "answered"}, value : -1..MaxBytes]

NoChild == [pc |-> "none", profile |-> 0, api |-> 0, log |-> 0]
NoPoll == [stage |-> "none", value |-> -1]
NoSession == [id |-> 0, bytes |-> 0]
Empty == [total |-> 0, closed |-> 0]
NoBooks == [p \in Profiles |-> Empty]
AtStart(p) ==
    [state |-> "Disconnected", selected |-> p, active |-> 0, pending |-> 0, posted |-> 0,
     cancelled |-> FALSE, stopping |-> FALSE, timer |-> FALSE]

Alive == child.pc # "none"
Busy == ctl.state = "Connecting"

-----------------------------------------------------------------------------
(* Booking.  An account is what a handler may change: books, session, sample, saving. *)

Account == [books |-> books, session |-> session, sample |-> sample, saving |-> saving]

Becomes(a) ==
    /\ books' = a.books /\ session' = a.session /\ sample' = a.sample /\ saving' = a.saving
    /\ dirty' = (dirty \/ a.books # books)

Reset(a) == [a EXCEPT !.sample = -1]

\* recordProfileUsageDelta
Record(a, p, delta) ==
    [a EXCEPT !.books[p].total = @ + delta,
              !.session.bytes = IF a.session.id = p THEN @ + delta ELSE @,
              !.saving = TRUE]

BookedOn(c) == IF c.active # 0 THEN c.active ELSE c.selected

\* fault: without an earlier sample everything is booked
CountFirst(a, c, next) ==
    LET p == BookedOn(c)
        delta == next - (IF a.sample < 0 THEN 0 ELSE a.sample)
        known == [a EXCEPT !.sample = next]
    IN  IF p = 0 \/ delta <= 0 THEN known ELSE Record(known, p, delta)

\* fault: no thought of counters that go back
BookDifference(a, c, next) ==
    LET p == BookedOn(c)
        grown == next - a.sample
        known == [a EXCEPT !.sample = next]
    IN  IF p = 0 \/ a.sample < 0 \/ grown = 0 THEN known ELSE Record(known, p, grown)

\* updatePerProfileUsageCounters: the first sample is only noted; a counter that went
\* back has been restarted.
Sampled(a, c, next) ==
    LET p == BookedOn(c)
        grown == next - a.sample
        delta == IF grown < 0 THEN next ELSE grown
        known == [a EXCEPT !.sample = next]
    IN  IF p = 0 \/ a.sample < 0 \/ delta = 0 THEN known ELSE Record(known, p, delta)

Noted(next) ==
    IF next = shown THEN UNCHANGED <<account, shown>>
    ELSE Becomes(Sampled(Account, ctl, next)) /\ shown' = next

\* endProfileUsageSession(id); 0 stands for any.
SessionEnded(a, id) ==
    IF a.session.id = 0 \/ id \notin {0, a.session.id} THEN a
    ELSE [a EXCEPT !.books[a.session.id].closed = @ + a.session.bytes,
                   !.session = NoSession, !.saving = TRUE]

\* beginProfileUsageSession
SessionBegun(a, id) ==
    IF id \in {0, a.session.id} THEN a
    ELSE [SessionEnded(a, a.session.id) EXCEPT !.session = [id |-> id, bytes |-> 0]]

-----------------------------------------------------------------------------
(* The connection, as far as the books see it *)

Asked == IF poll.stage = "none" THEN [stage |-> "asked", value |-> -1] ELSE poll

Reconnecting(c) ==
    IF c.pending = 0 THEN c ELSE [c EXCEPT !.pending = 0, !.posted = c.pending]

\* disconnect(): c is ctl as the caller leaves it.
StopCall(c) ==
    LET stopped == [c EXCEPT !.cancelled = TRUE, !.timer = FALSE]
    IN  IF Alive
        THEN /\ ctl' = [stopped EXCEPT !.stopping = TRUE, !.state = "Connecting"]
             /\ Becomes(Reset(Account))
        ELSE /\ ctl' = Reconnecting([stopped EXCEPT !.stopping = FALSE, !.cancelled = FALSE,
                                                    !.state = "Disconnected"])
             /\ Becomes(SessionEnded(Reset(Account), c.active))

Disconnect ==
    /\ Alive \/ ctl.state \in {"Connected", "Connecting"}
    /\ StopCall(ctl)
    /\ UNCHANGED <<child, shown, poll, phase, moved, used>>

\* setCurrentProfileIndex, to a profile ...
SelectProfile ==
    /\ \E p \in Profiles \ {ctl.selected} :
          IF ~Busy /\ ctl.selected # 0 /\ (ctl.state = "Connected" \/ Alive)
          THEN StopCall([ctl EXCEPT !.selected = p, !.pending = p])
          ELSE ctl' = [ctl EXCEPT !.selected = p] /\ UNCHANGED account
    /\ UNCHANGED <<child, shown, poll, phase, moved, used>>

\* ... and to none, which removeAllProfiles and an import do.
ClearSelection ==
    /\ ctl.selected # 0
    /\ ctl' = [ctl EXCEPT !.selected = 0, !.pending = 0, !.active = 0]
    /\ sample' = -1
    /\ UNCHANGED <<child, shown, session, poll, books, saving, dirty, phase, moved, used>>

\* fault: the usage id is set only when there is none
KeepActive(p, c) ==
    [c EXCEPT !.selected = p, !.cancelled = FALSE, !.active = IF @ = 0 THEN p ELSE @]

ForProfile(p, c) == [c EXCEPT !.selected = p, !.cancelled = FALSE, !.active = p]

Launch(p, c) ==
    /\ used.starts < MaxStarts
    /\ sample' = -1
    /\ \/ /\ ctl' = [ForProfile(p, c) EXCEPT !.state = "Connecting"]
          /\ shown' = 0
          /\ child' = [NoChild EXCEPT !.pc = "starting", !.profile = p]
          /\ used' = [used EXCEPT !.starts = @ + 1]
       \/ /\ ctl' = [ForProfile(p, c) EXCEPT !.state = "Error"]     \* no configuration
          /\ UNCHANGED <<shown, child, used>>
    /\ UNCHANGED <<books, session, saving, dirty>>

ConnectCall(p, c) ==
    /\ c.state # "Connecting"
    /\ IF ~Alive THEN Launch(p, c)
       ELSE /\ IF p # c.selected \/ c.pending # 0
               THEN StopCall([c EXCEPT !.pending = p])
               ELSE /\ ctl' = [c EXCEPT !.state = "Connected"]
                    /\ UNCHANGED account
            /\ UNCHANGED <<shown, child, used>>

ConnectToProfile ==
    /\ \E p \in Profiles : ConnectCall(p, ctl)
    /\ UNCHANGED <<poll, phase, moved>>

ReconnectFires ==
    /\ ctl.posted # 0
    /\ LET c == [ctl EXCEPT !.posted = 0]
       IN  \/ ConnectCall(ctl.posted, c)
           \/ /\ Busy \/ (~Alive /\ used.starts = MaxStarts)
              /\ ctl' = c
              /\ UNCHANGED <<account, shown, child, used>>
    /\ UNCHANGED <<poll, phase, moved>>

ProcessStarted ==
    /\ child.pc = "starting"
    /\ child' = [child EXCEPT !.pc = "running"]
    /\ IF ctl.cancelled
       THEN /\ ctl' = [ctl EXCEPT !.stopping = TRUE]
            /\ UNCHANGED <<account, poll>>
       ELSE /\ ctl' = [ctl EXCEPT !.stopping = FALSE, !.state = "Connected", !.timer = TRUE]
            /\ Becomes(SessionBegun(Reset(Account), ctl.active))
            /\ poll' = Asked
    /\ UNCHANGED <<shown, phase, moved, used>>

\* onProcessError: a failed start, or an error reported of a running child.
ProcessError ==
    /\ Alive
    /\ child' \in IF child.pc = "starting" THEN {NoChild} ELSE {child}
    /\ IF ctl.stopping THEN UNCHANGED <<ctl, account>>
       ELSE /\ ctl' = [ctl EXCEPT !.timer = FALSE, !.state = "Error"]
            /\ Becomes(Reset(SessionEnded(Account, ctl.active)))
    /\ UNCHANGED <<shown, poll, phase, moved, used>>

ClosedByEnd(a, id) == Reset(SessionEnded(a, id))

\* onProcessStopped, after onProcessError when the child crashed.
ProcessStopped ==
    /\ child.pc = "running"
    /\ child' = NoChild
    /\ Becomes(ClosedByEnd(Account, ctl.active))
    /\ LET c == [ctl EXCEPT !.timer = FALSE]
       IN  IF ctl.stopping
           THEN ctl' = Reconnecting([c EXCEPT !.stopping = FALSE, !.cancelled = FALSE,
                                              !.state = "Disconnected"])
           ELSE \/ ctl' = [c EXCEPT !.state = "Error"]              \* crash
                \/ ctl' = [c EXCEPT !.state = IF @ = "Error" THEN @ ELSE "Disconnected",
                                    !.cancelled = FALSE, !.pending = 0, !.active = 0]
    /\ UNCHANGED <<shown, poll, phase, moved, used>>

-----------------------------------------------------------------------------
(* Traffic, and the two ways to hear of it *)

TrafficMoves ==
    /\ child.pc = "running"
    /\ moved.real < MaxBytes
    /\ child' = [child EXCEPT !.api = @ + 1]
    /\ moved' = [moved EXCEPT !.real = @ + 1]
    /\ UNCHANGED <<ctl, shown, poll, account, phase, used>>

\* A log line that reports traffic, then onTrafficUpdated.
LogLine ==
    /\ child.pc = "running" /\ child.log < child.api
    /\ child' = [child EXCEPT !.log = @ + 1]
    /\ IF ctl.timer THEN UNCHANGED <<account, shown>>
                    ELSE Noted(child'.log)
    /\ moved' = [moved EXCEPT !.logged = @ + 1]
    /\ UNCHANGED <<ctl, poll, phase, used>>

\* pollTrafficStats: the timer asks, ...
PollAsks ==
    /\ ctl.timer /\ ctl.state = "Connected" /\ poll.stage = "none"
    /\ poll' = Asked
    /\ UNCHANGED <<ctl, child, shown, account, phase, moved, used>>

\* ... the worker reads what answers at the port, if anything does, ...
PollReads ==
    /\ poll.stage = "asked"
    /\ poll' \in [stage : {"answered"},
                  value : {-1} \union (IF child.pc = "running" THEN {child.api} ELSE {})]
    /\ UNCHANGED <<ctl, child, shown, account, phase, moved, used>>

\* ... and its answer is handled later on the GUI thread: too late, if the timer has
\* stopped and the log counts again.
TooLate == ~ctl.timer /\ poll.value # shown

PollArrives ==
    /\ poll.stage = "answered"
    /\ poll' = NoPoll
    /\ IF ctl.state = "Connected" /\ poll.value >= 0
       THEN /\ Noted(poll.value)
            /\ moved' = IF TooLate THEN [moved EXCEPT !.again = @ + moved.real] ELSE moved
       ELSE UNCHANGED <<account, shown, moved>>
    /\ UNCHANGED <<ctl, child, phase, used>>

-----------------------------------------------------------------------------
(* The file *)

\* saveProfileUsage: QSaveFile replaces the file, or leaves it and nobody is told.
Saved == dirty' = FALSE

SaveTimerFires ==
    /\ saving
    /\ saving' = FALSE
    /\ Saved
    /\ UNCHANGED <<ctl, child, sample, shown, session, poll, books, phase, moved, used>>

\* fault: the open session keeps its bytes
ForgetTotals(p) ==
    /\ books' = [books EXCEPT ![p] = Empty]
    /\ UNCHANGED session

Forget(p) ==
    /\ books' = [books EXCEPT ![p] = Empty]
    /\ session' = IF session.id = p THEN [session EXCEPT !.bytes = 0] ELSE session

ClearIsSaved == saving' = TRUE /\ dirty' = TRUE

Clearing ==
    /\ used.clears < MaxClears
    /\ used' = [used EXCEPT !.clears = @ + 1]

ClearCurrentProfileUsage ==
    /\ Clearing
    /\ ctl.selected # 0 /\ books[ctl.selected] # Empty
    /\ Forget(ctl.selected)
    /\ ClearIsSaved
    /\ UNCHANGED <<ctl, child, sample, shown, poll, phase, moved>>

ClearAllProfileUsage ==
    /\ Clearing
    /\ books' = NoBooks
    /\ session' = NoSession
    /\ ClearIsSaved
    /\ UNCHANGED <<ctl, child, sample, shown, poll, phase, moved>>

\* aboutToQuit: the poll timer is stopped and the session ended before the child is
\* waited for, so that what it logs until it is gone is still counted.  The fields
\* nobody reads any more are forgotten.
AboutToQuit ==
    /\ phase' = "quitting"
    /\ ctl' = [AtStart(ctl.selected) EXCEPT !.active = ctl.active, !.cancelled = TRUE]
    /\ Becomes(SessionEnded(Account, ctl.active))
    /\ poll' = NoPoll
    /\ UNCHANGED <<child, shown, moved, used>>

\* fault: the destructor relies on the timer it has just stopped
LeaveToTimer == UNCHANGED dirty

FinalSave == Saved

\* The destructor; the session it ends has ended already.
Destroyed ==
    /\ phase = "quitting"
    /\ phase' = "gone"
    /\ FinalSave
    /\ saving' = FALSE
    /\ ctl' = AtStart(0) /\ child' = NoChild /\ poll' = NoPoll /\ shown' = 0 /\ sample' = -1
    /\ UNCHANGED <<books, session, moved, used>>

Init ==
    /\ ctl \in {AtStart(0), AtStart(1)}      \* no profile, or the first: they are alike
    /\ child = NoChild
    /\ sample = -1
    /\ shown = 0
    /\ session = NoSession
    /\ poll = NoPoll
    /\ books = NoBooks
    /\ dirty = FALSE
    /\ saving = FALSE
    /\ phase = "up"
    /\ moved = [real |-> 0, logged |-> 0, again |-> 0]
    /\ used = [starts |-> 0, clears |-> 0]

Running ==
    \/ Disconnect
    \/ SelectProfile
    \/ ClearSelection
    \/ ConnectToProfile
    \/ ReconnectFires
    \/ ProcessStarted
    \/ ProcessError
    \/ ProcessStopped
    \/ TrafficMoves
    \/ LogLine
    \/ PollAsks
    \/ PollReads
    \/ PollArrives
    \/ SaveTimerFires
    \/ ClearCurrentProfileUsage
    \/ ClearAllProfileUsage

Next ==
    \/ phase = "up" /\ (Running \/ AboutToQuit)
    \/ phase = "quitting" /\ LogLine
    \/ Destroyed

Spec == Init /\ [][Next]_vars

-----------------------------------------------------------------------------
(* Properties *)

BooksType == [Profiles -> [total : Nat, closed : Nat]]

TypeOK ==
    /\ ctl \in CtlType
    /\ child \in ChildType
    /\ sample \in -1..MaxBytes
    /\ shown \in 0..MaxBytes
    /\ session \in [id : Profile0, bytes : Nat]
    /\ poll \in PollType
    /\ books \in BooksType /\ dirty \in BOOLEAN
    /\ saving \in BOOLEAN /\ phase \in {"up", "quitting", "gone"}
    /\ moved \in [real : 0..MaxBytes, logged : 0..MaxBytes, again : Nat]
    /\ used \in [starts : 0..MaxStarts, clears : 0..MaxClears]

TotalBooked == MapThenSumSet(LAMBDA p : books[p].total, Profiles)

\* Whatever restarts, resets, late answers and changes from one counter to the other
\* there are, no movement of a counter is booked twice; except that an answer that is
\* handled after the poll timer has stopped is compared with the log's counter, which
\* makes up for it by what all children have moved, and no more (onTrafficUpdated and
\* pollTrafficStats share one sample).
BookedPerCounter == TotalBooked <= moved.real + moved.logged + moved.again

\* The bytes of a profile's sessions, the open one included, are among its total, also
\* after the books were cleared in the middle of a session.
SessionWithinTotal ==
    \A p \in Profiles :
        books[p].closed + (IF session.id = p THEN session.bytes ELSE 0) <= books[p].total

\* What moved, what is booked in total and what is booked by session agree.
BooksAddUp == BookedPerCounter /\ SessionWithinTotal

\* Every change of the books leads to an attempt to write them: the timer runs, and
\* quitting, which stops it, makes up for it.
DirtyIsScheduled == dirty => saving

\* Traffic is booked on the profile whose child runs, whatever is selected, as long as
\* the controller knows the running profile's usage id.
BookedOnRunner ==
    [][\A p \in Profiles : books'[p].total > books[p].total /\ ctl.active # 0
            => child.profile = p]_vars
=============================================================================
