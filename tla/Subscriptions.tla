--------------------------- MODULE Subscriptions ---------------------------
(***************************************************************************)
(* The subscriptions and the profile groups of vpncontroller.cpp: fetching *)
(* one subscription or a queue of them, importing what they hold, and the  *)
(* groups that subscriptions, profiles and group options share.            *)
(*                                                                         *)
(* A fetch works on a COPY of the entry it began with, and every handler   *)
(* may run before its reply is there.  A profile is the server it reaches  *)
(* (findEquivalentProfile), a subscription its url.  The queue is a set:   *)
(* the order of the fetches is left open.  Badges, ping figures, names and *)
(* the order of the lists are left out, as is what an import does to the   *)
(* selection and to an error (Connection).  Saved urls are valid           *)
(* (addSubscription and loadSubscriptions see to it), so the branch of     *)
(* startSubscriptionFetch for an invalid one is never taken.               *)
(***************************************************************************)
EXTENDS Integers, FiniteSets, FiniteSetsExt

CONSTANTS
    Custom,     \* names of groups besides General, as a user may type them
    Servers,    \* servers that links may name
    Urls        \* subscription urls

General == "General"
All == "All"
None == "none"      \* no group, no url: not a name

ASSUME SubscriptionsAssumption ==
    /\ {All, General, None} \cap Custom = {}
    /\ IsFiniteSet(Servers) /\ IsFiniteSet(Urls)

Groups == Custom \cup {General}

VARIABLES
    m,      \* profiles, subscriptions and groups, see BookType
    busy,   \* m_subscriptionBusy
    fetch,  \* what the reply under way was started with, see FetchType
    queue,  \* m_subscriptionRefreshQueue
    tally,  \* m_subscriptionRefreshSuccessCount and m_subscriptionRefreshFailCount
    asked,  \* history: entries the running refresh has to fetch
    gone    \* history: groups removed that nothing has named since

vars == <<m, busy, fetch, queue, tally, asked, gone>>

OptionsType == [enabled : BOOLEAN, exclusive : BOOLEAN]

BookType ==
    [subs : [Urls -> Groups \cup {None}],           \* m_subscriptionEntries: group of each
     profiles : [Servers -> Groups \cup {None}],    \* the model: group of each profile
     options : UNION {[G -> OptionsType] : G \in SUBSET Groups},    \* m_profileGroupOptions
     listed : SUBSET (Groups \cup {All}),           \* m_profileGroups
     current : Groups \cup {All},                   \* m_currentProfileGroup
     filtered : 0..Cardinality(Servers),            \* m_filteredProfileCount
     stray : BOOLEAN]                               \* history: see SetCurrent

Entries == [url : Urls, group : Groups]
FetchType == [url : Urls, group : Groups, refresh : BOOLEAN]
NoFetch == [url |-> None, group |-> None, refresh |-> FALSE]

NamedBy(f) == {f[x] : x \in DOMAIN f} \ {None}
Fresh == [enabled |-> TRUE, exclusive |-> FALSE]

\* profileGroupOptionsFor: a group without a row is enabled.
OptionsFor(b, g) == IF g \in DOMAIN b.options THEN b.options[g] ELSE Fresh

\* upsertProfileGroupOptions
Upsert(b, g, o) ==
    [b EXCEPT !.options = [x \in DOMAIN b.options \cup {g} |-> IF x = g THEN o ELSE b.options[x]]]

-----------------------------------------------------------------------------
(* Groups and figures, recomputed *)

\* The profiles that the current group shows.
Shown(b) ==
    {s \in Servers : /\ b.profiles[s] # None
                     /\ OptionsFor(b, b.profiles[s]).enabled
                     /\ b.current \in {All, b.profiles[s]}}

\* fault: disabled groups count
RecomputeAll(b) ==
    [b EXCEPT !.filtered =
        Cardinality({s \in Servers : b.profiles[s] # None /\ b.current \in {All, b.profiles[s]}})]

\* recomputeProfileStats
Recompute(b) ==
    [b EXCEPT !.filtered = Cardinality(Shown(b)),
              !.stray = @ /\ b.current \notin b.listed]

\* fault: a group that only profiles name is not listed
RefreshWithoutProfiles(b) ==
    LET named == NamedBy(b.subs) \cup DOMAIN b.options
        rows == [g \in named \cup {General} |-> OptionsFor(b, g)]
    IN  [b EXCEPT
            !.listed = named \cup {All},
            !.options = rows,
            !.current = IF @ \in named /\ rows[@].enabled THEN @ ELSE All]

\* refreshProfileGroups.  normalizeGroupName makes General of "All": the row kept for
\* the entry All of the list is General's, which therefore always exists.
Refresh(b) ==
    LET named == NamedBy(b.subs) \cup NamedBy(b.profiles) \cup DOMAIN b.options
        rows == [g \in named \cup {General} |-> OptionsFor(b, g)]
        wanting == {g \in DOMAIN rows : rows[g].exclusive /\ rows[g].enabled}
        kept == IF wanting = {} THEN None ELSE CHOOSE g \in wanting : TRUE
    IN  [b EXCEPT
            !.listed = named \cup {All},
            !.options = [g \in DOMAIN rows |-> [rows[g] EXCEPT !.exclusive = (g = kept)]],
            !.current = IF @ \in named /\ rows[@].enabled THEN @ ELSE All]

\* The constructor's handler of the model's signals.
ModelChanged(b) == Refresh(Recompute(b))

\* importLinks: addProfile changes or adds one profile after the other.
ImportLinks(b, found, g) ==
    FoldSet(LAMBDA s, acc : ModelChanged([acc EXCEPT !.profiles[s] = g]), b, found)

-----------------------------------------------------------------------------
(* The user and the groups *)

Fetches == UNCHANGED <<busy, fetch, queue, tally, asked>>
Names(g) == gone' = gone \ {g}

\* fault: the disabled group stays the current one
SetEnabledOnly(g, on) ==
    LET o == OptionsFor(m, g)
    IN  /\ o.enabled # on
        /\ m' = Recompute(Upsert(m, g, [enabled |-> on, exclusive |-> o.exclusive /\ on]))
        /\ Names(g) /\ Fetches

\* setProfileGroupEnabled
SetEnabled(g, on) ==
    LET o == OptionsFor(m, g)
        b == Upsert(m, g, [enabled |-> on, exclusive |-> o.exclusive /\ on])
    IN  /\ o.enabled # on
        /\ m' = Recompute([b EXCEPT !.current = IF ~on /\ @ = g THEN All ELSE @])
        /\ Names(g) /\ Fetches

\* fault: the others stay exclusive
SetExclusiveToo(g, on) ==
    LET o == OptionsFor(m, g)
    IN  /\ o.exclusive # on
        /\ m' = Recompute(Upsert(m, g, [enabled |-> o.enabled \/ on, exclusive |-> on]))
        /\ Names(g) /\ Fetches

\* setProfileGroupExclusive: one group at most; it is enabled with that.
SetExclusive(g, on) ==
    LET o == OptionsFor(m, g)
        others == [x \in DOMAIN m.options |->
                      [m.options[x] EXCEPT !.exclusive = @ /\ ~on]]
    IN  /\ o.exclusive # on
        /\ m' = Recompute(Upsert([m EXCEPT !.options = others], g,
                                 [enabled |-> o.enabled \/ on, exclusive |-> on]))
        /\ Names(g) /\ Fetches

\* ensureProfileGroup
EnsureGroup(g) ==
    /\ g \notin DOMAIN m.options \/ g \notin m.listed
    /\ m' = Refresh(Upsert(m, g, OptionsFor(m, g)))
    /\ Names(g) /\ Fetches

\* setCurrentProfileGroup.  The import dialog passes the name typed there, which
\* need not be a group yet: then it is current without being listed (stray).
SetCurrent(g) ==
    LET next == IF g = All \/ ~OptionsFor(m, g).enabled THEN All ELSE g
    IN  /\ next # m.current
        /\ m' = Recompute([m EXCEPT !.current = next, !.stray = next \notin m.listed])
        /\ Names(g) /\ Fetches

ToGeneral(f, moved) == [x \in DOMAIN f |-> IF f[x] \in moved THEN General ELSE f[x]]

\* fault: the subscriptions stay where they were
ClearedButSubs(b, moved, kept) ==
    LET c == [b EXCEPT !.profiles = ToGeneral(@, moved),
                       !.options = [g \in kept |-> b.options[g]]]
        d == IF c.profiles # b.profiles THEN ModelChanged(c) ELSE c
    IN  Recompute(Refresh(d))

\* What removing groups leaves: setProfiles signals a reset, then the explicit refresh.
Cleared(b, moved, kept) ==
    LET c == [b EXCEPT !.subs = ToGeneral(@, moved),
                       !.profiles = ToGeneral(@, moved),
                       !.options = [g \in kept |-> b.options[g]]]
        d == IF c.profiles # b.profiles THEN ModelChanged(c) ELSE c
    IN  Recompute(Refresh(d))

\* Groups into which a reply under way or queued will import: of the copies.
Targets == (IF fetch = NoFetch THEN {} ELSE {fetch.group}) \cup {e.group : e \in queue}

\* removeProfileGroup; the button of a listed group works during a fetch, too.
RemoveGroup(g) ==
    /\ g # General
    /\ g \in m.listed \cap Groups
    /\ m' = Cleared(m, {g}, DOMAIN m.options \ {g})
    /\ gone' = gone \cup ({g} \ Targets)
    /\ Fetches

\* removeAllProfileGroups; its button is disabled during a fetch.
RemoveAllGroups ==
    /\ ~busy
    /\ m.listed \ {All, General} # {}
    /\ m' = Cleared(m, Custom, {})
    /\ gone' = gone \cup (m.listed \ {All, General})
    /\ Fetches

-----------------------------------------------------------------------------
(* The user and the profiles *)

\* updateProfileBasics
EditProfile(s, g) ==
    LET b == ModelChanged([m EXCEPT !.profiles[s] = g])
    IN  /\ m.profiles[s] \notin {None, g}
        /\ m' = Recompute(Refresh(Upsert(b, g, OptionsFor(b, g))))
        /\ Names(g) /\ Fetches

\* removeProfile
RemoveProfile(s) ==
    /\ m.profiles[s] # None
    /\ m' = ModelChanged([m EXCEPT !.profiles[s] = None])
    /\ UNCHANGED gone /\ Fetches

\* importProfileBatch: into the current group; the dialog waits for a fetch to end.
ImportBatch(found) ==
    LET g == IF m.current = All THEN General ELSE m.current
    IN  /\ ~busy
        /\ found # {}
        /\ m' = ImportLinks(m, found, g)
        /\ Names(g) /\ Fetches

-----------------------------------------------------------------------------
(* Fetching *)

\* fault: the operation is not announced
StartOnly(e, refresh) ==
    /\ fetch' = [url |-> e.url, group |-> e.group, refresh |-> refresh]
    /\ UNCHANGED busy

\* beginSubscriptionOperation and startSubscriptionFetch
Begin(e, refresh) ==
    /\ busy' = TRUE
    /\ fetch' = [url |-> e.url, group |-> e.group, refresh |-> refresh]

\* addSubscription: a known url keeps its entry, under the new group.
AddSubscription(u, g) ==
    /\ ~busy
    /\ m' = Refresh([m EXCEPT !.subs[u] = g])
    /\ Begin([url |-> u, group |-> g], FALSE)
    /\ Names(g)
    /\ UNCHANGED <<queue, tally, asked>>

\* refreshSubscriptions, refreshSubscriptionsByGroup: copies of the entries chosen.
StartRefresh(of) ==
    LET entries == {[url |-> u, group |-> m.subs[u]] : u \in {v \in Urls : m.subs[v] \in of}}
    IN  /\ ~busy
        /\ entries # {}
        /\ tally' = [ok |-> 0, failed |-> 0]
        /\ asked' = Cardinality(entries)
        /\ \E e \in entries : Begin(e, TRUE) /\ queue' = entries \ {e}
        /\ UNCHANGED <<m, gone>>

RefreshSubscriptions == StartRefresh(Groups)
RefreshSubscriptionsByGroup(g) == StartRefresh({g})

\* fault: the queue is begun again
NextOfQueueAgain ==
    \/ queue = {} /\ busy' = FALSE /\ fetch' = NoFetch /\ UNCHANGED queue
    \/ \E e \in queue :
         /\ fetch' = [url |-> e.url, group |-> e.group, refresh |-> TRUE]
         /\ UNCHANGED <<queue, busy>>

\* The end of a refresh step: the next of the queue, or finishRefreshSubscriptions.
NextOfQueue ==
    \/ /\ queue = {}
       /\ busy' = FALSE /\ fetch' = NoFetch
       /\ UNCHANGED queue
    \/ \E e \in queue :
         /\ queue' = queue \ {e}
         /\ fetch' = [url |-> e.url, group |-> e.group, refresh |-> TRUE]
         /\ UNCHANGED busy

\* fault: an entry that failed is queued again
FetchEndsOrAgain(found) ==
    /\ fetch # NoFetch
    /\ m' = ImportLinks(m, found, fetch.group)
    /\ LET failed == IF found = {} THEN {[url |-> fetch.url, group |-> fetch.group]} ELSE {}
       IN  IF fetch.refresh /\ queue # {}
           THEN \E e \in queue :
                  /\ queue' = (queue \ {e}) \cup failed
                  /\ fetch' = [url |-> e.url, group |-> e.group, refresh |-> TRUE]
                  /\ tally' = IF found # {} THEN [tally EXCEPT !.ok = @ + 1] ELSE tally
                  /\ UNCHANGED busy
           ELSE /\ busy' = FALSE /\ fetch' = NoFetch
                /\ UNCHANGED <<queue, tally>>
    /\ UNCHANGED <<asked, gone>>

\* fault: an entry without profiles is not counted
FetchEndsUncounted(found) ==
    /\ fetch # NoFetch
    /\ m' = ImportLinks(m, found, fetch.group)
    /\ IF fetch.refresh
       THEN /\ tally' = IF found # {} THEN [tally EXCEPT !.ok = @ + 1] ELSE tally
            /\ NextOfQueue
       ELSE /\ busy' = FALSE /\ fetch' = NoFetch
            /\ UNCHANGED <<queue, tally>>
    /\ UNCHANGED <<asked, gone>>

\* finished(): links found, none, an error, the transfer timeout or the watchdog.
FetchEnds(found) ==
    /\ fetch # NoFetch
    /\ m' = ImportLinks(m, found, fetch.group)
    /\ IF fetch.refresh
       THEN /\ tally' = IF found # {} THEN [tally EXCEPT !.ok = @ + 1]
                                      ELSE [tally EXCEPT !.failed = @ + 1]
            /\ NextOfQueue
       ELSE /\ busy' = FALSE /\ fetch' = NoFetch
            /\ UNCHANGED <<queue, tally>>
    /\ UNCHANGED <<asked, gone>>

-----------------------------------------------------------------------------
Empty ==
    [subs |-> [u \in Urls |-> None], profiles |-> [s \in Servers |-> None],
     options |-> [g \in {} |-> Fresh], listed |-> {}, current |-> All,
     filtered |-> 0, stray |-> FALSE]

\* The constructor, with nothing saved.
Init ==
    /\ m = Recompute(Refresh(Empty))
    /\ busy = FALSE /\ fetch = NoFetch /\ queue = {}
    /\ tally = [ok |-> 0, failed |-> 0]
    /\ asked = 0 /\ gone = {}

Next ==
    \/ \E g \in Groups, on \in BOOLEAN : SetEnabled(g, on) \/ SetExclusive(g, on)
    \/ \E g \in Groups : EnsureGroup(g) \/ RemoveGroup(g) \/ RefreshSubscriptionsByGroup(g)
    \/ \E g \in Groups \cup {All} : SetCurrent(g)
    \/ RemoveAllGroups
    \/ \E s \in Servers : RemoveProfile(s) \/ \E g \in Groups : EditProfile(s, g)
    \/ \E found \in SUBSET Servers : ImportBatch(found) \/ FetchEnds(found)
    \/ \E u \in Urls, g \in Groups : AddSubscription(u, g)
    \/ RefreshSubscriptions

\* A reply ends: the transfer timeout, and the watchdog behind it, abort it.
Spec == Init /\ [][Next]_vars /\ WF_vars(\E found \in SUBSET Servers : FetchEnds(found))

-----------------------------------------------------------------------------
(* Properties *)

\* The types of the fields.
TypeOK ==
    /\ m \in BookType
    /\ busy \in BOOLEAN
    /\ fetch \in FetchType \cup {NoFetch}
    /\ queue \subseteq Entries
    /\ tally \in [ok : 0..Cardinality(Urls), failed : 0..Cardinality(Urls)]
    /\ asked \in 0..Cardinality(Urls)
    /\ gone \subseteq Custom

\* The buttons wait exactly as long as a reply is under way, and only a refresh
\* leaves entries queued (beginSubscriptionOperation, endSubscriptionOperation).
BusyIsBacked ==
    /\ busy <=> fetch # NoFetch
    /\ queue # {} => fetch.refresh

\* Each entry a refresh began with is queued, under way, or counted once, as a success
\* or a failure (finishRefreshSubscriptions reports the two counts).
EntriesAreCounted ==
    fetch.refresh => tally.ok + tally.failed + Cardinality(queue) + 1 = asked

\* The queue, the busy flag and the counts of a refresh hold together.
RefreshIsCounted == BusyIsBacked /\ EntriesAreCounted

\* A group that a profile or a subscription names can be chosen and configured,
\* whatever import, edit or removal put it there (refreshProfileGroups).
GroupsComplete ==
    NamedBy(m.subs) \cup NamedBy(m.profiles) \subseteq m.listed \cap DOMAIN m.options

\* The current group is never a disabled one: its profiles would all be hidden
\* (setProfileGroupEnabled, setCurrentProfileGroup, refreshProfileGroups).
CurrentIsEnabled == m.current # All => OptionsFor(m, m.current).enabled

\* At most one group is exclusive, and that one is enabled (setProfileGroupExclusive,
\* setProfileGroupEnabled, refreshProfileGroups).
OneExclusive ==
    LET exclusive == {g \in DOMAIN m.options : m.options[g].exclusive}
    IN  /\ Cardinality(exclusive) <= 1
        /\ \A g \in exclusive : m.options[g].enabled

\* The figure shown is that of the current group, although the model's signals compute
\* it before the groups are refreshed; unless the current group was chosen before it
\* was one (recomputeProfileStats, the constructor's handlers).
StatsAreCurrent == m.stray \/ m.filtered = Cardinality(Shown(m))

\* A group the user removed does not come back by itself, except through a fetch
\* that was to fill it when it was removed (removeProfileGroup, startSubscriptionFetch).
RemovedStaysGone == gone \cap m.listed = {}

\* The groups, their options, the selection and the figures shown hold together.
GroupsAgree ==
    GroupsComplete /\ CurrentIsEnabled /\ OneExclusive /\ StatsAreCurrent /\ RemovedStaysGone

\* A fetch, and the refresh of any number of subscriptions, comes to its end.
RefreshEnds == busy ~> ~busy
=============================================================================
