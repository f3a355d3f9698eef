---------------------------- MODULE AudioSession ----------------------------
(***************************************************************************)
(* AudioActivityMonitor (src/audio_session.cpp): whether the player sounds,*)
(* found from its WASAPI sessions.  One session is cached; the others are  *)
(* looked through again only when the cached one tells too little and the  *)
(* discovery deadline has passed.  A discovery looks at one session after  *)
(* the other while sessions start, stop and expire, and any COM call of it *)
(* may fail.  One tick is one poll.                                        *)
(***************************************************************************)
EXTENDS Integers

CONSTANTS
    Sessions,       \* the audio sessions KuGou's process opens, each once
    RetryTicks,     \* kMissingSessionRetryMs
    RefreshTicks,   \* kInactiveSessionRefreshMs
    FaultKinds,     \* the faults that happen in this instance
    None            \* nullptr, std::nullopt

\* state: GetState fails; create: CoCreateInstance; enumerate:
\* EnumAudioEndpoints; count: GetCount of the devices; skip: a call for one
\* device or one session, which the loop then leaves out.
ASSUME MonitorAssumption ==
    /\ None \notin Sessions
    /\ RetryTicks \in Nat \ {0} /\ RefreshTicks \in Nat \ {0}
    /\ RetryTicks <= RefreshTicks
    /\ FaultKinds \subseteq {"state", "create", "enumerate", "count", "skip"}

VARIABLES
    state,       \* state[s]: what GetState finds of session s
    session,     \* session_
    enumerator,  \* device_enumerator_ is set
    nextIn,      \* ticks until next_discovery_tick_
    pc,          \* the worker's place in Query
    previous,    \* previous, kept only if it was inactive
    unseen,      \* the sessions Discover has still to look at
    candidate,   \* inactive_session
    reported,    \* what the last Query returned
    audible,     \* audible[s]: ticks for which s has been active, and no call
                 \* has failed, counted up to the Deadline
    unsought     \* ticks since the last discovery that set the retry deadline

monitorVars == <<session, enumerator, nextIn, pc, previous, unseen, candidate,
                 reported>>
vars == <<state, monitorVars, audible, unsought>>

Deadline == RefreshTicks + 1
Activity == {"active", "inactive", "unavailable"}

TypeOK ==
    /\ state \in [Sessions -> {"absent", "active", "inactive", "expired"}]
    /\ {session, previous, candidate} \subseteq Sessions \cup {None}
    /\ enumerator \in BOOLEAN
    /\ nextIn \in 0..RefreshTicks
    /\ pc \in {"due", "discover", "scan", "idle"}
    /\ unseen \subseteq Sessions
    /\ reported \in Activity
    /\ audible \in [Sessions -> 0..Deadline]
    /\ unsought \in 0..RetryTicks

Init ==
    /\ state \in [Sessions -> {"absent", "active", "inactive"}]
    /\ session = None /\ enumerator = FALSE /\ nextIn = 0
    /\ pc = "due" /\ previous = None /\ unseen = {} /\ candidate = None
    /\ reported = "unavailable"
    /\ audible = [s \in Sessions |-> 0] /\ unsought = RetryTicks

NoFault == UNCHANGED audible
Fault(kind) == kind \in FaultKinds /\ audible' = [s \in Sessions |-> 0]

\* SessionActivity, unless GetState fails
ActivityOf(s) ==
    IF s # None /\ state[s] \in {"active", "inactive"} THEN state[s] ELSE "unavailable"

Return(activity) == pc' = "idle" /\ reported' = activity

-----------------------------------------------------------------------------
(* Query.                                                                  *)

ServedForEver == TRUE
Fresh == nextIn > 0

\* An active session always answers, an inactive one until the deadline.
QueryCached ==
    /\ pc = "due"
    /\ \/ ActivityOf(session) = "active"
       \/ ActivityOf(session) = "inactive" /\ Fresh
    /\ Return(ActivityOf(session))
    /\ previous' = None
    /\ NoFault
    /\ UNCHANGED <<state, session, enumerator, nextIn, unseen, candidate, unsought>>

\* The cached session is dropped for a discovery; it is remembered if the
\* player has just paused.
QueryRefresh ==
    /\ pc = "due" /\ session # None
    /\ \/ /\ ActivityOf(session) = "inactive" /\ ~Fresh /\ NoFault
          /\ previous' = session
       \/ /\ (ActivityOf(session) = "unavailable" /\ NoFault) \/ Fault("state")
          /\ previous' = None
    /\ session' = None
    /\ pc' = "discover"
    /\ UNCHANGED <<state, enumerator, nextIn, unseen, candidate, reported, unsought>>

QueryMissing ==
    /\ pc = "due" /\ session = None
    /\ \/ nextIn > 0 /\ Return("unavailable")
       \/ nextIn = 0 /\ pc' = "discover" /\ UNCHANGED reported
    /\ previous' = None
    /\ NoFault
    /\ UNCHANGED <<state, session, enumerator, nextIn, unseen, candidate, unsought>>

-----------------------------------------------------------------------------
(* Discover.                                                               *)

\* Discover returned unavailable: Query falls back on the inactive session.
Restored(deadline) ==
    /\ session' = previous /\ nextIn' = RefreshTicks /\ Return("inactive")
RetriedAtOnce(deadline) ==
    /\ session' = None /\ UNCHANGED nextIn /\ Return("unavailable")
NotRestored(deadline) ==
    /\ session' = None /\ nextIn' = deadline /\ Return("unavailable")
NeverRestored(deadline) == NotRestored(deadline)
NothingFound(deadline) ==
    IF previous # None THEN Restored(deadline) ELSE NotRestored(deadline)

\* CoCreateInstance, EnumAudioEndpoints, and GetCount, whose failure sets no
\* new deadline.
DiscoverFails ==
    /\ pc = "discover"
    /\ \/ /\ ~enumerator /\ Fault("create")
          /\ NothingFound(RetryTicks) /\ UNCHANGED enumerator /\ unsought' = 0
       \/ /\ Fault("enumerate")
          /\ NothingFound(RetryTicks) /\ enumerator' = FALSE /\ unsought' = 0
       \/ /\ Fault("count")
          /\ NothingFound(nextIn) /\ enumerator' = TRUE /\ unsought' = RetryTicks
    /\ UNCHANGED <<state, previous, unseen, candidate>>

DiscoverEnumerates ==
    /\ pc = "discover"
    /\ enumerator' = TRUE
    /\ unseen' = {s \in Sessions : state[s] # "absent"}
    /\ candidate' = None
    /\ pc' = "scan"
    /\ NoFault
    /\ UNCHANGED <<state, session, nextIn, previous, reported, unsought>>

\* One session: the first active one is taken, the first inactive one kept.
DiscoverLooksAt(s) ==
    /\ pc = "scan" /\ s \in unseen
    /\ IF ActivityOf(s) = "active"
         THEN /\ session' = s /\ nextIn' = 0 /\ unseen' = {}
              /\ Return("active")
              /\ UNCHANGED candidate
         ELSE /\ unseen' = unseen \ {s}
              /\ candidate' = IF candidate = None /\ ActivityOf(s) = "inactive"
                                THEN s ELSE candidate
              /\ UNCHANGED <<session, nextIn, pc, reported>>
    /\ NoFault
    /\ UNCHANGED <<state, enumerator, previous, unsought>>

DiscoverSkips(s) ==
    /\ pc = "scan" /\ s \in unseen
    /\ Fault("skip") \/ Fault("state")
    /\ unseen' = unseen \ {s}
    /\ UNCHANGED <<state, session, enumerator, nextIn, pc, previous, candidate,
                   reported, unsought>>

DiscoverEnds ==
    /\ pc = "scan" /\ unseen = {}
    /\ IF candidate # None
         THEN /\ session' = candidate /\ nextIn' = RefreshTicks
              /\ Return("inactive") /\ UNCHANGED unsought
         ELSE NothingFound(RetryTicks) /\ unsought' = 0
    /\ NoFault
    /\ UNCHANGED <<state, enumerator, previous, unseen, candidate>>

-----------------------------------------------------------------------------
(* The player, the audio system and the clock.                             *)

Becomes(s, to) ==
    /\ state' = [state EXCEPT ![s] = to]
    /\ audible' = [audible EXCEPT ![s] = 0]
    /\ UNCHANGED <<monitorVars, unsought>>

SessionChanges(s) ==
    \/ state[s] = "absent" /\ \E to \in {"active", "inactive"} : Becomes(s, to)
    \/ state[s] = "active" /\ \E to \in {"inactive", "expired"} : Becomes(s, to)
    \/ state[s] = "inactive" /\ \E to \in {"active", "expired"} : Becomes(s, to)

DownPastZero(n) == n - 1
Down(n) == IF n = 0 THEN 0 ELSE n - 1
Up(n, cap) == IF n = cap THEN cap ELSE n + 1

\* The next poll is due; a Query takes less than a poll.
Tick ==
    /\ pc = "idle"
    /\ pc' = "due"
    /\ nextIn' = Down(nextIn)
    /\ audible' = [s \in Sessions |->
                     IF state[s] = "active" THEN Up(audible[s], Deadline) ELSE 0]
    /\ unsought' = Up(unsought, RetryTicks)
    /\ UNCHANGED <<state, session, enumerator, previous, unseen, candidate, reported>>

-----------------------------------------------------------------------------

Query == QueryCached \/ QueryRefresh \/ QueryMissing
Discover ==
    \/ DiscoverFails \/ DiscoverEnumerates \/ DiscoverEnds
    \/ \E s \in Sessions : DiscoverLooksAt(s) \/ DiscoverSkips(s)

Next == Query \/ Discover \/ Tick \/ \E s \in Sessions : SessionChanges(s)

Spec == Init /\ [][Next]_vars

-----------------------------------------------------------------------------
(* Properties.                                                             *)

\* Music is noticed in time: once a session has played through the refresh
\* period and no call failed meanwhile, Query returns active, whichever session
\* was cached and however the others changed during a discovery.
MusicNoticed ==
    pc = "idle" => reported = "active" \/ \A s \in Sessions : audible[s] < Deadline

\* A paused player is not lost: a Query that still finds its cached session
\* inactive never returns unavailable, whatever fails in the discovery it then
\* makes, so that PlaybackStateForActivity goes on saying paused.
PauseNotLost ==
    [][pc # "idle" /\ pc' = "idle" /\ previous # None => reported' # "unavailable"]_vars

\* A monitor without a session does not look for one in every poll: it waits
\* out the retry period, whatever failed in the last discovery.  Only a failed
\* count of the devices allows another discovery at once (Discover sets no
\* deadline then).
DiscoverySpaced ==
    [][QueryMissing /\ pc' = "discover" => unsought = RetryTicks]_vars

-----------------------------------------------------------------------------
(* The inductive invariant.                                                *)

\* A session that has sounded for a tick is still to be looked at, and the
\* deadline comes before it has sounded for too long.
SoundInv ==
    \A s \in Sessions :
        /\ nextIn + audible[s] <= Deadline
        /\ audible[s] > 0 => state[s] = "active" /\ (pc = "scan" => s \in unseen)

\* With no session, none is remembered from an earlier Query ...
ForgottenInv == pc \in {"due", "idle"} /\ session = None => previous = None

\* ... and the deadline holds until the retry period is over.
MissingInv ==
    pc \in {"due", "idle"} /\ session = None => RetryTicks <= nextIn + unsought

SoundMonitorInv == TypeOK /\ SoundInv /\ MusicNoticed

=============================================================================
