------------------------- MODULE AudioSessionProofs -------------------------
(***************************************************************************)
(* Theorems about AudioSession for any number of sessions and any retry    *)
(* and refresh periods.                                                    *)
(***************************************************************************)
EXTENDS AudioSession, TLAPS

USE DEF NoFault, Fault, Return, Restored, NotRestored, NothingFound, Fresh, Down, Up

-----------------------------------------------------------------------------
(* Types.                                                                  *)

\* The monitor starts within its types.
LEMMA TypeInit ==
    ASSUME Init
    PROVE  TypeOK
<1> USE MonitorAssumption DEF Init, TypeOK
<1>1. state \in [Sessions -> {"absent", "active", "inactive", "expired"}]
  OBVIOUS
<1>2. audible \in [Sessions -> 0..Deadline]
  BY DEF Deadline
<1>3. nextIn \in 0..RefreshTicks /\ unsought \in 0..RetryTicks
  OBVIOUS
<1> QED
  BY <1>1, <1>2, <1>3 DEF Activity

\* Every step of the monitor, the sessions and the clock keeps the types.
LEMMA TypeStep ==
    ASSUME TypeOK, [Next]_vars
    PROVE  TypeOK'
<1> USE MonitorAssumption DEF TypeOK, Activity, Deadline
<1>1. CASE Query
  <2>1. ActivityOf(session) \in Activity
    BY DEF ActivityOf
  <2> QED
    BY <1>1, <2>1 DEF Query, QueryCached, QueryRefresh, QueryMissing
<1>2. CASE DiscoverFails
  <2>0. audible' = [s \in Sessions |-> 0]
    BY <1>2 DEF DiscoverFails
  <2>1. audible' \in [Sessions -> 0..Deadline]
    BY <2>0
  <2>2. {session', previous', candidate'} \subseteq Sessions \cup {None}
    BY <1>2 DEF DiscoverFails
  <2>3. nextIn' \in 0..RefreshTicks /\ unsought' \in 0..RetryTicks
    BY <1>2 DEF DiscoverFails
  <2> QED
    BY <1>2, <2>1, <2>2, <2>3 DEF DiscoverFails
<1>3. CASE DiscoverEnumerates
  BY <1>3 DEF DiscoverEnumerates
<1>4. CASE DiscoverEnds
  BY <1>4 DEF DiscoverEnds
<1>5. ASSUME NEW s \in Sessions, DiscoverLooksAt(s)
      PROVE  TypeOK'
  BY <1>5 DEF DiscoverLooksAt
<1>6. ASSUME NEW s \in Sessions, DiscoverSkips(s)
      PROVE  TypeOK'
  BY <1>6 DEF DiscoverSkips
<1>7. CASE Tick
  BY <1>7 DEF Tick
<1>8. ASSUME NEW s \in Sessions, SessionChanges(s)
      PROVE  TypeOK'
  BY <1>8 DEF SessionChanges, Becomes, monitorVars
<1>9. CASE UNCHANGED vars
  BY <1>9 DEF vars, monitorVars
<1> QED
  BY <1>1, <1>2, <1>3, <1>4, <1>5, <1>6, <1>7, <1>8, <1>9 DEF Next, Discover

\* The state of the monitor keeps its types, for any sessions and periods.
THEOREM MonitorTypes == Spec => []TypeOK
<1> QED
  BY TypeInit, TypeStep, PTL DEF Spec

-----------------------------------------------------------------------------
(* Music is noticed.                                                       *)

\* A session that sounds is found before the deadline: every step keeps it
\* among those still to be looked at and the sum of its time and the deadline
\* bounded.
LEMMA SoundStep ==
    ASSUME SoundMonitorInv, [Next]_vars
    PROVE  SoundInv' /\ MusicNoticed'
<1> USE MonitorAssumption DEF SoundMonitorInv, SoundInv, MusicNoticed, Deadline
<1>0. TypeOK /\ TypeOK'
  BY TypeStep
<1>1. CASE Query
  <2>1. QueryCached => SoundInv' /\ MusicNoticed'
    BY <1>0 DEF QueryCached, TypeOK
  <2>2. QueryRefresh => SoundInv' /\ MusicNoticed'
    BY <1>0 DEF QueryRefresh, TypeOK
  <2>3. QueryMissing => SoundInv' /\ MusicNoticed'
    BY <1>0 DEF QueryMissing, TypeOK
  <2> QED
    BY <1>1, <2>1, <2>2, <2>3 DEF Query
<1>2. CASE DiscoverFails
  <2>1. \A s \in Sessions : audible'[s] = 0
    BY <1>2 DEF DiscoverFails
  <2> QED
    BY <1>0, <1>2, <2>1 DEF DiscoverFails, TypeOK
<1>3. CASE DiscoverEnumerates
  BY <1>0, <1>3 DEF DiscoverEnumerates, TypeOK
<1>4. CASE DiscoverEnds
  <2>1. \A s \in Sessions : audible[s] = 0
    BY <1>0, <1>4 DEF DiscoverEnds, TypeOK
  <2> QED
    BY <1>0, <1>4, <2>1 DEF DiscoverEnds, TypeOK
<1>5. ASSUME NEW s \in Sessions, DiscoverLooksAt(s)
      PROVE  SoundInv' /\ MusicNoticed'
  <2>1. CASE ActivityOf(s) = "active"
    BY <1>0, <1>5, <2>1 DEF DiscoverLooksAt, TypeOK
  <2>2. CASE ActivityOf(s) # "active"
    <3>1. audible[s] = 0
      BY <1>0, <1>5, <2>2 DEF ActivityOf, TypeOK
    <3> QED
      BY <1>0, <1>5, <2>2, <3>1 DEF DiscoverLooksAt, TypeOK
  <2> QED
    BY <2>1, <2>2
<1>6. ASSUME NEW s \in Sessions, DiscoverSkips(s)
      PROVE  SoundInv' /\ MusicNoticed'
  BY <1>0, <1>6 DEF DiscoverSkips, TypeOK
<1>7. CASE Tick
  BY <1>0, <1>7 DEF Tick, TypeOK
<1>8. ASSUME NEW s \in Sessions, SessionChanges(s)
      PROVE  SoundInv' /\ MusicNoticed'
  BY <1>0, <1>8 DEF SessionChanges, Becomes, monitorVars, TypeOK
<1>9. CASE UNCHANGED vars
  BY <1>0, <1>9 DEF vars, monitorVars
<1> QED
  BY <1>1, <1>2, <1>3, <1>4, <1>5, <1>6, <1>7, <1>8, <1>9 DEF Next, Discover

\* Music that plays through the refresh period is reported, however many
\* sessions there are and whatever the others do.
THEOREM MusicIsNoticed == Spec => []MusicNoticed
<1>1. ASSUME Init
      PROVE  SoundMonitorInv
  <2>1. TypeOK
    BY <1>1, TypeInit
  <2>2. SoundInv /\ MusicNoticed
    BY <1>1, MonitorAssumption DEF Init, SoundInv, MusicNoticed, Deadline
  <2> QED
    BY <2>1, <2>2 DEF SoundMonitorInv
<1>2. SoundMonitorInv /\ [Next]_vars => SoundMonitorInv'
  BY TypeStep, SoundStep DEF SoundMonitorInv
<1>3. SoundMonitorInv => MusicNoticed
  BY DEF SoundMonitorInv
<1> QED
  BY <1>1, <1>2, <1>3, PTL DEF Spec

-----------------------------------------------------------------------------
(* Pauses are not lost, and discoveries are spaced.                        *)

\* A monitor that has no session remembers none.
LEMMA ForgottenStep ==
    ASSUME TypeOK, ForgottenInv, [Next]_vars
    PROVE  ForgottenInv'
<1> USE MonitorAssumption DEF ForgottenInv, TypeOK
<1>1. CASE Query
  BY <1>1 DEF Query, QueryCached, QueryRefresh, QueryMissing
<1>2. CASE DiscoverFails
  BY <1>2 DEF DiscoverFails
<1>3. CASE DiscoverEnumerates
  BY <1>3 DEF DiscoverEnumerates
<1>4. CASE DiscoverEnds
  BY <1>4 DEF DiscoverEnds
<1>5. ASSUME NEW s \in Sessions, DiscoverLooksAt(s)
      PROVE  ForgottenInv'
  BY <1>5 DEF DiscoverLooksAt
<1>6. ASSUME NEW s \in Sessions, DiscoverSkips(s)
      PROVE  ForgottenInv'
  BY <1>6 DEF DiscoverSkips
<1>7. CASE Tick
  BY <1>7 DEF Tick
<1>8. ASSUME NEW s \in Sessions, SessionChanges(s)
      PROVE  ForgottenInv'
  BY <1>8 DEF SessionChanges, Becomes, monitorVars
<1>9. CASE UNCHANGED vars
  BY <1>9 DEF vars, monitorVars
<1> QED
  BY <1>1, <1>2, <1>3, <1>4, <1>5, <1>6, <1>7, <1>8, <1>9 DEF Next, Discover

\* A Query whose session was inactive never ends with unavailable.
THEOREM PauseIsKept == Spec => PauseNotLost
<1> DEFINE Inv == TypeOK /\ ForgottenInv
<1>1. Init => Inv
  BY TypeInit DEF Init, ForgottenInv
<1>2. Inv /\ [Next]_vars => Inv'
  BY TypeStep, ForgottenStep
<1>3. ASSUME Inv, [Next]_vars
      PROVE  [pc # "idle" /\ pc' = "idle" /\ previous # None
                => reported' # "unavailable"]_vars
  <2> SUFFICES ASSUME Next, pc # "idle", pc' = "idle", previous # None
               PROVE  reported' # "unavailable"
    BY <1>3
  <2>1. CASE QueryCached
    BY <2>1 DEF QueryCached
  <2>2. CASE QueryMissing
    BY <1>3, <2>2 DEF QueryMissing, ForgottenInv
  <2>3. CASE DiscoverFails \/ DiscoverEnds
    BY <2>3 DEF DiscoverFails, DiscoverEnds
  <2>4. ASSUME NEW s \in Sessions, DiscoverLooksAt(s)
        PROVE  reported' # "unavailable"
    BY <2>4 DEF DiscoverLooksAt
  <2>5. ~ (QueryRefresh \/ DiscoverEnumerates \/ Tick)
    BY DEF QueryRefresh, DiscoverEnumerates, Tick
  <2>6. \A s \in Sessions : ~ (DiscoverSkips(s) \/ SessionChanges(s))
    BY DEF DiscoverSkips, SessionChanges, Becomes, monitorVars
  <2> QED
    BY <2>1, <2>2, <2>3, <2>4, <2>5, <2>6 DEF Next, Query, Discover
<1> QED
  BY <1>1, <1>2, <1>3, PTL DEF Spec, PauseNotLost

\* Without a session the next discovery waits until the retry period is over.
LEMMA MissingStep ==
    ASSUME TypeOK, MissingInv, [Next]_vars
    PROVE  MissingInv'
<1> USE MonitorAssumption DEF MissingInv, TypeOK
<1>1. CASE Query
  BY <1>1 DEF Query, QueryCached, QueryRefresh, QueryMissing
<1>2. CASE DiscoverFails
  BY <1>2 DEF DiscoverFails
<1>3. CASE DiscoverEnumerates
  BY <1>3 DEF DiscoverEnumerates
<1>4. CASE DiscoverEnds
  BY <1>4 DEF DiscoverEnds
<1>5. ASSUME NEW s \in Sessions, DiscoverLooksAt(s)
      PROVE  MissingInv'
  BY <1>5 DEF DiscoverLooksAt
<1>6. ASSUME NEW s \in Sessions, DiscoverSkips(s)
      PROVE  MissingInv'
  BY <1>6 DEF DiscoverSkips
<1>7. CASE Tick
  BY <1>7 DEF Tick
<1>8. ASSUME NEW s \in Sessions, SessionChanges(s)
      PROVE  MissingInv'
  BY <1>8 DEF SessionChanges, Becomes, monitorVars
<1>9. CASE UNCHANGED vars
  BY <1>9 DEF vars, monitorVars
<1> QED
  BY <1>1, <1>2, <1>3, <1>4, <1>5, <1>6, <1>7, <1>8, <1>9 DEF Next, Discover

\* A monitor without a session makes at most one discovery per retry period,
\* unless the count of the devices has failed.
THEOREM DiscoveryIsSpaced == Spec => DiscoverySpaced
<1> DEFINE Inv == TypeOK /\ MissingInv
<1>1. ASSUME Init
      PROVE  Inv
  <2>1. TypeOK
    BY <1>1, TypeInit
  <2>2. MissingInv
    BY <1>1, MonitorAssumption DEF Init, MissingInv
  <2> QED
    BY <2>1, <2>2
<1>2. Inv /\ [Next]_vars => Inv'
  BY TypeStep, MissingStep
<1>3. Inv => [QueryMissing /\ pc' = "discover" => unsought = RetryTicks]_vars
  BY MonitorAssumption DEF MissingInv, QueryMissing, TypeOK
<1> QED
  BY <1>1, <1>2, <1>3, PTL DEF Spec, DiscoverySpaced

=============================================================================
