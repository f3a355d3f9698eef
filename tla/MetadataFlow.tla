---------------------------- MODULE MetadataFlow ----------------------------
(***************************************************************************)
(* The way of a title from the control of some KuGou process to the        *)
(* display of the publisher.  Every process polls its own control, and     *)
(* what its own filter lets through (src/metadata_transition_filter.cpp)   *)
(* it publishes to the one shared block, which cuts long titles            *)
(* (src/shared_metadata.cpp); the publisher reads the block and shows the  *)
(* title (Poll in src/smtc_bridge.cpp).  The block is the register that    *)
(* SharedMetadata implements, deaths and their damage included.            *)
(***************************************************************************)
EXTENDS Naturals

CONSTANTS
    Processes,      \* the KuGou processes that carry the plugin
    Publisher,      \* the one whose role is publisher
    Titles,         \* the stable titles that controls show
    Cut,            \* Cut[t]: what the block keeps of title t
    Torn,           \* a title that a death has damaged
    Empty,          \* the title of a fresh block
    None,           \* no control, a transient text, std::nullopt
    SongBudget,     \* bound: changes of the song
    DeathBudget,    \* bound: deaths of processes
    FaultBudget     \* bound: publications dropped and reads that miss

Stored == {Cut[t] : t \in Titles}

ASSUME FlowAssumption ==
    /\ Publisher \in Processes
    /\ DOMAIN Cut = Titles
    /\ None \notin Titles \cup Stored \cup {Torn, Empty}
    /\ {SongBudget, DeathBudget, FaultBudget} \subseteq Nat

VARIABLES
    song,           \* the title KuGou plays
    control,        \* control[p]: what the control of p shows
    pc,             \* pc[p]: the place of p in Poll, "dead" while it does not run
    lastObserved,   \* lastObserved[p]: last_observed_title_
    value, pending, result, deaths,     \* the register
    lastRaw,        \* last_raw_title_ of the publisher, which it shows
    songs, faults,  \* counted against the budgets
    dropped         \* some publication was dropped

channelVars == <<value, pending, result, deaths>>
playerVars == <<song, control, songs>>
vars == <<playerVars, pc, lastObserved, channelVars, lastRaw, faults, dropped>>

Channel ==
    INSTANCE TitleRegister WITH
        Writers <- Processes, Readers <- {Publisher}, Values <- Stored,
        Damaged <- {Torn, Empty}, Nothing <- None

TypeOK ==
    /\ song \in Titles
    /\ control \in [Processes -> Titles \cup {None}]
    /\ pc \in [Processes -> {"idle", "publish", "read", "show", "dead"}]
    /\ lastObserved \in [Processes -> Titles \cup {None}]
    /\ value \in Stored \cup {Torn, Empty}
    /\ pending \in [Processes -> Stored \cup {None}]
    /\ result \in [{Publisher} -> Stored \cup {Torn, Empty, None}]
    /\ lastRaw \in Stored \cup {Torn, Empty}
    /\ songs \in 0..SongBudget /\ deaths \in 0..DeathBudget /\ faults \in 0..FaultBudget
    /\ dropped \in BOOLEAN

Init ==
    /\ song \in Titles
    /\ control = [p \in Processes |-> None]
    /\ pc = [p \in Processes |-> "idle"]
    /\ lastObserved = [p \in Processes |-> None]
    /\ Channel!Init
    /\ lastRaw = Empty
    /\ songs = 0 /\ faults = 0 /\ dropped = FALSE

-----------------------------------------------------------------------------
(* Poll.                                                                   *)

Step(p, from, to) ==
    /\ pc[p] = from
    /\ pc' = [pc EXCEPT ![p] = to]

\* A metadata provider has nothing more to do.
AfterPublish(p) == IF p = Publisher THEN "read" ELSE "idle"

\* PlaybackMetadataFilter::Observe
NewTitle(p) == control[p] # None /\ control[p] # lastObserved[p]

ObserveOld(p) ==
    /\ ~NewTitle(p)
    /\ Step(p, "idle", AfterPublish(p))
    /\ UNCHANGED <<playerVars, lastObserved, channelVars, lastRaw, faults, dropped>>

ObserveNew(p) ==
    /\ NewTitle(p)
    /\ Step(p, "idle", "publish")
    /\ lastObserved' = [lastObserved EXCEPT ![p] = control[p]]
    /\ Channel!Publish(p) /\ pending'[p] = Cut[control[p]]
    /\ UNCHANGED <<playerVars, lastRaw, faults, dropped>>

Store(p) ==
    /\ Step(p, "publish", AfterPublish(p))
    /\ Channel!Store(p)
    /\ UNCHANGED <<playerVars, lastObserved, lastRaw, faults, dropped>>

Fault == faults < FaultBudget /\ faults' = faults + 1

\* The mutex timed out: the filter has the title, the block has not.
Drop(p) ==
    /\ Step(p, "publish", AfterPublish(p))
    /\ Channel!Drop(p)
    /\ Fault
    /\ dropped' = TRUE
    /\ UNCHANGED <<playerVars, lastObserved, lastRaw>>

ReadBlock ==
    /\ Step(Publisher, "read", "show")
    /\ \/ Channel!Load(Publisher) /\ UNCHANGED faults
       \/ Channel!Miss(Publisher) /\ Fault
    /\ UNCHANGED <<playerVars, lastObserved, lastRaw, dropped>>

\* PublishMetadata, of another title than the last.
Show ==
    /\ Step(Publisher, "show", "idle")
    /\ lastRaw' = IF result[Publisher] = None THEN lastRaw ELSE result[Publisher]
    /\ UNCHANGED <<playerVars, lastObserved, channelVars, faults, dropped>>

-----------------------------------------------------------------------------
(* KuGou and its processes.                                                *)

SongChanges ==
    /\ songs < SongBudget
    /\ songs' = songs + 1
    /\ song' \in Titles \ {song}
    /\ UNCHANGED <<control, pc, lastObserved, channelVars, lastRaw, faults, dropped>>

\* The control of p follows the song, or shows a transient text for a while.
ControlFollows(p) ==
    /\ pc[p] # "dead"
    /\ control[p] # song
    /\ control' = [control EXCEPT ![p] = song]
    /\ UNCHANGED <<song, songs, pc, lastObserved, channelVars, lastRaw, faults, dropped>>

ControlTransient(p) ==
    /\ control[p] \notin {song, None}
    /\ control' = [control EXCEPT ![p] = None]
    /\ UNCHANGED <<song, songs, pc, lastObserved, channelVars, lastRaw, faults, dropped>>

Alone(p) == \A q \in Processes \ {p} : pc[q] = "dead"

\* p dies.  The block goes with the last process that maps it; otherwise its
\* title is damaged if p was inside Publish.
FilterKept(p) == UNCHANGED lastObserved
FilterGone(p) == lastObserved' = [lastObserved EXCEPT ![p] = None]

Exit(p) ==
    /\ deaths < DeathBudget
    /\ pc[p] # "dead"
    /\ pc' = [pc EXCEPT ![p] = "dead"]
    /\ Channel!Die(p)
    /\ IF Alone(p) THEN value' = Empty
         ELSE value' # value => pc[p] = "publish" /\ value' = Torn
    /\ FilterGone(p)
    /\ control' = [control EXCEPT ![p] = None]
    /\ IF p = Publisher THEN lastRaw' = Empty ELSE UNCHANGED lastRaw
    /\ UNCHANGED <<song, songs, faults, dropped>>

Start(p) ==
    /\ Step(p, "dead", "idle")
    /\ UNCHANGED <<playerVars, lastObserved, channelVars, lastRaw, faults, dropped>>

-----------------------------------------------------------------------------

Worker(p) ==
    \/ ObserveOld(p) \/ ObserveNew(p) \/ Store(p) \/ Drop(p)
    \/ p = Publisher /\ (ReadBlock \/ Show)

Next ==
    \/ SongChanges
    \/ \E p \in Processes :
          Worker(p) \/ ControlFollows(p) \/ ControlTransient(p) \/ Exit(p) \/ Start(p)

Spec == Init /\ [][Next]_vars

\* The workers poll, and every control shows the song in the end.
Fairness ==
    \A p \in Processes : WF_vars(Worker(p)) /\ WF_vars(ControlFollows(p))

FairSpec == Spec /\ Fairness

-----------------------------------------------------------------------------
(* Properties.                                                             *)

\* Once all processes have observed the same title and none is still publishing
\* it, the block holds that title, whoever came last and whoever died and was
\* started again: each filter suppresses only what its own process saw last, so
\* the last word could be an older title's.
AgreedTitleStored ==
    \A t \in Titles :
        (\A p \in Processes : lastObserved[p] = t /\ pc[p] # "publish") /\ ~dropped
        => value = Cut[t]

Agreed == (\A p \in Processes : control[p] = song) /\ ~dropped

\* When every process ends up showing the song, so does the publisher's display,
\* as far as the block keeps it.
ShownConverges == <>[](Agreed => lastRaw = Cut[song])

-----------------------------------------------------------------------------
(* The inductive invariant: some process answers for the block.  It is the  *)
(* last that wrote it, is about to write, or has yet to observe a title.    *)

Answers(p) ==
    \/ pc[p] = "publish"
    \/ lastObserved[p] = None
    \/ value = Cut[lastObserved[p]]

PendingInv ==
    \A p \in Processes :
        /\ pc[p] = "publish" <=> pending[p] # None
        /\ pc[p] = "publish" => lastObserved[p] # None /\ pending[p] = Cut[lastObserved[p]]

FlowInv == TypeOK /\ PendingInv /\ (dropped \/ \E p \in Processes : Answers(p))

=============================================================================
