--------------------------- MODULE MetadataSource ---------------------------
(***************************************************************************)
(* How the plugin reads the player's window (src/metadata_source.cpp).     *)
(* The song's title and its times are texts inside two controls of KuGou's *)
(* playback panel, which the worker finds by a scan of the whole process   *)
(* memory and then reads where it found them, while KuGou's UI thread      *)
(* changes the texts one by one, moves the panel elsewhere and reuses its  *)
(* old memory.  A failed scan is repeated with growing delays.  One tick   *)
(* is one poll.                                                            *)
(***************************************************************************)
EXTENDS Integers

CONSTANTS
    Songs,          \* the titles shown; a title's times are named after it
    Torn,           \* a text that is no title: the parts of two, read as one
    Places,         \* the offsets in memory at which KuGou's panel can lie
    RegionSize,     \* the size of that region of memory
    ScanChunk,      \* kScanChunkBytes
    ChunkOverlap,   \* kChunkOverlap
    HeadSize,       \* kControlTextOffset + kLegacyStringObjectSize
    Delay,          \* Delay[n]: what MetadataScanBackoff returns on failure n
    FaultKinds,     \* the faults that happen in this instance
    FaultBudget,    \* bound: faults
    SongBudget,     \* bound: changes of the song
    PanelBudget,    \* bound: times KuGou builds its panel
    None            \* an empty text, std::nullopt, a null control

\* modules: the vtable ranges are empty; scan: the scan misses the control;
\* miss: the shared title is not read; torn: a title is read while it changes.
ASSUME SourceAssumption ==
    /\ None \notin Songs /\ Torn \notin Songs \cup {None}
    /\ \A p \in Places : p \in Nat /\ p + HeadSize <= RegionSize /\ p # None
    /\ {RegionSize, ScanChunk, ChunkOverlap} \subseteq Nat
    /\ ChunkOverlap < ScanChunk
    /\ HeadSize \in 1..ChunkOverlap
    /\ Delay \in [1..6 -> Nat \ {0}]
    /\ FaultKinds \subseteq {"modules", "scan", "miss", "torn"}
    /\ {FaultBudget, SongBudget, PanelBudget} \subseteq Nat

VARIABLES
    memory,        \* memory[p]: what the controls at p read like
    panel,         \* where KuGou's panel is
    song,          \* the song KuGou plays
    control,       \* g_playback_control
    titleIn,       \* ticks until g_next_control_scan_tick
    titleFailures, \* g_control_scan_backoff
    timeControl,   \* g_time_control
    timeIn,        \* ticks until g_next_time_scan_tick
    timeFailures,  \* g_time_scan_backoff
    pc,            \* the worker's place in the poll
    title,         \* the title it read first
    expected,      \* last_raw_title_, the title it reads the times for
    total,         \* duration, as first read
    candidate,     \* timeline, not confirmed yet
    sample,        \* what ReadPlaybackControlTimeline returned last
    songs, panels, faults,   \* counted against the budgets
    settled,       \* KuGou showed one song everywhere since the times are read
    visible        \* ticks since the panel was built, old memory reused, or a fault

memoryVars == <<memory, panel, song, songs, panels>>
titleVars == <<control, titleIn, titleFailures>>
timeVars == <<timeControl, timeIn, timeFailures>>
readVars == <<pc, title, expected, total, candidate, sample>>
vars == <<memoryVars, titleVars, timeVars, readVars, faults, settled, visible>>

Text == Songs \cup {None}
Titles == Text \cup {Torn}
Panel == [named : BOOLEAN, title : Text, total : Text, elapsed : Text]
Reused == [named |-> FALSE, title |-> None, total |-> None, elapsed |-> None]
Times == [total : Songs, elapsed : Songs]
Longest == CHOOSE d \in {Delay[n] : n \in 1..6} : \A n \in 1..6 : Delay[n] <= d

TypeOK ==
    /\ memory \in [Places -> Panel]
    /\ panel \in Places \cup {None} /\ song \in Songs
    /\ {control, timeControl} \subseteq Places \cup {None}
    /\ {titleIn, timeIn} \subseteq 0..Longest
    /\ {titleFailures, timeFailures} \subseteq 0..6
    /\ pc \in {"due", "timeline", "ask", "find", "total", "elapsed", "recheck",
              "confirm", "idle"}
    /\ {title, expected} \subseteq Titles /\ total \in Text
    /\ candidate \in Times \cup {None} /\ sample \in Times \cup {None}
    /\ songs \in 0..SongBudget /\ panels \in 0..PanelBudget
    /\ faults \in 0..FaultBudget
    /\ settled \in BOOLEAN
    /\ visible \in 0..(Longest + 1)

Init ==
    /\ memory = [p \in Places |-> Reused] /\ panel = None /\ song \in Songs
    /\ control = None /\ titleIn = 0 /\ titleFailures = 0
    /\ timeControl = None /\ timeIn = 0 /\ timeFailures = 0
    /\ pc = "due" /\ title = None /\ expected = None /\ total = None
    /\ candidate = None /\ sample = None
    /\ songs = 0 /\ panels = 0 /\ faults = 0
    /\ settled = FALSE /\ visible = 0

NoFault == UNCHANGED <<faults, visible>>
Fault(kind) ==
    /\ kind \in FaultKinds
    /\ faults < FaultBudget
    /\ faults' = faults + 1
    /\ visible' = 0

Named(p) == p # None /\ memory[p].named
Showing(p) == p # None /\ memory[p] = [named |-> TRUE, title |-> song,
                                       total |-> song, elapsed |-> song]
Alone == \A p \in Places : memory[p].named => p = panel

\* MetadataScanBackoff::RecordFailure; the sixth delay stays.
RecordFailure(n) == IF n = 6 THEN 6 ELSE n + 1

-----------------------------------------------------------------------------
(* A scan (FindNamedControlAddress) reads the region chunk by chunk, each  *)
(* beginning a little before the end of the last; a control is recognised  *)
(* when its head, up to its text, lies in one chunk.                       *)

ChunksApart(k) == k * (ScanChunk + ChunkOverlap)
ChunkStart(k) == k * (ScanChunk - ChunkOverlap)
ChunkEnd(k) ==
    LET full == ChunkStart(k) + ScanChunk + ChunkOverlap IN
    IF full < RegionSize THEN full ELSE RegionSize

\* The last chunk is the first with no more than kScanChunkBytes to go.
ChunkRead(k) ==
    /\ ChunkStart(k) < RegionSize
    /\ k > 0 => RegionSize - ChunkStart(k - 1) > ScanChunk

InChunk(p) ==
    \E k \in 0..RegionSize :
        ChunkRead(k) /\ ChunkStart(k) <= p /\ p + HeadSize <= ChunkEnd(k)

Seen == {p \in Places : Named(p) /\ InChunk(p)}

-----------------------------------------------------------------------------
(* ReadPlaybackControlTitle, with t as what it returns.                    *)

\* DecodeLegacyMsvcWstring reads the string object first and its characters
\* later: a title the UI thread is about to change may be torn.  Times are short
\* enough to lie in the string object itself.
DecodedTitle(p, t) ==
    \/ t = memory[p].title /\ NoFault
    \/ memory[p].title # song /\ t \in {None, Torn} /\ Fault("torn")

\* The cached control is read as long as its memory carries its name.
NeverDoubted == control # None
Cached == Named(control)

TitleCached(t) ==
    /\ Cached
    /\ DecodedTitle(control, t)
    /\ UNCHANGED titleVars

\* Losing the control resets the backoff.
WaitsFor == IF control = None THEN titleIn ELSE 0
FailuresBefore == IF control = None THEN titleFailures ELSE 0

TitleNotYet(t) ==
    /\ ~Cached /\ WaitsFor > 0
    /\ t = None
    /\ NoFault
    /\ UNCHANGED titleVars

TitleFound(t) ==
    /\ ~Cached /\ WaitsFor = 0
    /\ \E p \in Seen : DecodedTitle(p, t) /\ control' = p
    /\ titleIn' = 0 /\ titleFailures' = 0

\* RecordControlScanFailure
FailureRecorded ==
    /\ titleFailures' = RecordFailure(FailuresBefore)
    /\ titleIn' = Delay[titleFailures']

TitleNotFound(t) ==
    /\ ~Cached /\ WaitsFor = 0
    /\ \/ Seen = {} /\ NoFault
       \/ Fault("modules")
       \/ Fault("scan")
    /\ t = None
    /\ control' = None
    /\ FailureRecorded

ReadTitle(t) == TitleCached(t) \/ TitleNotYet(t) \/ TitleFound(t) \/ TitleNotFound(t)

-----------------------------------------------------------------------------
(* A poll.  The title becomes the expected one through the filter and the  *)
(* shared block (SmtcBridge).                                              *)

NoSample == sample' = None /\ pc' = "idle"

ObserveTitle ==
    /\ pc = "due"
    /\ \E t \in Titles : ReadTitle(t) /\ title' = t
    /\ pc' = "timeline"
    /\ UNCHANGED <<memoryVars, timeVars, expected, total,
                   candidate, sample, settled>>

ExpectTitle ==
    /\ pc = "timeline"
    /\ \/ expected' = (IF title = None THEN expected ELSE title) /\ NoFault
       \/ UNCHANGED expected /\ Fault("miss")
    /\ IF expected' = None THEN NoSample ELSE pc' = "ask" /\ UNCHANGED sample
    /\ title' = None
    /\ settled' = (Showing(panel) /\ Alone)
    /\ UNCHANGED <<memoryVars, titleVars, timeVars, total, candidate>>

\* The texts are asked for only while the title is the expected one.
Unasked(t) == TRUE
Asked(t) == t = expected

AskTitle ==
    /\ pc = "ask"
    /\ \E t \in Titles :
          /\ ReadTitle(t)
          /\ IF Asked(t) THEN pc' = "find" /\ UNCHANGED sample ELSE NoSample
    /\ UNCHANGED <<memoryVars, timeVars, title, expected,
                   total, candidate, settled>>

\* The cached time control is forgotten when its name is gone, and looked for.
TimeKept == timeControl # None /\ NoFault /\ UNCHANGED timeVars
TimeCached ==
    /\ Named(timeControl)
    /\ NoFault
    /\ UNCHANGED timeVars

TimeNotYet ==
    /\ timeControl = None /\ timeIn > 0
    /\ NoFault
    /\ UNCHANGED timeVars

TimeFound ==
    /\ ~Named(timeControl) /\ (timeControl = None => timeIn = 0)
    /\ timeIn' = 0 /\ timeFailures' = 0
    /\ timeControl' \in Seen
    /\ NoFault

TimeNotFound ==
    /\ ~Named(timeControl) /\ (timeControl = None => timeIn = 0)
    /\ \/ Seen = {} /\ NoFault
       \/ Fault("modules")
       \/ Fault("scan")
    /\ timeControl' = None
    /\ timeFailures' = RecordFailure(IF timeControl = None THEN timeFailures ELSE 0)
    /\ timeIn' = Delay[timeFailures']

FindTimes ==
    /\ pc = "find"
    /\ \/ (TimeNotYet \/ TimeNotFound) /\ NoSample
       \/ (TimeCached \/ TimeFound) /\ pc' = "total" /\ UNCHANGED sample
    /\ UNCHANGED <<memoryVars, titleVars, title, expected,
                   total, candidate, settled>>

-----------------------------------------------------------------------------
(* ReadTimelineFromControl.                                                *)

ReadTotal ==
    /\ pc = "total"
    /\ IF memory[timeControl].named
         THEN total' = memory[timeControl].total /\ pc' = "elapsed"
         ELSE total' = None /\ pc' = "confirm"
    /\ candidate' = None
    /\ NoFault
    /\ UNCHANGED <<memoryVars, titleVars, timeVars, title,
                   expected, sample, settled>>

\* The elapsed time, then name and duration again.  A position beyond the
\* duration is refused, which that of another song may or may not be.
ReadElapsed ==
    /\ pc = "elapsed"
    /\ LET e == memory[timeControl].elapsed IN
          \/ /\ {total, e} \subseteq Songs
             /\ candidate' = [total |-> total, elapsed |-> e]
          \/ (total = None \/ e # total) /\ candidate' = None
    /\ pc' = "recheck"
    /\ NoFault
    /\ UNCHANGED <<memoryVars, titleVars, timeVars, title, expected,
                   total, sample, settled>>

Recheck ==
    /\ pc = "recheck"
    /\ candidate' = IF memory[timeControl].named /\ memory[timeControl].total = total
                      THEN candidate ELSE None
    /\ pc' = "confirm"
    /\ NoFault
    /\ UNCHANGED <<memoryVars, titleVars, timeVars, title, expected,
                   total, sample, settled>>

Confirm ==
    /\ pc = "confirm"
    /\ \E t \in Titles : ReadTitle(t) /\ sample' = IF Asked(t) THEN candidate ELSE None
    /\ pc' = "idle" /\ total' = None /\ candidate' = None
    /\ UNCHANGED <<memoryVars, timeVars, title, expected, settled>>

-----------------------------------------------------------------------------
(* KuGou's UI thread and the clock.                                        *)

ui == <<titleVars, timeVars, readVars, faults>>

\* Next song; its texts follow one by one.
NextSong ==
    /\ songs < SongBudget
    /\ songs' = songs + 1
    /\ song' \in Songs \ {song}
    /\ settled' = FALSE
    /\ UNCHANGED <<ui, memory, panel, panels, visible>>

ShowText ==
    /\ panel # None
    /\ \E f \in {"title", "total", "elapsed"} :
          /\ memory[panel][f] # song
          /\ memory' = [memory EXCEPT ![panel][f] = song]
    /\ UNCHANGED <<ui, panel, song, songs, panels, settled, visible>>

\* The panel is built, or built anew elsewhere.  Its old memory goes on looking
\* like the panel until it is reused.
BuildPanel ==
    /\ panels < PanelBudget
    /\ panels' = panels + 1
    /\ panel' \in {p \in Places : ~memory[p].named}
    /\ memory' = [memory EXCEPT ![panel'] = [Reused EXCEPT !.named = TRUE]]
    /\ settled' = FALSE /\ visible' = 0
    /\ UNCHANGED <<ui, song, songs>>

ReuseMemory ==
    /\ \E p \in Places \ {panel} :
          memory[p].named /\ memory' = [memory EXCEPT ![p] = Reused]
    /\ visible' = 0
    /\ UNCHANGED <<ui, panel, song, songs, panels, settled>>

DownPastZero(n) == n - 1
Down(n) == IF n = 0 THEN 0 ELSE n - 1
Up(n, cap) == IF n = cap THEN cap ELSE n + 1

Tick ==
    /\ pc = "idle"
    /\ pc' = "due"
    /\ titleIn' = Down(titleIn) /\ timeIn' = Down(timeIn)
    /\ visible' = IF panel = None THEN 0 ELSE Up(visible, Longest + 1)
    /\ UNCHANGED <<memoryVars, control, titleFailures, timeControl,
                   timeFailures, title, expected, total, candidate, sample,
                   faults, settled>>

-----------------------------------------------------------------------------

Poll ==
    \/ ObserveTitle \/ ExpectTitle \/ AskTitle \/ FindTimes
    \/ ReadTotal \/ ReadElapsed \/ Recheck \/ Confirm

KuGou == NextSong \/ ShowText \/ BuildPanel \/ ReuseMemory

Next == Poll \/ KuGou \/ Tick

Spec == Init /\ [][Next]_vars

-----------------------------------------------------------------------------
(* Properties.                                                             *)

\* While KuGou shows one song in all its texts and no old panel lingers, the
\* times returned for a title are that song's, whatever was cached before and
\* however old the expected title is.
SettledSampleOwn ==
    pc = "idle" /\ settled /\ sample # None =>
        sample = [total |-> expected, elapsed |-> expected]

\* A panel in sight is found, and no other memory taken for it, when the longest
\* delay is over, however many scans failed before it was built.
PanelFound == pc = "idle" /\ visible > Longest /\ Alone => control = panel

\* A title that the UI thread tore may come as far as the display, but it gets no
\* times: they take two more reads of the title that agree with it, so that two
\* more would have to be torn the same way.
TornTitleUntimed ==
    pc = "idle" /\ expected = Torn /\ sample # None => faults > 2

\* When the longest delay is over, a poll that asks for the times of the song
\* KuGou shows gets them: no cached control that KuGou has moved away from, and
\* no delay of an earlier failure, holds them back.
TimesInTime ==
    pc = "idle" /\ visible > Longest /\ settled /\ expected = song =>
        sample = [total |-> song, elapsed |-> song]

=============================================================================
