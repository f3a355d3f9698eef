----------------------------- MODULE SmtcBridge -----------------------------
(***************************************************************************)
(* The publisher process (src/smtc_bridge.cpp): one worker thread that     *)
(* polls the player twice a second, shows what it found to the System      *)
(* Media Transport Controls (SMTC), and serves the commands SMTC sends     *)
(* back, through MediaControl.  A poll is six steps, between which the     *)
(* player and KuGou's UI thread go on.  A WinRT call may fail: its         *)
(* exception ends the poll.                                                *)
(***************************************************************************)
EXTENDS MediaControl, FiniteSets

CONSTANTS
    Songs,           \* the full titles ("artist - title") that KuGou shows
    CoveredSongs,    \* the songs whose cover KuGou stores on disk
    Mixed,           \* times that need not be those of the title they are read for
    PollTicks,       \* kPollIntervalMs
    CoverTicks,      \* kCoverRetryDurationMs
    RetryTicks,      \* kCoverRetryIntervalMs
    FaultKinds,      \* the faults that happen in this instance
    FaultBudget,     \* bound: faults, each kind at most once
    SongBudget,      \* bound: changes of the song
    UserBudget,      \* bound: clicks on play/pause in KuGou's own window
    ButtonBudget     \* bound: buttons pressed in SMTC

\* lock: the writer mutex times out; miss: Read returns nullopt; winrt: a WinRT
\* call throws; hook: SetWindowsHookEx or PostMessage fails; panel: the command
\* does not find the playback panel; completion: PostMessage fails in the hook
\* procedure; time: the time controls are unreadable; audio: the audio session
\* is unavailable.
ASSUME BridgeAssumption ==
    /\ FaultKinds \subseteq {"lock", "miss", "winrt", "hook", "panel", "completion",
                        "time", "audio"}
    /\ {PollTicks, RetryTicks} \subseteq Nat \ {0} /\ CoverTicks \in Nat
    /\ {FaultBudget, SongBudget, UserBudget, ButtonBudget} \subseteq Nat
    /\ None \notin Songs /\ Mixed \notin Songs \cup {None} /\ CoveredSongs \subseteq Songs

VARIABLES
    control,            \* the title KuGou's control shows, None while it is
                        \* missing or shows a transient text
    settled,            \* its times are those of that title
    steady,             \* they have been since this poll began to read them
    cached,             \* the songs whose cover KuGou has stored on disk
    audio,              \* what IsKuGouAudioActive would find
    channel,            \* the shared title (SharedMetadata)
    pc,                 \* the worker's place in Poll
    lastObservedTitle,  \* MetadataTransitionFilter::last_observed_title_
    lastRawTitle,       \* last_raw_title_
    currentSong,        \* current_artist_, current_title_
    publishedCover,     \* published_cover_path_
    coverFor,           \* ticks for which cover_retry_until_ is not passed
    coverWait,          \* ticks until next_cover_retry_
    lastPlaying,        \* last_playing_
    playbackInitialized,\* playback_initialized_
    timelineAvailable,  \* timeline_available_
    messages,           \* messages posted to the bridge window
    timerDue,           \* WM_TIMER is pending
    timerIn,            \* ticks until it is due again
    draft,              \* the properties set on the DisplayUpdater
    shown,              \* those SMTC shows, since the last Update()
    status,             \* the PlaybackStatus SMTC shows
    timeline,           \* the song whose times SMTC shows, or Mixed
    faults,             \* the kinds of faults so far
    songChanges, clicks, presses    \* counted against the budgets

textVars == <<control, settled, steady>>
playerVars == <<textVars, cached, audio>>
pollVars == <<channel, lastObservedTitle, lastRawTitle, currentSong>>
coverVars == <<publishedCover, coverFor, coverWait>>
statusVars == <<lastPlaying, playbackInitialized>>
smtcVars == <<draft, shown, status, timeline, timelineAvailable>>
loopVars == <<messages, timerDue, timerIn>>
countVars == <<faults, songChanges, clicks, presses>>
vars == <<guardVars, uiVars, playerVars, pollVars, coverVars, statusVars,
          smtcVars, loopVars, countVars, pc>>

Display == [title : Songs \cup {None}, cover : Songs \cup {None}]
Blank == [title |-> None, cover |-> None]
Message == [kind : {"press"}, action : Actions]
           \cup [kind : {"completion"}, action : Actions, executed : BOOLEAN]

TypeOK ==
    /\ ControlTypeOK
    /\ {control, channel, lastObservedTitle, lastRawTitle, currentSong,
        publishedCover} \subseteq Songs \cup {None}
    /\ timeline \in Songs \cup {None, Mixed} /\ {settled, steady} \subseteq BOOLEAN
    /\ cached \subseteq Songs
    /\ audio \in {"active", "inactive", "unavailable"}
    /\ pc \in {"idle", "observe", "read", "cover", "status", "timeline", "times",
              "untimed"}
    /\ coverFor \in 0..(CoverTicks + 1) /\ coverWait \in 0..RetryTicks
    /\ {lastPlaying, playbackInitialized, timelineAvailable, timerDue} \subseteq BOOLEAN
    /\ messages \in Seq(Message)
    /\ timerIn \in 1..PollTicks
    /\ draft \in Display /\ shown \in Display
    /\ status \in {"Stopped", "Playing", "Paused"}
    /\ faults \subseteq FaultKinds /\ songChanges \in 0..SongBudget
    /\ clicks \in 0..UserBudget /\ presses \in 0..ButtonBudget

\* Run, up to its first Poll: InitializeSmtc has set the status.
Init ==
    /\ ControlInit
    /\ control \in Songs \cup {None} /\ settled = TRUE /\ steady = FALSE
    /\ cached = {} /\ channel = None
    /\ audio = IF playing THEN "active" ELSE "inactive"
    /\ pc = "observe"
    /\ lastObservedTitle = None /\ lastRawTitle = None /\ currentSong = None
    /\ publishedCover = None /\ coverFor = 0 /\ coverWait = 0
    /\ lastPlaying = FALSE /\ playbackInitialized = FALSE
    /\ timelineAvailable = FALSE
    /\ messages = <<>> /\ timerDue = FALSE /\ timerIn = PollTicks
    /\ draft = Blank /\ shown = Blank /\ status = "Stopped" /\ timeline = None
    /\ faults = {} /\ songChanges = 0 /\ clicks = 0 /\ presses = 0

NoFault == UNCHANGED faults
Fault(kind) ==
    /\ kind \in FaultKinds \ faults
    /\ Cardinality(faults) < FaultBudget
    /\ faults' = faults \cup {kind}
otherCounts == <<songChanges, clicks, presses>>

\* catch (...) at the end of Poll: the poll is over, what it did stays.
PollThrows == Fault("winrt") /\ pc' = "idle"

-----------------------------------------------------------------------------
(* Poll, first part: the title of the control goes to the shared block.    *)

\* MetadataTransitionFilter::Observe
NewTitle == control # None /\ control # lastObservedTitle

ObserveControl ==
    /\ pc = "observe"
    /\ pc' = "read"
    /\ lastObservedTitle' = IF NewTitle THEN control ELSE lastObservedTitle
    /\ \/ channel' = (IF NewTitle THEN control ELSE channel) /\ NoFault
       \/ NewTitle /\ Fault("lock") /\ UNCHANGED channel
    /\ UNCHANGED <<guardVars, uiVars, playerVars, lastRawTitle, currentSong,
                   coverVars, statusVars, smtcVars, loopVars, otherCounts>>

-----------------------------------------------------------------------------
(* Poll, second part: the shared title is read and shown.                  *)

\* TryPublishCoverArt for song s: its cover may not be stored yet, or be the
\* published one (pub); d is the draft that gets the thumbnail, sh what SMTC
\* shows.  It catches the exceptions of GetFileFromPathAsync and of Update.
TryPublishCoverArt(s, pub, d, sh) ==
    LET covered == [d EXCEPT !.cover = s] IN
    \/ /\ s \notin cached \/ s = pub
       /\ draft' = d /\ shown' = sh /\ publishedCover' = pub
       /\ NoFault
    \/ /\ s \in cached /\ s # pub
       /\ draft' = covered /\ shown' = covered /\ publishedCover' = s
       /\ NoFault
    \/ /\ s \in cached /\ s # pub
       /\ draft' \in {d, covered} /\ shown' = sh /\ publishedCover' = pub
       /\ Fault("winrt")

ClearTimeline == timeline' = None /\ timelineAvailable' = FALSE

\* ClearAll, then Title and Artist.
TitledOnly(s) == [draft EXCEPT !.title = s]
Titled(s) == [title |-> s, cover |-> None]

\* PublishMetadata(s) to its end.  Its branch for an empty title is not here:
\* no process publishes one, last_raw_title_ starts empty, and the title that a
\* dying writer tears at its first character is the subject of MetadataFlow.
PublishMetadata(s) ==
    /\ ClearTimeline
    /\ currentSong' = s
    /\ coverFor' = CoverTicks + 1
    /\ coverWait' = RetryTicks
    /\ TryPublishCoverArt(s, None, Titled(s), Titled(s))

\* PublishMetadata(s) up to the call that throws: UpdateTimelineProperties,
\* ClearAll, Type, or Update after the title was set.
PublishMetadataThrows(s) ==
    /\ PollThrows
    /\ \/ UNCHANGED <<timeline, timelineAvailable, draft, currentSong>>
       \/ ClearTimeline /\ UNCHANGED <<draft, currentSong>>
       \/ ClearTimeline /\ draft' = Blank /\ currentSong' = s
       \/ ClearTimeline /\ draft' = Titled(s) /\ currentSong' = s
    /\ UNCHANGED <<shown, coverVars>>

\* last_raw_title_ is assigned once PublishMetadata has returned.
RememberUnread(s) == lastRawTitle' = channel
Remember(s) == lastRawTitle' = s

ReadShared ==
    /\ pc = "read"
    /\ \/ /\ channel # lastRawTitle
          /\ \/ PublishMetadata(channel) /\ Remember(channel) /\ pc' = "cover"
             \/ PublishMetadataThrows(channel) /\ Remember(lastRawTitle)
       \/ /\ (channel = lastRawTitle /\ NoFault) \/ Fault("miss")
          /\ Remember(lastRawTitle) /\ pc' = "cover"
          /\ UNCHANGED <<timeline, timelineAvailable, currentSong, coverVars,
                         draft, shown>>
    /\ UNCHANGED <<guardVars, uiVars, playerVars, channel, lastObservedTitle,
                   statusVars, status, loopVars, otherCounts>>

-----------------------------------------------------------------------------
(* Poll, third part: the cover is tried again while KuGou may still store it. *)

RetryCover ==
    /\ pc = "cover"
    /\ pc' = "status"
    /\ IF lastRawTitle # None /\ coverFor > 0 /\ coverWait = 0
         THEN /\ TryPublishCoverArt(currentSong, publishedCover, draft, shown)
              /\ coverWait' = RetryTicks
         ELSE NoFault /\ UNCHANGED <<draft, shown, publishedCover, coverWait>>
    /\ UNCHANGED <<guardVars, uiVars, playerVars, pollVars, coverFor,
                   statusVars, status, timeline, timelineAvailable, loopVars,
                   otherCounts>>

-----------------------------------------------------------------------------
(* Poll, fourth part: the status.                                          *)

\* PlaybackStateForActivity
Observed == IF audio = "unavailable" THEN None ELSE audio = "active"

\* PublishPlaybackStatus
StatusFor(p) ==
    IF lastRawTitle = None THEN "Stopped" ELSE IF p THEN "Playing" ELSE "Paused"

\* An exception of PlaybackStatus leaves last_playing_ as it was.
StatusThrowsLate(p) ==
    /\ PollThrows
    /\ lastPlaying' = p /\ playbackInitialized' = TRUE /\ UNCHANGED status
StatusThrows(p) == PollThrows /\ UNCHANGED <<status, statusVars>>

PollStatus ==
    /\ pc = "status"
    /\ Resolve(Observed)
    /\ LET p == Resolved(Observed)
           news == p # None /\ (~playbackInitialized \/ p # lastPlaying)
       IN  \/ /\ news
              /\ status' = StatusFor(p)
              /\ lastPlaying' = p /\ playbackInitialized' = TRUE
              /\ pc' = "timeline" /\ NoFault
           \/ news /\ StatusThrows(p)
           \/ ~news /\ pc' = "timeline" /\ NoFault /\ UNCHANGED <<status, statusVars>>
    /\ UNCHANGED <<blockedFor, uiVars, playerVars, pollVars, coverVars, draft,
                   shown, timeline, timelineAvailable, loopVars, otherCounts>>

-----------------------------------------------------------------------------
(* Poll, last part: PublishTimeline.                                       *)

\* ReadPlaybackControlTimeline reads the title, total, elapsed and total time,
\* and the title again.
AnyTitle == control # None
Asked == control # None /\ control = lastRawTitle

AskTitleOnce ==
    /\ pc = "timeline"
    /\ \/ Asked /\ ~timelineAvailable /\ pc' = "times" /\ NoFault
       \/ ~Asked /\ pc' = "untimed" /\ NoFault
       \/ Asked /\ timelineAvailable /\ pc' = "idle" /\ NoFault
    /\ steady' = (settled /\ pc' = "times")
    /\ UNCHANGED <<guardVars, uiVars, control, settled, cached, audio, pollVars,
                   coverVars, statusVars, smtcVars, loopVars, otherCounts>>

AskTitle ==
    /\ pc = "timeline"
    /\ \/ Asked /\ pc' = "times" /\ NoFault
       \/ ~Asked /\ pc' = "untimed" /\ NoFault
       \/ Asked /\ pc' = "untimed" /\ Fault("time")
    /\ steady' = (settled /\ pc' = "times")
    /\ UNCHANGED <<guardVars, uiVars, control, settled, cached, audio, pollVars,
                   coverVars, statusVars, smtcVars, loopVars, otherCounts>>

\* Times that were not settled all the while may be another song's, or refused
\* by the second look at name and duration.  MetadataSource has these reads one
\* by one, and SettledSampleOwn is why steady times are the song's.
Sampled == pc = "times" /\ Asked
Unsampled == ~Sampled \/ ~steady

PublishTimeline ==
    /\ pc \in {"times", "untimed"}
    /\ pc' = "idle" /\ steady' = FALSE
    /\ \/ /\ Sampled /\ NoFault
          /\ timeline' = (IF steady THEN control ELSE Mixed)
          /\ timelineAvailable' = TRUE
       \/ Unsampled /\ NoFault /\ timelineAvailable /\ ClearTimeline
       \/ /\ Unsampled /\ NoFault
          /\ ~timelineAvailable /\ UNCHANGED <<timeline, timelineAvailable>>
       \/ /\ Sampled \/ timelineAvailable
          /\ Fault("winrt") /\ UNCHANGED <<timeline, timelineAvailable>>
    /\ UNCHANGED <<guardVars, uiVars, control, settled, cached, audio, pollVars,
                   coverVars, statusVars, draft, shown, status, loopVars,
                   otherCounts>>

-----------------------------------------------------------------------------
(* The message loop.  Posted messages come before WM_TIMER.                *)

StartPoll ==
    /\ pc = "idle" /\ timerDue /\ messages = <<>>
    /\ pc' = "observe"
    /\ timerDue' = FALSE
    /\ UNCHANGED <<guardVars, uiVars, playerVars, pollVars, coverVars,
                   statusVars, smtcVars, messages, timerIn, countVars>>

\* OnButtonPressed, on a thread of SMTC.
OnButtonPressed ==
    /\ presses < ButtonBudget
    /\ presses' = presses + 1
    /\ \E a \in Actions :
          messages' = Append(messages, [kind |-> "press", action |-> a])
    /\ UNCHANGED <<guardVars, uiVars, playerVars, pollVars, coverVars,
                   statusVars, smtcVars, timerDue, timerIn, faults,
                   songChanges, clicks, pc>>

\* The player is already in the state that a play or pause asks for.
AlreadyThere(a) ==
    /\ playbackInitialized
    /\ \/ a = "play" /\ lastPlaying
       \/ a = "pause" /\ ~lastPlaying

HandleMediaControl ==
    /\ pc = "idle" /\ messages # <<>> /\ Head(messages).kind = "press"
    /\ messages' = Tail(messages)
    /\ LET a == Head(messages).action IN
          IF AlreadyThere(a) \/ blockedFor > 0
            THEN NoFault /\ UNCHANGED <<guardVars, uiVars>>
            ELSE /\ blockedFor' = EchoTicks
                 /\ UNCHANGED <<expectedPlaying, expiresIn>>
                 /\ \/ DispatchQueued(a) /\ NoFault
                    \/ DispatchUnavailable /\ window = None /\ NoFault
                    \/ DispatchUnavailable /\ window # None /\ Fault("hook")
                    \/ DispatchRefused /\ Fault("hook")
    /\ UNCHANGED <<playerVars, pollVars, coverVars, statusVars, smtcVars,
                   timerDue, timerIn, otherCounts, pc>>

\* It is noexcept and catches nothing: an exception of PlaybackStatus would end
\* the process, which is not modelled.
HandleMediaControlCompletion ==
    /\ pc = "idle" /\ messages # <<>> /\ Head(messages).kind = "completion"
    /\ messages' = Tail(messages)
    /\ LET m == Head(messages)
           p == RequestedPlaybackState(m.action)
       IN  IF m.executed
             THEN /\ RecordSuccessfulCommand(m.action)
                  /\ status' = StatusFor(p)
                  /\ lastPlaying' = p /\ playbackInitialized' = TRUE
             ELSE UNCHANGED <<expectedPlaying, expiresIn, status, statusVars>>
    /\ UNCHANGED <<blockedFor, uiVars, playerVars, pollVars, coverVars, draft,
                   shown, timeline, timelineAvailable, timerDue, timerIn,
                   countVars, pc>>

-----------------------------------------------------------------------------
(* KuGou: its UI thread, its user, its audio session, its files.           *)

\* The texts of the panel change one after the other.
Unsettle == settled' = FALSE /\ steady' = FALSE
OtherSong == control' \in Songs \ {control} /\ Unsettle

\* The UI thread peeks at or removes the first command; the hook procedure
\* carries it out, posts the completion, whose failure it ignores, and turns
\* the message into WM_NULL.
UiThreadGetsMessage ==
    /\ uiQueue # <<>>
    /\ \E removed, found \in BOOLEAN :
          /\ uiQueue' = IF removed THEN Tail(uiQueue) ELSE uiQueue
          /\ IF Acts(removed)
               THEN LET a == Head(uiQueue) IN
                    /\ RunHook(a, found)
                    /\ \/ /\ IF found THEN NoFault ELSE Fault("panel")
                          /\ messages' = Append(messages, [kind |-> "completion",
                                             action |-> a, executed |-> found])
                       \/ found /\ Fault("completion") /\ UNCHANGED messages
                    /\ IF found /\ ~Toggles(a) /\ Songs # {control}
                         THEN OtherSong ELSE UNCHANGED textVars
               ELSE NoFault /\ UNCHANGED <<playing, executed, messages, textVars>>
    /\ UNCHANGED <<guardVars, hook, window, windows, dispatched, cached, audio,
                   pollVars, coverVars, statusVars, smtcVars, timerDue,
                   timerIn, otherCounts, pc>>

bridgeVars == <<guardVars, pollVars, coverVars, statusVars, smtcVars,
                loopVars, pc>>

WindowChanges ==
    /\ WindowDestroyed \/ WindowCreated
    /\ UNCHANGED <<bridgeVars, playerVars, countVars>>

\* The next song, or a transient text between two songs.
SongChanges ==
    /\ songChanges < SongBudget
    /\ songChanges' = songChanges + 1
    /\ control' \in (Songs \cup {None}) \ {control} /\ Unsettle
    /\ UNCHANGED <<bridgeVars, uiVars, cached, audio, faults, clicks, presses>>

TextsSettle ==
    /\ ~settled
    /\ settled' = TRUE
    /\ UNCHANGED <<bridgeVars, uiVars, control, steady, cached, audio, countVars>>

UserClicks ==
    /\ clicks < UserBudget
    /\ clicks' = clicks + 1
    /\ playing' = ~playing
    /\ UNCHANGED <<bridgeVars, hook, window, windows, uiQueue, dispatched,
                   executed, playerVars, faults, songChanges, presses>>

\* The audio session follows the player, after a while.
AudioFollows ==
    /\ audio' = IF playing THEN "active" ELSE "inactive"
    /\ audio' # audio
    /\ UNCHANGED <<bridgeVars, uiVars, textVars, cached, countVars>>

AudioLost ==
    /\ audio # "unavailable"
    /\ audio' = "unavailable"
    /\ Fault("audio")
    /\ UNCHANGED <<bridgeVars, uiVars, textVars, cached, otherCounts>>

CoverStored ==
    /\ control \in CoveredSongs \ cached
    /\ cached' = cached \cup {control}
    /\ UNCHANGED <<bridgeVars, uiVars, textVars, audio, countVars>>

\* One tick of the clock; a timer that is due again before its message was
\* taken posts no second one.
Tick ==
    /\ Elapse
    /\ coverFor' = Down(coverFor) /\ coverWait' = Down(coverWait)
    /\ timerIn' = IF timerIn = 1 THEN PollTicks ELSE timerIn - 1
    /\ timerDue' = (timerDue \/ timerIn = 1)
    /\ UNCHANGED <<uiVars, playerVars, pollVars, publishedCover, statusVars,
                   smtcVars, messages, countVars, pc>>

-----------------------------------------------------------------------------

Worker ==
    \/ ObserveControl \/ ReadShared \/ RetryCover \/ PollStatus \/ AskTitle
    \/ PublishTimeline \/ StartPoll \/ HandleMediaControl \/ HandleMediaControlCompletion

KuGou ==
    \/ UiThreadGetsMessage \/ WindowChanges \/ SongChanges \/ TextsSettle
    \/ UserClicks \/ AudioFollows \/ AudioLost \/ CoverStored

Next == Worker \/ KuGou \/ OnButtonPressed \/ Tick

Spec == Init /\ [][Next]_vars

\* Time passes, the worker thread runs, the UI thread empties its queue and
\* finishes its panel, and the audio session notices in the end what the player
\* does.
Fairness ==
    /\ WF_vars(Tick)
    /\ WF_vars(Worker)
    /\ WF_vars(UiThreadGetsMessage /\ uiQueue' # uiQueue)
    /\ WF_vars(TextsSettle)
    /\ WF_vars(AudioFollows)

FairSpec == Spec /\ Fairness

-----------------------------------------------------------------------------
(* Properties.                                                             *)

\* SMTC shows the progress of a song under no other song's title, although the
\* title comes by the shared block and the times from the control (ClearTimeline
\* in PublishMetadata, the two title checks of ReadPlaybackControlTimeline).
\* Times that were read while KuGou changed its panel are excepted: they are
\* Mixed.  A WinRT call that failed may have left the title of another song on
\* the updater.
TimelineUnderOwnSong ==
    timeline \in Songs /\ "winrt" \notin faults => shown.title = timeline

\* When the song stops changing, SMTC ends up showing its progress: times that
\* were missing, another song's, or mixed while the panel changed are replaced
\* by a later poll.  Exceptions as in DisplayConverges.
ProgressConverges ==
    <>[](control \in Songs /\ "lock" \notin faults /\ "winrt" \notin faults
           => timeline = control)

\* A cover is shown only with the song it belongs to, although it is looked up
\* again for ten seconds and a failed update leaves properties half set.
CoverUnderOwnSong == shown.cover # None => shown.title \in {shown.cover, None}

\* What the bridge remembers having shown changes only together with what SMTC
\* shows, even when a call fails in between: whatever step changes one leaves
\* the status that the other stands for, Stopped before there is a title.
\* Otherwise a poll would take an old status for the current one and never
\* correct it.  They can still part by the first title, which changes neither
\* and finds a Stopped that counts as shown (StatusConverges).
RememberedStatusShown ==
    [][\/ UNCHANGED <<status, statusVars>>
       \/ playbackInitialized' /\ status' = StatusFor(lastPlaying)']_vars

\* Every command queued to the UI thread is carried out at most once, although
\* the hook procedure sees a message once for every peek and windows go away.
CommandsRunOnce == executed + Len(uiQueue) <= dispatched

\* A queued command lies on a live window whose thread has the hook that will
\* carry it out, also after KuGou's windows have come and gone.
QueuedCommandsHooked == uiQueue # <<>> => hook # None /\ hook = window

\* While a completed command is trusted, no poll replaces the status it showed
\* with what the lagging audio session reports (PlaybackCommandStatusGuard).
TrustedStatusStands ==
    [][PollStatus /\ expectedPlaying # None /\ expiresIn > 0
         => status' = status]_vars

\* When the song stops changing, SMTC ends up showing the title that KuGou
\* shows, however songs, retries and failed reads interleaved.  The filter
\* repeats no publication that the writer mutex dropped, nor the poll a title
\* it took for shown when a WinRT call failed.
DisplayConverges ==
    <>[](control \in Songs /\ "lock" \notin faults /\ "winrt" \notin faults
           => shown.title = control)

PlayerStatus == IF playing THEN "Playing" ELSE "Paused"

\* However commands, their completions and the lagging audio session interleave,
\* SMTC does not stay at Playing for a paused player or at Paused for a playing
\* one.
StatusNotStuck == <>[](status \in {"Stopped", PlayerStatus})

\* A player that plays ends up shown as Playing as soon as there is a song.
StatusConverges == <>[](control \in Songs /\ playing => status = "Playing")

\* A command carried out in the player leaves it in the state asked for: Play
\* makes it play, Pause makes it pause.
CommandsObeyed ==
    [][executed' # executed => playing' = RequestedPlaybackState(Head(uiQueue))]_vars

=============================================================================
