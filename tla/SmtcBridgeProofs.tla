-------------------------- MODULE SmtcBridgeProofs --------------------------
(***************************************************************************)
(* Proofs about SmtcBridge and MediaControl, for any songs and covers, any *)
(* periods of the timers and guards, and any number of faults, clicks,     *)
(* buttons and windows.                                                    *)
(***************************************************************************)
EXTENDS SmtcBridge, TLAPS

-----------------------------------------------------------------------------
(* What the operators of the model do to the types.                        *)

\* A countdown stays within its period.
LEMMA DownType ==
    ASSUME NEW k \in Nat, NEW n \in 0..k
    PROVE  Down(n) \in 0..k
BY DEF Down

\* TryPublishCoverArt sets or leaves draft and picture, for song s.
LEMMA TryCoverType ==
    ASSUME NEW s \in Songs \cup {None}, NEW pub \in Songs \cup {None},
           NEW d \in Display, NEW sh \in Display, faults \subseteq FaultKinds,
           TryPublishCoverArt(s, pub, d, sh)
    PROVE  /\ draft' \in Display /\ shown' \in Display
           /\ publishedCover' \in Songs \cup {None}
           /\ faults' \subseteq FaultKinds
<1>1. [d EXCEPT !.cover = s] \in Display
    BY DEF Display
<1>. QED
    BY <1>1 DEF TryPublishCoverArt, NoFault, Fault

\* A fault, or none, keeps the type of the faults.
LEMMA FaultType ==
    ASSUME NEW kind, faults \subseteq FaultKinds, NoFault \/ Fault(kind)
    PROVE  faults' \subseteq FaultKinds
BY DEF NoFault, Fault

\* Blank and Titled(s) are displays.
LEMMA DisplayType ==
    ASSUME NEW s \in Songs \cup {None}
    PROVE  Blank \in Display /\ Titled(s) \in Display
BY DEF Blank, Titled, Display

-----------------------------------------------------------------------------
(* Types.                                                                  *)

\* While KuGou has no window, it may still create one.
WindowInv == window = None => windows <= WindowBudget

TypeInv == TypeOK /\ WindowInv

ControlSame == UNCHANGED <<guardVars, uiVars>>

\* What leaves the control of the player alone keeps its types.
LEMMA ControlFrame == ASSUME ControlTypeOK, ControlSame PROVE ControlTypeOK'
BY DEF ControlTypeOK, ControlSame, guardVars, uiVars

\* The types hold when the worker starts.
LEMMA TypeInit == ASSUME Init PROVE TypeOK
<1>1. ControlTypeOK
    BY GuardAssumption DEF Init, ControlInit, ControlTypeOK
<1>2. Blank \in Display
    BY DisplayType
<1>3. /\ coverFor \in 0..(CoverTicks + 1) /\ coverWait \in 0..RetryTicks
      /\ timerIn \in 1..PollTicks
      /\ songChanges \in 0..SongBudget /\ clicks \in 0..UserBudget
      /\ presses \in 0..ButtonBudget
    BY BridgeAssumption DEF Init
<1>4. messages \in Seq(Message)
    BY DEF Init
<1>. QED
    BY <1>1, <1>2, <1>3, <1>4 DEF Init, TypeOK

\* The parts of a poll.
LEMMA TypeObserve == ASSUME TypeOK, ObserveControl PROVE TypeOK'
<1>1. ControlTypeOK'
    BY ControlFrame DEF TypeOK, ObserveControl, ControlSame
<1>2. faults' \subseteq FaultKinds
    BY FaultType DEF TypeOK, ObserveControl
<1>. QED
    BY <1>1, <1>2 DEF TypeOK, ObserveControl, playerVars, textVars, coverVars, statusVars,
       smtcVars, loopVars, otherCounts

LEMMA TypeReadShared == ASSUME TypeOK, ReadShared PROVE TypeOK'
<1> USE DEF TypeOK
<1>1. ControlTypeOK'
    BY ControlFrame DEF ReadShared, ControlSame
<1>2. CASE PublishMetadata(channel) /\ Remember(channel) /\ pc' = "cover"
    <2>1. /\ draft' \in Display /\ shown' \in Display
          /\ publishedCover' \in Songs \cup {None} /\ faults' \subseteq FaultKinds
        BY <1>2, TryCoverType, DisplayType DEF PublishMetadata
    <2>2. coverFor' \in 0..(CoverTicks + 1) /\ coverWait' \in 0..RetryTicks
        BY <1>2, BridgeAssumption DEF PublishMetadata
    <2>. QED
        BY <1>1, <1>2, <2>1, <2>2 DEF ReadShared, PublishMetadata, ClearTimeline,
           Remember, playerVars, textVars, statusVars, loopVars, otherCounts
<1>3. CASE PublishMetadataThrows(channel) /\ Remember(lastRawTitle)
    <2>1. faults' \subseteq FaultKinds
        BY <1>3, FaultType DEF PublishMetadataThrows, PollThrows
    <2>2. draft' \in Display
        BY <1>3, DisplayType DEF PublishMetadataThrows
    <2>. QED
        BY <1>1, <1>3, <2>1, <2>2 DEF ReadShared, PublishMetadataThrows, PollThrows,
           ClearTimeline, Remember, playerVars, textVars, coverVars, statusVars,
           loopVars, otherCounts
<1>4. CASE /\ (channel = lastRawTitle /\ NoFault) \/ Fault("miss")
           /\ Remember(lastRawTitle) /\ pc' = "cover"
           /\ UNCHANGED <<timeline, timelineAvailable, currentSong, coverVars,
                          draft, shown>>
    <2>1. faults' \subseteq FaultKinds
        BY <1>4, FaultType
    <2>. QED
        BY <1>1, <1>4, <2>1 DEF ReadShared, Remember, playerVars, textVars, coverVars,
           statusVars, loopVars, otherCounts
<1>. QED
    BY <1>2, <1>3, <1>4 DEF ReadShared

LEMMA TypeRetryCover == ASSUME TypeOK, RetryCover PROVE TypeOK'
<1> USE DEF TypeOK
<1>1. ControlTypeOK'
    BY ControlFrame DEF RetryCover, ControlSame
<1>2. /\ draft' \in Display /\ shown' \in Display
      /\ publishedCover' \in Songs \cup {None} /\ faults' \subseteq FaultKinds
    BY TryCoverType, FaultType DEF RetryCover
<1>3. coverWait' \in 0..RetryTicks
    BY BridgeAssumption DEF RetryCover
<1>. QED
    BY <1>1, <1>2, <1>3 DEF RetryCover, playerVars, textVars, pollVars, statusVars,
       loopVars, otherCounts

LEMMA TypePollStatus == ASSUME TypeOK, PollStatus PROVE TypeOK'
<1> USE DEF TypeOK
<1> DEFINE p == Resolved(Observed)
           news == p # None /\ (~playbackInitialized \/ p # lastPlaying)
<1>1. expectedPlaying' \in BOOLEAN \cup {None} /\ expiresIn' \in 0..TrustTicks
    BY GuardAssumption DEF PollStatus, Resolve, ControlTypeOK
<1>2. ControlTypeOK'
    BY <1>1 DEF PollStatus, ControlTypeOK, uiVars
<1>3. p \in BOOLEAN \cup {None}
    BY DEF Resolved, Observed, ControlTypeOK
<1>4. /\ status' \in {"Stopped", "Playing", "Paused"} /\ lastPlaying' \in BOOLEAN
      /\ playbackInitialized' \in BOOLEAN
      /\ pc' \in {"idle", "timeline"}
      /\ faults' \subseteq FaultKinds
    <2>1. CASE /\ news /\ status' = StatusFor(p)
               /\ lastPlaying' = p /\ playbackInitialized' = TRUE
               /\ pc' = "timeline" /\ NoFault
        <3>1. StatusFor(p) \in {"Stopped", "Playing", "Paused"}
            BY DEF StatusFor
        <3>2. p \in BOOLEAN
            BY <1>3, <2>1
        <3>. QED
            BY <2>1, <3>1, <3>2 DEF NoFault
    <2>2. CASE news /\ StatusThrows(p)
        BY <2>2, FaultType DEF StatusThrows, PollThrows, statusVars
    <2>3. CASE ~news /\ pc' = "timeline" /\ NoFault /\ UNCHANGED <<status, statusVars>>
        BY <2>3 DEF NoFault, statusVars
    <2>. QED
        BY <2>1, <2>2, <2>3 DEF PollStatus
<1>. QED
    BY <1>2, <1>4 DEF PollStatus, playerVars, textVars, pollVars, coverVars, loopVars,
       otherCounts

LEMMA TypeAskTitle == ASSUME TypeOK, AskTitle PROVE TypeOK'
<1>1. ControlTypeOK'
    BY ControlFrame DEF TypeOK, AskTitle, ControlSame
<1>2. faults' \subseteq FaultKinds
    BY FaultType DEF TypeOK, AskTitle
<1>3. pc' \in {"times", "untimed"} /\ steady' \in BOOLEAN
    BY DEF TypeOK, AskTitle
<1>. QED
    BY <1>1, <1>2, <1>3 DEF TypeOK, AskTitle, pollVars, coverVars, statusVars, smtcVars,
       loopVars, otherCounts

LEMMA TypePublishTimeline == ASSUME TypeOK, PublishTimeline PROVE TypeOK'
<1>1. ControlTypeOK'
    BY ControlFrame DEF TypeOK, PublishTimeline, ControlSame
<1>2. faults' \subseteq FaultKinds
    BY FaultType DEF TypeOK, PublishTimeline
<1>3. timeline' \in Songs \cup {None, Mixed} /\ timelineAvailable' \in BOOLEAN
    BY DEF TypeOK, PublishTimeline, ClearTimeline
<1>. QED
    BY <1>1, <1>2, <1>3 DEF TypeOK, PublishTimeline, pollVars, coverVars, statusVars,
       loopVars, otherCounts

\* The messages of the bridge window.
LEMMA TypeMessages == ASSUME TypeOK, StartPoll \/ OnButtonPressed PROVE TypeOK'
<1> USE DEF TypeOK
<1>1. CASE StartPoll
    <2>1. ControlTypeOK'
        BY <1>1, ControlFrame DEF StartPoll, ControlSame
    <2>. QED
        BY <1>1, <2>1 DEF StartPoll, playerVars, textVars, pollVars, coverVars,
           statusVars, smtcVars, countVars
<1>2. CASE OnButtonPressed
    <2>1. ControlTypeOK'
        BY <1>2, ControlFrame DEF OnButtonPressed, ControlSame
    <2>2. messages' \in Seq(Message)
        BY <1>2 DEF OnButtonPressed, Message
    <2>3. presses' \in 0..ButtonBudget
        BY <1>2, BridgeAssumption DEF OnButtonPressed
    <2>. QED
        BY <1>2, <2>1, <2>2, <2>3 DEF OnButtonPressed, playerVars, textVars, pollVars,
           coverVars, statusVars, smtcVars
<1>. QED
    BY <1>1, <1>2

\* Any way to dispatch an action keeps the types of the UI thread's side.
LEMMA DispatchType ==
    ASSUME ControlTypeOK, NEW a \in Actions,
           \/ DispatchQueued(a) \/ DispatchUnavailable \/ DispatchRefused
    PROVE  /\ hook' \in 1..(WindowBudget + 1) \cup {None}
           /\ window' \in 1..(WindowBudget + 1) \cup {None}
           /\ windows' \in 1..(WindowBudget + 1)
           /\ uiQueue' \in Seq(Actions) /\ playing' \in BOOLEAN
           /\ dispatched' \in Nat /\ executed' \in Nat
<1> USE DEF ControlTypeOK, DispatchQueued, DispatchUnavailable, DispatchRefused
<1>1. hook' \in {window, None} /\ UNCHANGED <<window, windows, playing, executed>>
    BY DEF EnsureUiThreadHook, HookUnavailable
<1>2. uiQueue' \in Seq(Actions)
    <2>1. uiQueue' = Append(uiQueue, a) \/ uiQueue' = uiQueue
        OBVIOUS
    <2>. QED
        BY <2>1
<1>3. dispatched' \in Nat
    OBVIOUS
<1>. QED
    BY <1>1, <1>2, <1>3

LEMMA TypePress == ASSUME TypeOK, HandleMediaControl PROVE TypeOK'
<1> USE DEF TypeOK
<1> DEFINE m == Head(messages)
           a == m.action
<1>1. m \in Message /\ messages' \in Seq(Message)
    BY DEF HandleMediaControl
<1>2. a \in Actions
    BY <1>1 DEF Message
<1>3. CASE AlreadyThere(a) \/ blockedFor > 0
    <2>1. ControlTypeOK' /\ faults' \subseteq FaultKinds
        BY <1>3, ControlFrame DEF HandleMediaControl, ControlSame, NoFault
    <2>. QED
        BY <1>1, <2>1 DEF HandleMediaControl, playerVars, textVars, pollVars,
           coverVars, statusVars, smtcVars, otherCounts
<1>4. CASE ~(AlreadyThere(a) \/ blockedFor > 0)
    <2>1. /\ blockedFor' = EchoTicks /\ UNCHANGED <<expectedPlaying, expiresIn>>
          /\ DispatchQueued(a) \/ DispatchUnavailable \/ DispatchRefused
          /\ faults' \subseteq FaultKinds
        BY <1>4, FaultType DEF HandleMediaControl
    <2>2. ControlTypeOK'
        BY <1>2, <2>1, DispatchType, GuardAssumption DEF ControlTypeOK
    <2>. QED
        BY <1>1, <2>1, <2>2 DEF HandleMediaControl, playerVars, textVars, pollVars,
           coverVars, statusVars, smtcVars, otherCounts
<1>. QED
    BY <1>3, <1>4

LEMMA TypeCompletion == ASSUME TypeOK, HandleMediaControlCompletion PROVE TypeOK'
<1> USE DEF TypeOK
<1> DEFINE m == Head(messages)
           p == RequestedPlaybackState(m.action)
<1>1. messages' \in Seq(Message)
    BY DEF HandleMediaControlCompletion
<1>2. p \in BOOLEAN /\ StatusFor(p) \in {"Stopped", "Playing", "Paused"}
    BY DEF RequestedPlaybackState, StatusFor
<1>3. /\ status' \in {"Stopped", "Playing", "Paused"}
      /\ lastPlaying' \in BOOLEAN /\ playbackInitialized' \in BOOLEAN
      /\ expectedPlaying' \in BOOLEAN \cup {None} /\ expiresIn' \in 0..TrustTicks
    <2>1. CASE m.executed
        <3>1. /\ expectedPlaying' = p /\ expiresIn' = TrustTicks
              /\ status' = StatusFor(p) /\ lastPlaying' = p /\ playbackInitialized' = TRUE
            BY <2>1 DEF HandleMediaControlCompletion, RecordSuccessfulCommand
        <3>2. TrustTicks \in 0..TrustTicks
            BY GuardAssumption
        <3>. QED
            BY <1>2, <3>1, <3>2
    <2>2. CASE ~m.executed
        BY <2>2 DEF HandleMediaControlCompletion, statusVars, ControlTypeOK
    <2>. QED
        BY <2>1, <2>2
<1>4. ControlTypeOK'
    BY <1>3 DEF HandleMediaControlCompletion, ControlTypeOK, uiVars
<1>. QED
    BY <1>1, <1>3, <1>4 DEF HandleMediaControlCompletion, playerVars, textVars,
       pollVars, coverVars, countVars

\* The UI thread takes or peeks at a command.
LEMMA TypeUiThread == ASSUME TypeOK, UiThreadGetsMessage PROVE TypeOK'
<1> USE DEF TypeOK
<1> DEFINE a == Head(uiQueue)
           completion(found) ==
               [kind |-> "completion", action |-> a, executed |-> found]
<1>1. a \in Actions /\ Tail(uiQueue) \in Seq(Actions)
    BY DEF UiThreadGetsMessage, ControlTypeOK
<1>2. PICK removed \in BOOLEAN, found \in BOOLEAN :
          /\ uiQueue' = IF removed THEN Tail(uiQueue) ELSE uiQueue
          /\ IF Acts(removed)
               THEN /\ RunHook(a, found)
                    /\ \/ /\ IF found THEN NoFault ELSE Fault("panel")
                          /\ messages' = Append(messages, completion(found))
                       \/ found /\ Fault("completion") /\ UNCHANGED messages
                    /\ IF found /\ ~Toggles(a) /\ Songs # {control}
                         THEN OtherSong ELSE UNCHANGED textVars
               ELSE NoFault /\ UNCHANGED <<playing, executed, messages, textVars>>
    BY DEF UiThreadGetsMessage
<1>3. playing' \in BOOLEAN
    BY <1>2 DEF RunHook, PlayingAfter, ControlTypeOK
<1>4. executed' \in Nat
    <2>1. executed' = executed \/ executed' = executed + 1
        BY <1>2 DEF RunHook, ControlTypeOK
    <2>. QED
        BY <2>1 DEF ControlTypeOK
<1>5. messages' \in Seq(Message)
    <2>1. completion(found) \in Message
        BY <1>1 DEF Message
    <2> HIDE DEF completion
    <2>2. messages' \in {messages, Append(messages, completion(found))}
        BY <1>2
    <2>. QED
        BY <2>1, <2>2
<1>6. faults' \subseteq FaultKinds
    BY <1>2, FaultType
<1>8. control' \in Songs \cup {None} /\ {settled', steady'} \subseteq BOOLEAN
    BY <1>2 DEF OtherSong, Unsettle, textVars
<1>7. ControlTypeOK'
    <2>1. uiQueue' \in Seq(Actions)
        BY <1>1, <1>2 DEF ControlTypeOK
    <2>2. UNCHANGED <<blockedFor, expectedPlaying, expiresIn, hook, window, windows,
                      dispatched>>
        BY DEF UiThreadGetsMessage, guardVars
    <2>. QED
        BY <1>3, <1>4, <2>1, <2>2 DEF ControlTypeOK
<1>. QED
    BY <1>5, <1>6, <1>7, <1>8 DEF UiThreadGetsMessage, pollVars, coverVars, statusVars,
       smtcVars, otherCounts

\* What the bridge alone writes keeps its types when the bridge does not move.
LEMMA BridgeFrame ==
    ASSUME TypeOK, UNCHANGED bridgeVars
    PROVE  /\ {channel', lastObservedTitle', lastRawTitle', currentSong',
               publishedCover'} \subseteq Songs \cup {None}
           /\ timeline' \in Songs \cup {None, Mixed}
           /\ pc' \in {"idle", "observe", "read", "cover", "status", "timeline", "times",
                      "untimed"}
           /\ coverFor' \in 0..(CoverTicks + 1) /\ coverWait' \in 0..RetryTicks
           /\ {lastPlaying', playbackInitialized', timelineAvailable', timerDue'}
                  \subseteq BOOLEAN
           /\ messages' \in Seq(Message) /\ timerIn' \in 1..PollTicks
           /\ draft' \in Display /\ shown' \in Display
           /\ status' \in {"Stopped", "Playing", "Paused"}
           /\ UNCHANGED guardVars
BY DEF TypeOK, bridgeVars, pollVars, coverVars, statusVars, smtcVars, loopVars

\* KuGou: its windows, its songs, its user, its audio session and its files.
LEMMA TypeWindow ==
    ASSUME TypeOK, WindowInv, WindowChanges PROVE TypeOK' /\ WindowInv'
<1>1. UNCHANGED bridgeVars /\ UNCHANGED <<playerVars, countVars>>
    BY DEF WindowChanges
<1>2. ControlTypeOK' /\ WindowInv'
    <2>1. CASE WindowDestroyed
        BY <1>1, <2>1 DEF TypeOK, ControlTypeOK, WindowInv, WindowDestroyed,
           bridgeVars, guardVars
    <2>2. CASE WindowCreated
        <3>1. windows + 1 \in 1..(WindowBudget + 1)
            BY <2>2, GuardAssumption DEF TypeOK, ControlTypeOK, WindowInv, WindowCreated
        <3>. QED
            BY <1>1, <2>2, <3>1, GuardAssumption DEF TypeOK, ControlTypeOK, WindowInv,
               WindowCreated, bridgeVars, guardVars
    <2>. QED
        BY <2>1, <2>2 DEF WindowChanges
<1>. QED
    BY <1>1, <1>2, BridgeFrame DEF TypeOK, playerVars, textVars, countVars

LEMMA TypeKuGou ==
    ASSUME TypeOK,
           \/ SongChanges \/ TextsSettle \/ UserClicks \/ AudioFollows \/ AudioLost
           \/ CoverStored
    PROVE  TypeOK'
<1>1. CASE SongChanges
    <2>1. ControlTypeOK'
        BY <1>1, BridgeFrame, ControlFrame DEF TypeOK, SongChanges, ControlSame
    <2>2. songChanges' \in 0..SongBudget
        BY <1>1, BridgeAssumption DEF TypeOK, SongChanges
    <2>3. /\ control' \in Songs \cup {None} /\ {settled', steady'} \subseteq BOOLEAN
          /\ UNCHANGED <<bridgeVars, cached, audio, faults, clicks, presses>>
        BY <1>1 DEF SongChanges, Unsettle
    <2>. QED
        BY <2>1, <2>2, <2>3, BridgeFrame DEF TypeOK
<1>2. CASE UserClicks
    <2>1. ControlTypeOK'
        BY <1>2, BridgeFrame DEF TypeOK, UserClicks, ControlTypeOK, guardVars
    <2>2. clicks' \in 0..UserBudget
        BY <1>2, BridgeAssumption DEF TypeOK, UserClicks
    <2>. QED
        BY <1>2, <2>1, <2>2, BridgeFrame DEF TypeOK, UserClicks, playerVars, textVars
<1>3. CASE AudioFollows
    <2>1. ControlTypeOK'
        BY <1>3, BridgeFrame, ControlFrame DEF TypeOK, AudioFollows, ControlSame
    <2>. QED
        BY <1>3, <2>1, BridgeFrame DEF TypeOK, AudioFollows, textVars, countVars
<1>4. CASE AudioLost
    <2>1. ControlTypeOK'
        BY <1>4, BridgeFrame, ControlFrame DEF TypeOK, AudioLost, ControlSame
    <2>. QED
        BY <1>4, <2>1, BridgeFrame, FaultType DEF TypeOK, AudioLost, textVars,
           otherCounts
<1>5. CASE CoverStored
    <2>1. ControlTypeOK'
        BY <1>5, BridgeFrame, ControlFrame DEF TypeOK, CoverStored, ControlSame
    <2>. QED
        BY <1>5, <2>1, BridgeFrame, BridgeAssumption DEF TypeOK, CoverStored, textVars,
           countVars
<1>6. CASE TextsSettle
    <2>1. ControlTypeOK'
        BY <1>6, BridgeFrame, ControlFrame DEF TypeOK, TextsSettle, ControlSame
    <2>. QED
        BY <1>6, <2>1, BridgeFrame DEF TypeOK, TextsSettle, countVars
<1>. QED
    BY <1>1, <1>2, <1>3, <1>4, <1>5, <1>6

LEMMA TypeTick == ASSUME TypeOK, Tick PROVE TypeOK'
<1>1. ControlTypeOK'
    BY GuardAssumption, DownType DEF TypeOK, Tick, Elapse, ControlTypeOK, uiVars
<1>2. coverFor' \in 0..(CoverTicks + 1) /\ coverWait' \in 0..RetryTicks
    <2>1. CoverTicks + 1 \in Nat /\ RetryTicks \in Nat
        BY BridgeAssumption
    <2>. QED
        BY <2>1, DownType DEF TypeOK, Tick
<1>3. timerIn' \in 1..PollTicks /\ timerDue' \in BOOLEAN
    BY BridgeAssumption DEF TypeOK, Tick
<1>. QED
    BY <1>1, <1>2, <1>3 DEF TypeOK, Tick, playerVars, textVars, pollVars, statusVars,
       smtcVars, countVars

\* Only WindowChanges touches the windows.
LEMMA WindowFrame ==
    ASSUME Worker \/ OnButtonPressed \/ Tick \/ UNCHANGED vars
           \/ UiThreadGetsMessage \/ SongChanges \/ TextsSettle \/ UserClicks
           \/ AudioFollows \/ AudioLost \/ CoverStored
    PROVE  UNCHANGED <<window, windows>>
<1>1. CASE Worker
    BY <1>1 DEF Worker, ObserveControl, ReadShared, RetryCover, PollStatus,
       AskTitle, PublishTimeline, StartPoll, HandleMediaControl,
       HandleMediaControlCompletion, DispatchQueued, DispatchUnavailable, DispatchRefused, uiVars
<1>. QED
    BY <1>1 DEF OnButtonPressed, Tick, vars, UiThreadGetsMessage, SongChanges,
       TextsSettle, UserClicks, AudioFollows, AudioLost, CoverStored, uiVars

LEMMA TypeStep == ASSUME TypeInv, [Next]_vars PROVE TypeInv'
<1> USE DEF TypeInv
<1>1. CASE Worker
    BY <1>1, WindowFrame, TypeObserve, TypeReadShared, TypeRetryCover, TypePollStatus,
       TypeAskTitle, TypePublishTimeline, TypeMessages, TypePress, TypeCompletion
       DEF Worker, WindowInv
<1>2. CASE KuGou
    BY <1>2, WindowFrame, TypeUiThread, TypeWindow, TypeKuGou DEF KuGou, WindowInv
<1>3. CASE UNCHANGED vars
    <2>1. UNCHANGED bridgeVars
        BY <1>3 DEF vars, bridgeVars
    <2>2. ControlTypeOK'
        BY <1>3, ControlFrame DEF vars, TypeOK, ControlSame
    <2>. QED
        BY <1>3, <2>1, <2>2, BridgeFrame, WindowFrame
           DEF TypeOK, WindowInv, vars, playerVars, textVars, countVars
<1>4. CASE OnButtonPressed \/ Tick
    BY <1>4, WindowFrame, TypeMessages, TypeTick DEF WindowInv
<1>. QED
    BY <1>1, <1>2, <1>3, <1>4 DEF Next

LEMMA TypeInvariant == Spec => []TypeInv
<1>1. ASSUME Init PROVE TypeInv
    <2>1. 1 \in 1..(WindowBudget + 1)
        BY GuardAssumption
    <2>. QED
        BY <1>1, <2>1, TypeInit, GuardAssumption
           DEF Init, ControlInit, TypeInv, WindowInv
<1>. QED
    BY <1>1, TypeStep, PTL DEF Spec

\* The bridge keeps its types: guards and countdowns within their periods, the
\* hook on a window that was there, nothing in the queues but actions.
THEOREM BridgeTypes == Spec => []TypeOK
BY TypeInvariant, PTL DEF TypeInv

-----------------------------------------------------------------------------
(* What SMTC shows belongs together.                                       *)

\* The block is never emptied again.
BlockInv == channel = None => lastRawTitle = None

\* Whatever call threw, title and cover on the updater are those of the song
\* for which PublishMetadata last began, or none.
DraftInv == draft.title \in {currentSong, None} /\ draft.cover \in {currentSong, None}

\* As long as no call threw, the bridge remembers the title that is shown.
UnthrownInv ==
    "winrt" \notin faults =>
        /\ currentSong = lastRawTitle
        /\ draft.title = lastRawTitle /\ shown.title = lastRawTitle

DisplayInv ==
    /\ BlockInv /\ DraftInv /\ UnthrownInv
    /\ TimelineUnderOwnSong /\ CoverUnderOwnSong

displayVars == <<lastRawTitle, currentSong, draft, shown, timeline>>

\* A step that leaves the display and the block alone keeps the invariant.
LEMMA DisplayFrame ==
    ASSUME DisplayInv, UNCHANGED displayVars,
           channel' = channel \/ channel' # None,
           faults \subseteq faults'
    PROVE  DisplayInv'
<1>1. /\ lastRawTitle' = lastRawTitle /\ currentSong' = currentSong
      /\ draft' = draft /\ shown' = shown /\ timeline' = timeline
    BY DEF displayVars
<1>2. "winrt" \notin faults' => "winrt" \notin faults
    OBVIOUS
<1>. QED
    BY <1>1, <1>2 DEF DisplayInv, BlockInv, DraftInv, UnthrownInv,
       TimelineUnderOwnSong, CoverUnderOwnSong

\* A fault is never forgotten.
LEMMA FaultsStay == ASSUME NEW kind, NoFault \/ Fault(kind) PROVE faults \subseteq faults'
BY DEF NoFault, Fault

\* Every step but ReadShared, RetryCover and PublishTimeline leaves the display
\* alone, and publishes nothing empty.
LEMMA DisplaySame ==
    ASSUME \/ ObserveControl \/ PollStatus \/ AskTitle \/ StartPoll
           \/ HandleMediaControl \/ HandleMediaControlCompletion \/ OnButtonPressed \/ KuGou \/ Tick
           \/ UNCHANGED vars
    PROVE  /\ UNCHANGED displayVars
           /\ channel' = channel \/ channel' # None
           /\ faults \subseteq faults'
<1> USE FaultsStay DEF displayVars, pollVars, smtcVars
<1>1. CASE ObserveControl
    BY <1>1 DEF ObserveControl, NewTitle
<1>2. CASE PollStatus
    BY <1>2 DEF PollStatus, StatusThrows, PollThrows
<1>3. CASE StartPoll
    BY <1>3 DEF StartPoll, countVars
<1>4. CASE HandleMediaControl
    BY <1>4 DEF HandleMediaControl
<1>5. CASE HandleMediaControlCompletion
    BY <1>5 DEF HandleMediaControlCompletion, countVars
<1>6. CASE OnButtonPressed
    BY <1>6 DEF OnButtonPressed
<1>7. CASE UiThreadGetsMessage
    BY <1>7 DEF UiThreadGetsMessage
<1>8. CASE WindowChanges \/ SongChanges \/ TextsSettle \/ UserClicks
    BY <1>8 DEF WindowChanges, SongChanges, TextsSettle, UserClicks, bridgeVars, countVars
<1>9. CASE AudioFollows \/ AudioLost \/ CoverStored
    BY <1>9 DEF AudioFollows, AudioLost, CoverStored, bridgeVars, countVars
<1>10. CASE Tick
    BY <1>10 DEF Tick, countVars
<1>11. CASE UNCHANGED vars
    BY <1>11 DEF vars, countVars
<1>12. CASE AskTitle
    BY <1>12 DEF AskTitle
<1>. QED
    BY <1>1, <1>2, <1>3, <1>4, <1>5, <1>6, <1>7, <1>8, <1>9, <1>10, <1>11, <1>12 DEF KuGou

\* TryPublishCoverArt adds the cover of song s to a display, or leaves it.
LEMMA TryCoverDisplay ==
    ASSUME NEW s, NEW pub, NEW d, NEW sh, TryPublishCoverArt(s, pub, d, sh)
    PROVE  /\ draft' \in {d, [d EXCEPT !.cover = s]}
           /\ shown' \in {sh, [d EXCEPT !.cover = s]}
           /\ faults \subseteq faults'
BY FaultsStay DEF TryPublishCoverArt

\* A poll that shows a new title.
LEMMA DisplayReadShared ==
    ASSUME TypeOK, DisplayInv, ReadShared
    PROVE  DisplayInv'
<1> DEFINE s == channel
<1>0. s \in Songs \cup {None} /\ Titled(s) \in Display /\ UNCHANGED channel
    BY DisplayType DEF TypeOK, ReadShared
<1>1. CASE s # lastRawTitle /\ PublishMetadata(s) /\ Remember(s)
    <2>1. Titled(s).title = s /\ Titled(s).cover = None
        BY DEF Titled
    <2>2. /\ draft'.title = s /\ draft'.cover \in {s, None}
          /\ \/ shown' = Titled(s)
             \/ shown'.title = s /\ shown'.cover = s
        <3>1. /\ draft' \in {Titled(s), [Titled(s) EXCEPT !.cover = s]}
              /\ shown' \in {Titled(s), [Titled(s) EXCEPT !.cover = s]}
            BY <1>1, TryCoverDisplay DEF PublishMetadata
        <3>. QED
            BY <3>1 DEF Titled
    <2>3. lastRawTitle' = s /\ currentSong' = s /\ timeline' = None
        BY <1>1 DEF PublishMetadata, Remember, ClearTimeline
    <2>4. shown'.title = s /\ shown'.cover \in {s, None}
        BY <2>1, <2>2
    <2>5. BlockInv'
        BY <1>0, <2>3 DEF BlockInv
    <2>6. DraftInv' /\ UnthrownInv'
        BY <2>2, <2>3, <2>4 DEF DraftInv, UnthrownInv
    <2>7. TimelineUnderOwnSong' /\ CoverUnderOwnSong'
        BY <2>3, <2>4, BridgeAssumption DEF TimelineUnderOwnSong, CoverUnderOwnSong
    <2>. QED
        BY <2>5, <2>6, <2>7 DEF DisplayInv
<1>2. CASE s # lastRawTitle /\ PublishMetadataThrows(s) /\ Remember(lastRawTitle)
    <2>1. "winrt" \in faults' /\ lastRawTitle' = lastRawTitle /\ shown' = shown
        BY <1>2 DEF PublishMetadataThrows, PollThrows, Fault, Remember
    <2>2. DraftInv'
        BY <1>2 DEF DisplayInv, DraftInv, PublishMetadataThrows, Blank, Titled
    <2>. QED
        BY <1>0, <2>1, <2>2 DEF DisplayInv, BlockInv, UnthrownInv,
           TimelineUnderOwnSong, CoverUnderOwnSong
<1>3. CASE /\ (s = lastRawTitle /\ NoFault) \/ Fault("miss")
           /\ Remember(lastRawTitle)
           /\ UNCHANGED <<timeline, timelineAvailable, currentSong, coverVars,
                          draft, shown>>
    BY <1>0, <1>3, DisplayFrame, FaultsStay DEF displayVars, Remember
<1>. QED
    BY <1>1, <1>2, <1>3 DEF ReadShared

\* A poll that looks for the cover again.
LEMMA DisplayRetryCover ==
    ASSUME TypeOK, DisplayInv, RetryCover
    PROVE  DisplayInv'
<1>0. UNCHANGED <<channel, lastRawTitle, currentSong, timeline>> /\ draft \in Display
    BY DEF RetryCover, pollVars, TypeOK
<1>1. CASE TryPublishCoverArt(currentSong, publishedCover, draft, shown)
    <2>1. /\ draft'.title = draft.title /\ draft'.cover \in {currentSong, None}
          /\ \/ shown' = shown
             \/ shown'.title = draft.title /\ shown'.cover = currentSong
          /\ faults \subseteq faults'
        <3>1. /\ draft' \in {draft, [draft EXCEPT !.cover = currentSong]}
              /\ shown' \in {shown, [draft EXCEPT !.cover = currentSong]}
              /\ faults \subseteq faults'
            BY <1>1, TryCoverDisplay
        <3>. QED
            BY <1>0, <3>1 DEF Display, DisplayInv, DraftInv
    <2>2. "winrt" \notin faults' => "winrt" \notin faults
        BY <2>1
    <2>3. BlockInv' /\ DraftInv'
        BY <1>0, <2>1 DEF DisplayInv, BlockInv, DraftInv
    <2>4. UnthrownInv'
        BY <1>0, <2>1, <2>2 DEF DisplayInv, UnthrownInv
    <2>5. TimelineUnderOwnSong'
        BY <1>0, <2>1, <2>2 DEF DisplayInv, UnthrownInv, TimelineUnderOwnSong
    <2>6. CoverUnderOwnSong'
        BY <2>1 DEF DisplayInv, DraftInv, CoverUnderOwnSong
    <2>. QED
        BY <2>3, <2>4, <2>5, <2>6 DEF DisplayInv
<1>2. CASE NoFault /\ UNCHANGED <<draft, shown, publishedCover, coverWait>>
    BY <1>0, <1>2, DisplayFrame, FaultsStay DEF displayVars
<1>. QED
    BY <1>1, <1>2 DEF RetryCover

\* A poll that shows the times, or clears them: those of a song only if it is
\* the remembered one.
LEMMA DisplayPublishTimeline ==
    ASSUME DisplayInv, PublishTimeline
    PROVE  DisplayInv'
<1>1. UNCHANGED <<channel, lastRawTitle, currentSong, draft, shown>>
    BY DEF PublishTimeline, pollVars
<1>2. faults \subseteq faults'
    BY FaultsStay DEF PublishTimeline
<1>3. \/ timeline' \in {None, Mixed} \/ timeline' = timeline
      \/ timeline' = lastRawTitle /\ faults' = faults
    BY DEF PublishTimeline, ClearTimeline, Sampled, Asked, NoFault
<1>4. "winrt" \notin faults' => "winrt" \notin faults
    BY <1>2
<1>5. None \notin Songs /\ Mixed \notin Songs
    BY BridgeAssumption
<1>. QED
    BY <1>1, <1>3, <1>4, <1>5 DEF DisplayInv, BlockInv, DraftInv, UnthrownInv,
       TimelineUnderOwnSong, CoverUnderOwnSong

LEMMA DisplayInvariant == Spec => []DisplayInv
<1>1. Init => DisplayInv
    BY BridgeAssumption DEF Init, Blank, DisplayInv, BlockInv, DraftInv, UnthrownInv,
       TimelineUnderOwnSong, CoverUnderOwnSong
<1>2. ASSUME TypeOK, DisplayInv, [Next]_vars PROVE DisplayInv'
    <2>1. CASE ReadShared \/ RetryCover \/ PublishTimeline
        BY <1>2, <2>1, DisplayReadShared, DisplayRetryCover, DisplayPublishTimeline
    <2>2. CASE \/ ObserveControl \/ PollStatus \/ AskTitle \/ StartPoll
               \/ HandleMediaControl \/ HandleMediaControlCompletion \/ OnButtonPressed \/ KuGou \/ Tick
               \/ UNCHANGED vars
        BY <1>2, <2>2, DisplaySame, DisplayFrame
    <2>. QED
        BY <1>2, <2>1, <2>2 DEF Next, Worker
<1>. QED
    BY <1>1, <1>2, BridgeTypes, PTL DEF Spec

\* Unless a WinRT call threw, times that were read from a settled panel are
\* shown only under their own song's title, whatever titles are published and
\* read in whatever order, and whenever the song changes between those reads.
THEOREM TimelineIsOwn == Spec => []TimelineUnderOwnSong
BY DisplayInvariant, PTL DEF DisplayInv

\* A cover is shown only with its own song or without a title, whichever calls
\* threw and however often the cover was looked for again.
THEOREM CoverIsOwn == Spec => []CoverUnderOwnSong
BY DisplayInvariant, PTL DEF DisplayInv

-----------------------------------------------------------------------------
(* The status.                                                             *)

\* While a command is trusted, what it asked for is what the bridge remembers.
TrustInv ==
    expectedPlaying # None => playbackInitialized /\ lastPlaying = expectedPlaying

\* What the bridge remembers has been shown in this very step.
JustShown == playbackInitialized' /\ status' = StatusFor(lastPlaying)'

\* A step that leaves what is remembered and what is trusted alone keeps the
\* invariant.
LEMMA TrustFrame ==
    ASSUME TrustInv, UNCHANGED <<statusVars, expectedPlaying>>
    PROVE  TrustInv'
BY DEF TrustInv, statusVars

\* Every step but PollStatus and HandleMediaControlCompletion leaves the status
\* and what is remembered and trusted of it alone.
LEMMA StatusSame ==
    ASSUME \/ ObserveControl \/ ReadShared \/ RetryCover \/ AskTitle \/ PublishTimeline
           \/ StartPoll \/ HandleMediaControl \/ OnButtonPressed \/ KuGou \/ Tick
           \/ UNCHANGED vars
    PROVE  UNCHANGED <<status, statusVars, expectedPlaying>>
<1> USE DEF statusVars, guardVars, smtcVars
<1>1. CASE ObserveControl
    BY <1>1 DEF ObserveControl
<1>2. CASE ReadShared
    BY <1>2 DEF ReadShared
<1>3. CASE RetryCover
    BY <1>3 DEF RetryCover
<1>4. CASE AskTitle \/ PublishTimeline
    BY <1>4 DEF AskTitle, PublishTimeline
<1>5. CASE StartPoll
    BY <1>5 DEF StartPoll
<1>6. CASE HandleMediaControl
    BY <1>6 DEF HandleMediaControl
<1>7. CASE OnButtonPressed
    BY <1>7 DEF OnButtonPressed
<1>8. CASE UiThreadGetsMessage
    BY <1>8 DEF UiThreadGetsMessage
<1>9. CASE WindowChanges \/ SongChanges \/ TextsSettle \/ UserClicks
    BY <1>9 DEF WindowChanges, SongChanges, TextsSettle, UserClicks, bridgeVars
<1>10. CASE AudioFollows \/ AudioLost \/ CoverStored
    BY <1>10 DEF AudioFollows, AudioLost, CoverStored, bridgeVars
<1>11. CASE Tick
    BY <1>11 DEF Tick, Elapse
<1>12. CASE UNCHANGED vars
    BY <1>12 DEF vars
<1>. QED
    BY <1>1, <1>2, <1>3, <1>4, <1>5, <1>6, <1>7, <1>8, <1>9, <1>10, <1>11, <1>12
       DEF KuGou

\* A completion shows, remembers and trusts the same thing, or changes nothing.
LEMMA StatusCompletion ==
    ASSUME TrustInv, HandleMediaControlCompletion
    PROVE  TrustInv' /\ (JustShown \/ UNCHANGED <<status, statusVars>>)
<1>1. UNCHANGED lastRawTitle
    BY DEF HandleMediaControlCompletion, pollVars
<1>2. CASE UNCHANGED <<expectedPlaying, expiresIn, status, statusVars>>
    BY <1>2, TrustFrame
<1>3. CASE ~Head(messages).executed
    BY <1>2, <1>3 DEF HandleMediaControlCompletion
<1>4. CASE Head(messages).executed
    <2> DEFINE p == RequestedPlaybackState(Head(messages).action)
    <2>1. /\ expectedPlaying' = p /\ lastPlaying' = p /\ playbackInitialized' = TRUE
          /\ status' = StatusFor(p)
        BY <1>4 DEF HandleMediaControlCompletion, RecordSuccessfulCommand
    <2>. QED
        BY <1>1, <2>1 DEF JustShown, TrustInv, StatusFor
<1>. QED
    BY <1>3, <1>4

\* A poll that resolves to p shows and remembers p, or leaves both.
LEMMA StatusPoll ==
    ASSUME TrustInv, PollStatus
    PROVE  TrustInv' /\ (JustShown \/ UNCHANGED <<status, statusVars>>)
<1> DEFINE p == Resolved(Observed)
<1>1. UNCHANGED lastRawTitle
    BY DEF PollStatus, pollVars
<1>2. /\ expectedPlaying' # None => expectedPlaying' = expectedPlaying
      /\ expectedPlaying' # None => p = expectedPlaying
    BY DEF PollStatus, Resolve, Resolved
<1>3. \/ status' = StatusFor(p) /\ lastPlaying' = p /\ playbackInitialized' = TRUE
      \/ UNCHANGED <<status, statusVars>>
    BY DEF PollStatus, StatusThrows
<1>. QED
    BY <1>1, <1>2, <1>3 DEF JustShown, TrustInv, StatusFor, statusVars

\* Every step keeps the trust and shows what it remembers, or leaves both.
LEMMA StatusStep ==
    ASSUME TrustInv, [Next]_vars
    PROVE  TrustInv' /\ (JustShown \/ UNCHANGED <<status, statusVars>>)
<1>1. CASE PollStatus \/ HandleMediaControlCompletion
    BY <1>1, StatusPoll, StatusCompletion
<1>2. CASE \/ ObserveControl \/ ReadShared \/ RetryCover \/ AskTitle \/ PublishTimeline
           \/ StartPoll \/ HandleMediaControl \/ OnButtonPressed \/ KuGou \/ Tick
           \/ UNCHANGED vars
    BY <1>2, StatusSame, TrustFrame
<1>. QED
    BY <1>1, <1>2 DEF Next, Worker

LEMMA TrustInvariant == Spec => []TrustInv
<1>1. Init => TrustInv
    BY DEF Init, ControlInit, TrustInv
<1>. QED
    BY <1>1, StatusStep, PTL DEF Spec

\* The remembered state changes only together with the status SMTC shows, also
\* when the call that sets the status throws: last_playing_ is assigned after it.
THEOREM StatusIsRemembered == Spec => RememberedStatusShown
<1>1. ASSUME TrustInv, [Next]_vars
      PROVE  [\/ UNCHANGED <<status, statusVars>>
              \/ playbackInitialized' /\ status' = StatusFor(lastPlaying)']_vars
    BY <1>1, StatusStep DEF JustShown
<1>. QED
    BY <1>1, TrustInvariant, PTL DEF RememberedStatusShown, Spec

\* A poll never replaces the status of a command that is still trusted.
THEOREM TrustedStatusIsKept == Spec => TrustedStatusStands
<1>1. ASSUME TypeOK, TrustInv,
             PollStatus, expectedPlaying # None, expiresIn > 0
      PROVE  status' = status
    <2>1. Resolved(Observed) = expectedPlaying
        BY <1>1 DEF Resolved, Trusted
    <2>2. playbackInitialized /\ Resolved(Observed) = lastPlaying
        BY <1>1, <2>1 DEF TrustInv
    <2>. QED
        BY <1>1, <2>2 DEF PollStatus, StatusThrows
<1>. QED
    BY <1>1, BridgeTypes, TrustInvariant, PTL DEF TrustedStatusStands

-----------------------------------------------------------------------------
(* The commands.                                                           *)

QueueInv == QueuedCommandsHooked /\ CommandsRunOnce

queueVars == <<hook, window, uiQueue, dispatched, executed>>

\* A window that is created finds no command: the last one took them with it.
LEMMA QueueWindow ==
    ASSUME TypeOK, QueueInv, WindowChanges PROVE QueueInv'
<1>1. /\ uiQueue \in Seq(Actions) /\ dispatched \in Nat /\ executed \in Nat
      /\ executed' = executed /\ dispatched' = dispatched
    BY DEF TypeOK, ControlTypeOK, WindowChanges, WindowDestroyed, WindowCreated
<1>2. CASE WindowDestroyed
    <2>1. uiQueue' = <<>> /\ Len(uiQueue') = 0 /\ Len(uiQueue) \in Nat
        BY <1>1, <1>2 DEF WindowDestroyed
    <2>. QED
        BY <1>1, <2>1 DEF QueueInv, QueuedCommandsHooked, CommandsRunOnce
<1>3. CASE WindowCreated
    BY <1>1, <1>3 DEF WindowCreated, QueueInv, QueuedCommandsHooked, CommandsRunOnce
<1>. QED
    BY <1>2, <1>3 DEF WindowChanges

\* Dispatch hooks the thread before it posts, and gives no live hook up.
LEMMA QueueDispatch ==
    ASSUME TypeOK, QueueInv, HandleMediaControl PROVE QueueInv'
<1>1. /\ uiQueue \in Seq(Actions) /\ dispatched \in Nat /\ executed \in Nat
      /\ Head(messages).action \in Actions
    <2>1. Head(messages) \in Message
        BY DEF TypeOK, HandleMediaControl
    <2>. QED
        BY <2>1 DEF TypeOK, ControlTypeOK, Message
<1>2. CASE UNCHANGED queueVars
    BY <1>2 DEF QueueInv, QueuedCommandsHooked, CommandsRunOnce, queueVars
<1>3. ASSUME NEW a \in Actions, DispatchQueued(a) PROVE QueueInv'
    <2>1. Len(uiQueue') = Len(uiQueue) + 1 /\ Len(uiQueue) \in Nat
        BY <1>1, <1>3 DEF DispatchQueued
    <2>2. /\ hook' # None /\ hook' = window' /\ executed' = executed
          /\ dispatched' = dispatched + 1
        BY <1>3 DEF DispatchQueued, EnsureUiThreadHook
    <2>. QED
        BY <1>1, <2>1, <2>2 DEF QueueInv, QueuedCommandsHooked, CommandsRunOnce
<1>4. CASE DispatchRefused
    BY <1>4 DEF DispatchRefused, EnsureUiThreadHook, QueueInv, QueuedCommandsHooked,
       CommandsRunOnce
<1>5. CASE DispatchUnavailable
    BY <1>5 DEF DispatchUnavailable, HookUnavailable, HookAlive, QueueInv,
       QueuedCommandsHooked, CommandsRunOnce
<1>. QED
    BY <1>1, <1>2, <1>3, <1>4, <1>5 DEF HandleMediaControl, queueVars, uiVars

\* The hook procedure carries a command out only when the message is removed.
LEMMA QueueHook ==
    ASSUME TypeOK, QueueInv, UiThreadGetsMessage PROVE QueueInv'
<1>1. /\ uiQueue \in Seq(Actions) /\ uiQueue # <<>>
      /\ dispatched \in Nat /\ executed \in Nat
      /\ UNCHANGED <<hook, window, dispatched>>
    BY DEF TypeOK, ControlTypeOK, UiThreadGetsMessage
<1>2. \/ uiQueue' = Tail(uiQueue) /\ executed' \in {executed, executed + 1}
      \/ uiQueue' = uiQueue /\ executed' = executed
    BY <1>1 DEF UiThreadGetsMessage, RunHook, Acts
<1>3. Len(Tail(uiQueue)) = Len(uiQueue) - 1 /\ Len(uiQueue) \in Nat
    BY <1>1
<1>. QED
    BY <1>1, <1>2, <1>3 DEF QueueInv, QueuedCommandsHooked, CommandsRunOnce

LEMMA QueueSame ==
    ASSUME \/ ObserveControl \/ ReadShared \/ RetryCover \/ PollStatus \/ AskTitle
           \/ PublishTimeline \/ StartPoll \/ HandleMediaControlCompletion
           \/ OnButtonPressed \/ Tick \/ SongChanges \/ TextsSettle \/ UserClicks
           \/ AudioFollows \/ AudioLost \/ CoverStored \/ UNCHANGED vars
    PROVE  UNCHANGED queueVars
<1> USE DEF queueVars, uiVars
<1>1. CASE \/ ObserveControl \/ ReadShared \/ RetryCover \/ PollStatus \/ AskTitle
           \/ PublishTimeline
    BY <1>1 DEF ObserveControl, ReadShared, RetryCover, PollStatus, AskTitle,
       PublishTimeline
<1>2. CASE StartPoll \/ HandleMediaControlCompletion \/ OnButtonPressed \/ Tick
    BY <1>2 DEF StartPoll, HandleMediaControlCompletion, OnButtonPressed, Tick
<1>3. CASE \/ SongChanges \/ TextsSettle \/ UserClicks \/ AudioFollows \/ AudioLost
           \/ CoverStored \/ UNCHANGED vars
    BY <1>3 DEF SongChanges, TextsSettle, UserClicks, AudioFollows, AudioLost, CoverStored, vars
<1>. QED
    BY <1>1, <1>2, <1>3

LEMMA QueueInvariant == Spec => []QueueInv
<1>1. Init => QueueInv
    BY DEF Init, ControlInit, QueueInv, QueuedCommandsHooked, CommandsRunOnce
<1>2. ASSUME QueueInv, UNCHANGED queueVars PROVE QueueInv'
    BY <1>2 DEF QueueInv, QueuedCommandsHooked, CommandsRunOnce, queueVars
<1>3. ASSUME TypeOK, QueueInv, [Next]_vars PROVE QueueInv'
    BY <1>2, <1>3, QueueSame, QueueWindow, QueueDispatch, QueueHook
       DEF Next, Worker, KuGou
<1>. QED
    BY <1>1, <1>3, BridgeTypes, PTL DEF Spec

\* A queued command always lies on a live, hooked window, through every
\* creation and loss of windows and every failed dispatch.
THEOREM QueueIsHooked == Spec => []QueuedCommandsHooked
BY QueueInvariant, PTL DEF QueueInv

\* No command is carried out twice, however often its message is peeked at.
THEOREM CommandsOnce == Spec => []CommandsRunOnce
BY QueueInvariant, PTL DEF QueueInv

=============================================================================
