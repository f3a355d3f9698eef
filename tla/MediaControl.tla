---------------------------- MODULE MediaControl ----------------------------
(***************************************************************************)
(* How a media command reaches the player (src/media_control.cpp): the two *)
(* guards the worker thread keeps, the WH_GETMESSAGE hook it installs on   *)
(* KuGou's UI thread, and the hook procedure that runs there.  A command   *)
(* crosses to the UI thread as a message posted to a KuGou window, and its *)
(* outcome comes back as a completion message.  Times are countdowns in    *)
(* ticks; Elapse is what one tick does to the guards.                      *)
(***************************************************************************)
EXTENDS Integers, Sequences

CONSTANTS
    EchoTicks,       \* kEchoSuppressionMs
    TrustTicks,      \* kCommandStatusTrustMs
    WindowBudget,    \* bound: main windows KuGou creates after the first
    None             \* std::nullopt, a null handle

ASSUME GuardAssumption ==
    /\ EchoTicks \in Nat \ {0} /\ TrustTicks \in Nat \ {0} /\ WindowBudget \in Nat
    /\ None \notin 1..(WindowBudget + 1)

VARIABLES
    blockedFor,       \* ticks until blocked_until_
    expectedPlaying,  \* expected_playing_
    expiresIn,        \* ticks until expires_at_
    hook,             \* g_ui_target_window while g_ui_thread_hook is installed
    window,           \* KuGou's main window, None while it has none
    windows,          \* windows created so far
    uiQueue,          \* commands posted to the UI thread's queue
    playing,          \* the player plays
    dispatched,       \* commands put into uiQueue so far
    executed          \* commands the hook carried out so far

guardVars == <<blockedFor, expectedPlaying, expiresIn>>
uiVars == <<hook, window, windows, uiQueue, playing, dispatched, executed>>

Actions == {"play", "pause", "previous", "next"}

ControlTypeOK ==
    /\ blockedFor \in 0..EchoTicks
    /\ expectedPlaying \in BOOLEAN \cup {None}
    /\ expiresIn \in 0..TrustTicks
    /\ hook \in 1..(WindowBudget + 1) \cup {None}
    /\ window \in 1..(WindowBudget + 1) \cup {None}
    /\ windows \in 1..(WindowBudget + 1)
    /\ uiQueue \in Seq(Actions)
    /\ playing \in BOOLEAN
    /\ dispatched \in Nat
    /\ executed \in Nat

ControlInit ==
    /\ blockedFor = 0
    /\ expectedPlaying = None
    /\ expiresIn = 0
    /\ hook = None
    /\ window = 1
    /\ windows = 1
    /\ uiQueue = <<>>
    /\ playing \in BOOLEAN
    /\ dispatched = 0
    /\ executed = 0

-----------------------------------------------------------------------------
(* The guards of the worker thread.                                        *)

DownPastZero(n) == n - 1
Down(n) == IF n = 0 THEN 0 ELSE n - 1

Elapse ==
    /\ blockedFor' = Down(blockedFor)
    /\ expiresIn' = Down(expiresIn)
    /\ UNCHANGED expectedPlaying

\* RequestedPlaybackState
RequestedPlaybackState(a) == a # "pause"

\* PlaybackCommandStatusGuard::RecordSuccessfulCommand
RecordSuccessfulCommand(a) ==
    /\ expectedPlaying' = RequestedPlaybackState(a)
    /\ expiresIn' = TrustTicks

\* PlaybackCommandStatusGuard::Resolve: whether the command is still trusted
\* over what the audio session shows, and the status to show.
NeverTrusted(observed) == FALSE
TrustedForever(observed) == expectedPlaying # None /\ observed # expectedPlaying
Trusted(observed) ==
    expectedPlaying # None /\ observed # expectedPlaying /\ expiresIn > 0

Resolved(observed) == IF Trusted(observed) THEN expectedPlaying ELSE observed

Resolve(observed) ==
    IF Trusted(observed)
      THEN UNCHANGED <<expectedPlaying, expiresIn>>
      ELSE expectedPlaying' = None /\ expiresIn' = 0

-----------------------------------------------------------------------------
(* Dispatch, on the worker thread.                                         *)

\* EnsureUiThreadHook: the installed hook serves while its window lives, else
\* a new one is set on the best window there is.
HookAlive == hook # None /\ hook = window
KeepHook == window # None /\ hook' = IF hook = None THEN window ELSE hook
EnsureUiThreadHook == window # None /\ hook' = window

\* ResetUiThreadHook, and no window or no hook to replace it.
HookUnavailable == ~HookAlive /\ hook' = None

\* KuGouMediaController::Dispatch
DispatchQueued(a) ==
    /\ EnsureUiThreadHook
    /\ uiQueue' = Append(uiQueue, a)
    /\ dispatched' = dispatched + 1
    /\ UNCHANGED <<window, windows, playing, executed>>

\* PostMessage fails on a hooked window.
DispatchRefused ==
    /\ EnsureUiThreadHook
    /\ UNCHANGED <<window, windows, uiQueue, playing, dispatched, executed>>

DispatchUnavailable ==
    /\ HookUnavailable
    /\ UNCHANGED <<window, windows, uiQueue, playing, dispatched, executed>>

-----------------------------------------------------------------------------
(* KuGou's UI thread.                                                      *)

\* MediaControlUiHook acts on a message the thread removes, not on a peek.
ActsOnPeekToo(removed) == TRUE
Acts(removed) == removed

\* ExecuteMediaControlInsideUiThread: the callback at InternalCommandCallbackRva
\* in kugou.dll.  Play and pause share one callback, which toggles.
Toggles(a) == a \in {"play", "pause"}
PlayingAfter(a) == IF Toggles(a) THEN ~playing ELSE TRUE

RunHook(a, found) ==
    /\ playing' = IF found THEN PlayingAfter(a) ELSE playing
    /\ executed' = executed + (IF found THEN 1 ELSE 0)

\* The window the messages were posted to is destroyed, and they with it.
WindowDestroyed ==
    /\ window # None
    /\ windows <= WindowBudget
    /\ window' = None
    /\ uiQueue' = <<>>
    /\ UNCHANGED <<hook, windows, playing, dispatched, executed>>

WindowCreated ==
    /\ window = None
    /\ windows' = windows + 1
    /\ window' = windows + 1
    /\ UNCHANGED <<hook, uiQueue, playing, dispatched, executed>>

=============================================================================
