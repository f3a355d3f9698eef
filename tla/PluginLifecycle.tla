-------------------------- MODULE PluginLifecycle --------------------------
(***************************************************************************)
(* A KuGou process from the moment it loads the plugin in place of         *)
(* version.dll to the end of the worker thread: DllMain (src/dllmain.cpp), *)
(* the forwarding of the exports (src/forward_stubs.cpp), the choice of a  *)
(* role (src/runtime_policy.cpp), start and end of the bridge              *)
(* (src/smtc_bridge.cpp).  Every call to the system may fail.  What the    *)
(* worker does between its start and WM_CLOSE is in SmtcBridge.            *)
(***************************************************************************)
EXTENDS Integers, Sequences
LOCAL INSTANCE SequencesExt

CONSTANTS
    Paths,          \* the executables that load the plugin, each as the
                    \* names along its path
    Exports,        \* the number of exports of version.dll
    LoadBudget,     \* bound: calls of LoadLibrary
    FaultBudget     \* bound: calls to the system that fail

ASSUME LifecycleAssumption ==
    /\ \A path \in Paths : path \in Seq(STRING)
    /\ Exports \in Nat \ {0}
    /\ LoadBudget \in Nat /\ FaultBudget \in Nat

VARIABLES
    path,           \* the executable
    kgplayer,       \* kgplayer.dll is loaded
    loader,         \* the place in DllMain, or what the loader has done
    references,     \* of the host to the plugin
    pinned,         \* the plugin is never unloaded again
    targets,        \* the entries of g_version_targets that are set, in order
    loads,          \* calls of LoadLibrary
    pc,             \* the worker's place
    code,           \* what Run returned
    window,         \* the bridge's window: none, live or destroyed
    message,        \* in the worker's queue, besides those of SmtcBridge
    session,        \* smtc_: none, got, enabled or disabled
    registered,     \* the button handler is registered
    faults,         \* calls that have failed
    closeFailed     \* history: a call of the destructor was one of them

loaderVars == <<loader, references, pinned, targets, loads>>
bridgeVars == <<code, window, message, session, registered, closeFailed>>
vars == <<path, kgplayer, loaderVars, pc, bridgeVars, faults>>

Starting == {"role", "module", "apartment", "open", "window", "get", "enable",
             "buttons", "status", "register", "poll"}
Closing == {"unregister", "closed", "disable", "members"}

TypeOK ==
    /\ path \in Paths
    /\ loader \in {"out", "forward", "pin", "thread", "in"}
    /\ references \in 0..LoadBudget /\ loads \in 0..LoadBudget
    /\ {kgplayer, pinned, registered, closeFailed} \subseteq BOOLEAN
    /\ targets \in 0..Exports
    /\ pc \in {"none", "loop", "ended"} \cup Starting \cup Closing
    /\ code \in 0..5 /\ faults \in 0..FaultBudget
    /\ window \in {"none", "live", "destroyed"}
    /\ message \in {"none", "close", "quit"}
    /\ session \in {"none", "got", "enabled", "disabled"}

Init ==
    /\ path \in Paths /\ kgplayer = FALSE
    /\ loader = "out" /\ references = 0 /\ pinned = FALSE /\ targets = 0
    /\ loads = 0
    /\ pc = "none" /\ code = 0 /\ window = "none" /\ message = "none"
    /\ session = "none" /\ registered = FALSE
    /\ faults = 0 /\ closeFailed = FALSE

Works == UNCHANGED faults
Fails == faults < FaultBudget /\ faults' = faults + 1

-----------------------------------------------------------------------------
(* The loader and DllMain, under the loader lock.                          *)

\* DLL_PROCESS_ATTACH comes only when the plugin is not loaded.
LoadLibrary ==
    /\ loads < LoadBudget /\ loads' = loads + 1
    /\ \/ loader = "out" /\ loader' = "forward" /\ UNCHANGED references
       \/ loader = "in" /\ references' = references + 1 /\ UNCHANGED loader
    /\ UNCHANGED <<path, kgplayer, pinned, targets, pc, bridgeVars, faults>>

\* DllMain returns FALSE: the loader unloads the plugin, with its variables.
AttachFails ==
    /\ Fails
    /\ loader' = "out" /\ pinned' = FALSE /\ targets' = 0
    /\ UNCHANGED <<references, loads, pc>>

\* InitializeVersionForwarding: the system's version.dll and one export after
\* the other; a failure clears every target.
SkipExport ==
    /\ loader = "forward"
    /\ \/ /\ targets' = targets + 1 /\ Works
          /\ loader' = IF targets' = Exports THEN "pin" ELSE loader
          /\ UNCHANGED <<references, pinned, loads, pc>>
       \/ Fails /\ loader' = "pin" /\ UNCHANGED <<references, pinned, targets, loads, pc>>
    /\ UNCHANGED <<path, kgplayer, bridgeVars>>
OneExportTooMany ==
    /\ loader = "forward"
    /\ \/ /\ targets' = targets + 1 /\ Works
          /\ loader' = IF targets = Exports THEN "pin" ELSE loader
          /\ UNCHANGED <<references, pinned, loads, pc>>
       \/ AttachFails
    /\ UNCHANGED <<path, kgplayer, bridgeVars>>
InitializeVersionForwarding ==
    /\ loader = "forward"
    /\ \/ /\ targets' = targets + 1 /\ Works
          /\ loader' = IF targets' = Exports THEN "pin" ELSE loader
          /\ UNCHANGED <<references, pinned, loads, pc>>
       \/ AttachFails
    /\ UNCHANGED <<path, kgplayer, bridgeVars>>

PinForgotten ==
    /\ loader = "pin" /\ loader' = "thread" /\ Works
    /\ UNCHANGED <<path, kgplayer, references, pinned, targets, loads, pc, bridgeVars>>
PinProxyModule ==
    /\ loader = "pin"
    /\ \/ /\ pinned' = TRUE /\ loader' = "thread" /\ Works
          /\ UNCHANGED <<references, targets, loads, pc>>
       \/ AttachFails
    /\ UNCHANGED <<path, kgplayer, bridgeVars>>

CreateWorker ==
    /\ loader = "thread"
    /\ \/ /\ loader' = "in" /\ references' = references + 1 /\ pc' = "role" /\ Works
          /\ UNCHANGED <<pinned, targets, loads>>
       \/ AttachFails
    /\ UNCHANGED <<path, kgplayer, bridgeVars>>

\* The last FreeLibrary unloads the plugin, unless it is pinned.
FreeLibrary ==
    /\ loader = "in" /\ references > 0
    /\ references' = references - 1
    /\ IF references' = 0 /\ ~pinned
         THEN loader' = "out" /\ targets' = 0
         ELSE UNCHANGED <<loader, targets>>
    /\ UNCHANGED <<path, kgplayer, pinned, loads, pc, bridgeVars, faults>>

-----------------------------------------------------------------------------
(* The worker: PluginThreadEntry and SmtcBridge::Run.                      *)

\* ClassifyProcessPath
Classify(p) ==
    LET parents == Front(p) IN
    CASE Last(p) # "KuGou.exe" -> "disabled"
      [] IsSuffix(<<"KGMusic">>, parents) -> "publisher"
      [] IsSuffix(<<"KGMusic", "8.3.97.21592">>, parents) -> "metadata_provider"
      [] OTHER -> "disabled"
Publisher == Classify(path) = "publisher"

\* Run returns and the destructor is next: it closes what InitializeSmtc got, and
\* unregisters the handler if there is one.
ClosesIfRegistered(n) ==
    code' = n /\ pc' = IF registered THEN "unregister" ELSE "members"
Return(n) ==
    /\ code' = n
    /\ pc' = CASE session = "none" -> "members"
               [] registered -> "unregister"
               [] OTHER -> "closed"

\* One call of Run; n is what Run returns when it fails.
Step(place, next, n) ==
    /\ pc = place
    /\ \/ pc' = next /\ Works /\ UNCHANGED code
       \/ Fails /\ Return(n)
    /\ UNCHANGED <<path, kgplayer, loaderVars, window, message, session, registered,
                   closeFailed>>

TakeRole ==
    Step("role", CASE Publisher -> "module"
                   [] Classify(path) = "metadata_provider" -> "open"
                   [] OTHER -> "members", 0)

\* It asks again after a pause, for as long as the player is not loaded.
AsksOnce ==
    /\ pc = "module"
    /\ IF kgplayer THEN pc' = "apartment" ELSE pc' = "members"
    /\ UNCHANGED <<path, kgplayer, loaderVars, bridgeVars, faults>>
WaitForPlaybackModule ==
    /\ pc = "module" /\ kgplayer /\ pc' = "apartment"
    /\ UNCHANGED <<path, kgplayer, loaderVars, bridgeVars, faults>>

InitApartment == Step("apartment", "open", 2)
OpenSharedMetadata == Step("open", "window", 3)

CreateBridgeWindow ==
    /\ pc = "window"
    /\ \/ /\ window' = "live" /\ Works /\ UNCHANGED code
          /\ pc' = IF Publisher THEN "get" ELSE "poll"
       \/ Fails /\ Return(4) /\ UNCHANGED window
    /\ UNCHANGED <<path, kgplayer, loaderVars, message, session, registered, closeFailed>>

\* One call of InitializeSmtc; after an exception Run destroys the window.
SmtcCall(place, next, effect) ==
    /\ pc = place
    /\ \/ pc' = next /\ Works /\ effect /\ UNCHANGED <<code, window, message>>
       \/ /\ Fails /\ Return(5)
          /\ window' = "destroyed" /\ message' = "quit"
          /\ UNCHANGED <<session, registered>>
    /\ UNCHANGED <<path, kgplayer, loaderVars, closeFailed>>

GetForWindow == SmtcCall("get", "enable", session' = "got" /\ UNCHANGED registered)
Enable == SmtcCall("enable", "buttons", session' = "enabled" /\ UNCHANGED registered)
EnableButtons == SmtcCall("buttons", "status", UNCHANGED <<session, registered>>)
StatusStopped == SmtcCall("status", "register", UNCHANGED <<session, registered>>)
RegisterHandler == SmtcCall("register", "poll", registered' = TRUE /\ UNCHANGED session)

FirstPoll ==
    /\ pc = "poll" /\ pc' = "loop"
    /\ UNCHANGED <<path, kgplayer, loaderVars, bridgeVars, faults>>

\* WM_CLOSE destroys the window, which posts WM_QUIT, which ends Run.
QuitForgotten ==
    /\ pc = "loop" /\ message = "close"
    /\ window' = "destroyed" /\ message' = "none"
    /\ UNCHANGED <<path, kgplayer, loaderVars, pc, code, session, registered,
                   closeFailed, faults>>
DispatchMessage ==
    /\ pc = "loop"
    /\ \/ /\ message = "close"
          /\ window' = "destroyed" /\ message' = "quit" /\ UNCHANGED <<pc, code>>
       \/ message = "quit" /\ message' = "none" /\ Return(0) /\ UNCHANGED window
    /\ UNCHANGED <<path, kgplayer, loaderVars, session, registered, closeFailed, faults>>

\* One call of ~SmtcBridge; an exception skips the calls after it.
CloseCall(place, next, effect) ==
    /\ pc = place
    /\ \/ pc' = next /\ Works /\ effect /\ UNCHANGED closeFailed
       \/ /\ Fails /\ closeFailed' = TRUE /\ pc' = "members"
          /\ UNCHANGED <<session, registered>>
    /\ UNCHANGED <<path, kgplayer, loaderVars, code, window, message>>

UnregisterHandler ==
    CloseCall("unregister", "closed", registered' = FALSE /\ UNCHANGED session)
StatusClosed == CloseCall("closed", "disable", UNCHANGED <<session, registered>>)
Disable == CloseCall("disable", "members", session' = "disabled" /\ UNCHANGED registered)

\* The members go; SharedMetadata unmaps its block.
DestroyMembers ==
    /\ pc = "members" /\ pc' = "ended"
    /\ UNCHANGED <<path, kgplayer, loaderVars, bridgeVars, faults>>

-----------------------------------------------------------------------------
(* KuGou loads its player; something sends WM_CLOSE to the bridge's window. *)

LoadPlayer ==
    /\ ~kgplayer /\ kgplayer' = TRUE
    /\ UNCHANGED <<path, loaderVars, pc, bridgeVars, faults>>

SendClose ==
    /\ window = "live" /\ message = "none" /\ message' = "close"
    /\ UNCHANGED <<path, kgplayer, loaderVars, pc, code, window, session, registered,
                   closeFailed, faults>>

-----------------------------------------------------------------------------

Loader ==
    \/ LoadLibrary \/ InitializeVersionForwarding \/ PinProxyModule \/ CreateWorker
    \/ FreeLibrary

Worker ==
    \/ TakeRole \/ WaitForPlaybackModule \/ InitApartment \/ OpenSharedMetadata
    \/ CreateBridgeWindow \/ GetForWindow \/ Enable \/ EnableButtons
    \/ StatusStopped \/ RegisterHandler \/ FirstPoll \/ DispatchMessage
    \/ UnregisterHandler \/ StatusClosed \/ Disable \/ DestroyMembers

Next == Loader \/ Worker \/ LoadPlayer \/ SendClose

Spec == Init /\ [][Next]_vars

\* The worker thread is scheduled.
Fairness == WF_vars(Worker)

FairSpec == Spec /\ Fairness

-----------------------------------------------------------------------------
(* Properties *)

\* The two parts of PluginStaysWhole.
CodeStaysLoaded == pc \notin {"none", "ended"} => loader = "in"
ExportsForwarded == loader = "in" => targets = Exports

\* The host may load and free the plugin as often as it likes: while the
\* worker runs, the plugin's code stays in the process (PinProxyModule), and
\* whoever reaches an export finds every one of them forwarded, also after an
\* attempt to attach that failed half-way.
PluginStaysWhole == CodeStaysLoaded /\ ExportsForwarded

\* However far Run came, and whenever WM_CLOSE found it, the bridge leaves no
\* session enabled and no handler that would reach it after its end, unless a
\* call of the destructor itself fails and so skips the rest (~SmtcBridge).
ClosedAfterEnd ==
    pc = "ended" /\ ~closeFailed => session \in {"none", "disabled"} /\ ~registered

\* WM_CLOSE ends the worker, also when it arrives while the SMTC session is
\* still being set up (WindowProc, Run).
CloseEndsWorker == window = "live" /\ message = "close" ~> pc = "ended"

\* However late KuGou loads its player, the publisher starts then, unless a
\* call fails (WaitForPlaybackModule).
LatePlayerServed ==
    [](pc = "role" /\ Publisher /\ <>kgplayer => <>(pc = "loop" \/ faults > 0))

=============================================================================
