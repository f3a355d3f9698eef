----------------------- MODULE PluginLifecycleProofs -----------------------
(***************************************************************************)
(* Proofs about PluginLifecycle, for any executables, number of exports    *)
(* and calls that fail.  LoaderInv says what the loader has done at each   *)
(* place of DllMain, SessionInv how far the session has come at each place *)
(* of the worker; neither reads the other, but the worker's begin.         *)
(***************************************************************************)
EXTENDS PluginLifecycle, TLAPS

\* The worker exists once DllMain has returned, and the plugin is pinned by
\* then; every target is set as soon as forwarding is done.
LoaderInv ==
    /\ loader \in {"out", "forward", "pin", "thread", "in"}
    /\ references \in Nat /\ loads \in Nat /\ targets \in Nat
    /\ loads <= LoadBudget /\ references <= loads
    /\ loader \in {"forward", "pin", "thread"} => references < loads
    /\ loader \in {"out", "forward"} => targets < Exports
    /\ loader \in {"pin", "thread", "in"} => targets = Exports
    /\ loader \in {"thread", "in"} => pinned
    /\ loader = "in" <=> pc # "none"

\* The members only go before the session is closed if there is none or a call
\* of the destructor has failed.
SessionInv ==
    /\ pc \in {"none", "loop", "ended"} \cup Starting \cup Closing
    /\ session \in {"none", "got", "enabled", "disabled"}
    /\ pc \in {"none", "role", "module", "apartment", "open", "window", "get"}
         => session = "none"
    /\ pc \in {"enable", "buttons", "status", "register"} => session # "none" /\ ~registered
    /\ pc \in {"closed", "disable"} => ~registered
    /\ session = "none" => ~registered
    /\ pc \in {"members", "ended"} /\ ~closeFailed
         => session \in {"none", "disabled"} /\ ~registered

\* What the other variables are.
OtherTypes ==
    /\ path \in Paths
    /\ code \in 0..5 /\ faults \in 0..FaultBudget
    /\ window \in {"none", "live", "destroyed"}
    /\ message \in {"none", "close", "quit"}

Flags ==
    /\ kgplayer \in BOOLEAN /\ pinned \in BOOLEAN
    /\ registered \in BOOLEAN /\ closeFailed \in BOOLEAN

IInv == LoaderInv /\ SessionInv /\ OtherTypes /\ Flags

-----------------------------------------------------------------------------

\* The invariant holds before the plugin is loaded.
LEMMA InitInv == Init => IInv
<1> SUFFICES ASSUME Init PROVE IInv
    OBVIOUS
<1>1. LoaderInv
    BY LifecycleAssumption DEF Init, LoaderInv
<1>2. SessionInv
    BY DEF Init, SessionInv, Starting, Closing
<1>3. OtherTypes
    BY LifecycleAssumption DEF Init, OtherTypes
<1>4. Flags
    BY DEF Init, Flags
<1>. QED
    BY <1>1, <1>2, <1>3, <1>4 DEF IInv

\* There is no worker before DllMain has returned.
LEMMA NoWorkerYet ==
    ASSUME IInv, loader = "thread"
    PROVE  pc = "none" /\ pinned
BY DEF IInv, LoaderInv

\* The loader and DllMain touch nothing of the bridge, but start its worker.
LEMMA LoaderFrame ==
    ASSUME IInv, Loader
    PROVE  /\ UNCHANGED <<path, kgplayer, bridgeVars>>
           /\ pc' = pc \/ (pc = "none" /\ pc' = "role")
           /\ faults' \in 0..FaultBudget
<1> USE LifecycleAssumption DEF IInv, OtherTypes, AttachFails, Works, Fails
<1>1. CASE LoadLibrary
    BY <1>1 DEF LoadLibrary
<1>2. CASE InitializeVersionForwarding
    BY <1>2 DEF InitializeVersionForwarding
<1>3. CASE PinProxyModule
    BY <1>3 DEF PinProxyModule
<1>4. CASE CreateWorker
    <2>1. pc = "none"
        BY <1>4, NoWorkerYet DEF CreateWorker
    <2>. QED
        BY <1>4, <2>1 DEF CreateWorker
<1>5. CASE FreeLibrary
    BY <1>5 DEF FreeLibrary
<1>. QED
    BY <1>1, <1>2, <1>3, <1>4, <1>5 DEF Loader

\* An attempt to attach that fails leaves nothing behind.
LEMMA Attach ==
    ASSUME LoaderInv, loader \in {"forward", "pin", "thread"}, AttachFails
    PROVE  LoaderInv' /\ pinned' = FALSE
BY LifecycleAssumption DEF LoaderInv, AttachFails

\* The loader's own state.
LEMMA LoaderStep ==
    ASSUME IInv, Loader
    PROVE  LoaderInv' /\ (pinned' = pinned \/ pinned' = TRUE \/ pinned' = FALSE)
<1> USE LifecycleAssumption DEF IInv, LoaderInv
<1>1. CASE LoadLibrary
    BY <1>1 DEF LoadLibrary
<1>2. CASE InitializeVersionForwarding
    <2>1. CASE AttachFails
        BY <1>2, <2>1, Attach DEF InitializeVersionForwarding
    <2>2. CASE ~AttachFails
        BY <1>2, <2>2 DEF InitializeVersionForwarding
    <2>. QED
        BY <2>1, <2>2
<1>3. CASE PinProxyModule
    <2>1. CASE AttachFails
        BY <1>3, <2>1, Attach DEF PinProxyModule
    <2>2. CASE ~AttachFails
        BY <1>3, <2>2 DEF PinProxyModule
    <2>. QED
        BY <2>1, <2>2
<1>4. CASE CreateWorker
    <2>1. CASE AttachFails
        BY <1>4, <2>1, Attach DEF CreateWorker
    <2>2. CASE ~AttachFails
        <3>1. pinned' /\ pinned' = pinned
            BY <1>4, <2>2, NoWorkerYet DEF CreateWorker
        <3>. QED
            BY <1>4, <2>2, <3>1 DEF CreateWorker
    <2>. QED
        BY <2>1, <2>2
<1>5. CASE FreeLibrary
    BY <1>5 DEF FreeLibrary
<1>. QED
    BY <1>1, <1>2, <1>3, <1>4, <1>5 DEF Loader

\* The worker touches nothing of the loader, and its types stay.
LEMMA WorkerTypes ==
    ASSUME OtherTypes, Worker
    PROVE  /\ UNCHANGED <<loaderVars, kgplayer>>
           /\ pc # "none" /\ pc' # "none"
           /\ OtherTypes'
<1> USE LifecycleAssumption DEF OtherTypes, loaderVars, bridgeVars, Works, Fails
<1>1. CASE TakeRole
    BY <1>1 DEF TakeRole, Step, Return
<1>2. CASE WaitForPlaybackModule
    BY <1>2 DEF WaitForPlaybackModule
<1>3. CASE InitApartment
    BY <1>3 DEF InitApartment, Step, Return
<1>4. CASE OpenSharedMetadata
    BY <1>4 DEF OpenSharedMetadata, Step, Return
<1>5. CASE CreateBridgeWindow
    BY <1>5 DEF CreateBridgeWindow, Return
<1>6. CASE GetForWindow
    BY <1>6 DEF GetForWindow, SmtcCall, Return
<1>7. CASE Enable
    BY <1>7 DEF Enable, SmtcCall, Return
<1>8. CASE StatusStopped
    BY <1>8 DEF StatusStopped, SmtcCall, Return
<1>16. CASE EnableButtons
    BY <1>16 DEF EnableButtons, SmtcCall, Return
<1>9. CASE RegisterHandler
    BY <1>9 DEF RegisterHandler, SmtcCall, Return
<1>10. CASE FirstPoll
    BY <1>10 DEF FirstPoll
<1>11. CASE DispatchMessage
    BY <1>11 DEF DispatchMessage, Return
<1>12. CASE UnregisterHandler
    BY <1>12 DEF UnregisterHandler, CloseCall
<1>13. CASE StatusClosed
    BY <1>13 DEF StatusClosed, CloseCall
<1>14. CASE Disable
    BY <1>14 DEF Disable, CloseCall
<1>15. CASE DestroyMembers
    BY <1>15 DEF DestroyMembers
<1>. QED
    BY <1>1, <1>2, <1>3, <1>4, <1>5, <1>6, <1>7, <1>8, <1>9,
       <1>10, <1>11, <1>12, <1>13, <1>14, <1>15, <1>16 DEF Worker

\* Each step of the worker keeps the session and the place together.
LEMMA WorkerSession ==
    ASSUME SessionInv, Worker
    PROVE  SessionInv'
<1> USE DEF SessionInv, Starting, Closing, bridgeVars
<1>1. CASE TakeRole
    BY <1>1 DEF TakeRole, Step, Return
<1>2. CASE WaitForPlaybackModule
    BY <1>2 DEF WaitForPlaybackModule
<1>3. CASE InitApartment
    BY <1>3 DEF InitApartment, Step, Return
<1>4. CASE OpenSharedMetadata
    BY <1>4 DEF OpenSharedMetadata, Step, Return
<1>5. CASE CreateBridgeWindow
    BY <1>5 DEF CreateBridgeWindow, Return
<1>6. CASE GetForWindow
    BY <1>6 DEF GetForWindow, SmtcCall, Return
<1>7. CASE Enable
    BY <1>7 DEF Enable, SmtcCall, Return
<1>8. CASE StatusStopped
    BY <1>8 DEF StatusStopped, SmtcCall, Return
<1>16. CASE EnableButtons
    BY <1>16 DEF EnableButtons, SmtcCall, Return
<1>9. CASE RegisterHandler
    BY <1>9 DEF RegisterHandler, SmtcCall, Return
<1>10. CASE FirstPoll
    BY <1>10 DEF FirstPoll
<1>11. CASE DispatchMessage
    BY <1>11 DEF DispatchMessage, Return
<1>12. CASE UnregisterHandler
    BY <1>12 DEF UnregisterHandler, CloseCall
<1>13. CASE StatusClosed
    BY <1>13 DEF StatusClosed, CloseCall
<1>14. CASE Disable
    BY <1>14 DEF Disable, CloseCall
<1>15. CASE DestroyMembers
    BY <1>15 DEF DestroyMembers
<1>. QED
    BY <1>1, <1>2, <1>3, <1>4, <1>5, <1>6, <1>7, <1>8, <1>9,
       <1>10, <1>11, <1>12, <1>13, <1>14, <1>15, <1>16 DEF Worker

\* The worker's flags.
LEMMA WorkerFlags ==
    ASSUME Flags, Worker
    PROVE  registered' \in BOOLEAN /\ closeFailed' \in BOOLEAN
<1> USE DEF Flags, bridgeVars
<1>1. CASE TakeRole
    BY <1>1 DEF TakeRole, Step, Return
<1>2. CASE WaitForPlaybackModule
    BY <1>2 DEF WaitForPlaybackModule
<1>3. CASE InitApartment
    BY <1>3 DEF InitApartment, Step, Return
<1>4. CASE OpenSharedMetadata
    BY <1>4 DEF OpenSharedMetadata, Step, Return
<1>5. CASE CreateBridgeWindow
    BY <1>5 DEF CreateBridgeWindow, Return
<1>6. CASE GetForWindow
    BY <1>6 DEF GetForWindow, SmtcCall, Return
<1>7. CASE Enable
    BY <1>7 DEF Enable, SmtcCall, Return
<1>8. CASE StatusStopped
    BY <1>8 DEF StatusStopped, SmtcCall, Return
<1>16. CASE EnableButtons
    BY <1>16 DEF EnableButtons, SmtcCall, Return
<1>9. CASE RegisterHandler
    BY <1>9 DEF RegisterHandler, SmtcCall, Return
<1>10. CASE FirstPoll
    BY <1>10 DEF FirstPoll
<1>11. CASE DispatchMessage
    BY <1>11 DEF DispatchMessage, Return
<1>12. CASE UnregisterHandler
    BY <1>12 DEF UnregisterHandler, CloseCall
<1>13. CASE StatusClosed
    BY <1>13 DEF StatusClosed, CloseCall
<1>14. CASE Disable
    BY <1>14 DEF Disable, CloseCall
<1>15. CASE DestroyMembers
    BY <1>15 DEF DestroyMembers
<1>. QED
    BY <1>1, <1>2, <1>3, <1>4, <1>5, <1>6, <1>7, <1>8, <1>9,
       <1>10, <1>11, <1>12, <1>13, <1>14, <1>15, <1>16 DEF Worker

\* Every step keeps the invariant.
LEMMA Inductive == IInv /\ [Next]_vars => IInv'
<1> SUFFICES ASSUME IInv, [Next]_vars PROVE IInv'
    OBVIOUS
<1>1. CASE Loader
    <2>1. LoaderInv'
        BY <1>1, LoaderStep
    <2>2. SessionInv'
        BY <1>1, LoaderFrame DEF IInv, SessionInv, bridgeVars, Starting
    <2>3. OtherTypes'
        BY <1>1, LoaderFrame DEF IInv, OtherTypes, bridgeVars
    <2>4. Flags'
        BY <1>1, LoaderFrame, LoaderStep DEF IInv, Flags, bridgeVars
    <2>. QED
        BY <2>1, <2>2, <2>3, <2>4 DEF IInv
<1>2. CASE Worker
    <2>1. LoaderInv'
        BY <1>2, WorkerTypes DEF IInv, LoaderInv, loaderVars
    <2>2. Flags'
        BY <1>2, WorkerFlags, WorkerTypes DEF IInv, Flags, loaderVars
    <2>. QED
        BY <1>2, <2>1, <2>2, WorkerTypes, WorkerSession DEF IInv
<1>3. CASE LoadPlayer
    BY <1>3 DEF LoadPlayer, loaderVars, bridgeVars, IInv, LoaderInv, SessionInv,
                OtherTypes, Flags
<1>4. CASE SendClose
    BY <1>4 DEF SendClose, loaderVars, IInv, LoaderInv, SessionInv, OtherTypes, Flags
<1>5. CASE UNCHANGED vars
    BY <1>5 DEF vars, loaderVars, bridgeVars, IInv, LoaderInv, SessionInv, OtherTypes,
                Flags
<1>. QED
    BY <1>1, <1>2, <1>3, <1>4, <1>5 DEF Next

\* The invariant holds throughout.
LEMMA Invariant == Spec => []IInv
BY InitInv, Inductive, PTL DEF Spec

-----------------------------------------------------------------------------

\* The counters stay within their bounds, the number of targets within the
\* table of exports.
THEOREM LifecycleTypes == Spec => []TypeOK
<1>1. IInv => TypeOK
    BY LifecycleAssumption
       DEF IInv, LoaderInv, SessionInv, OtherTypes, Flags, TypeOK
<1>. QED
    BY <1>1, Invariant, PTL

\* For any number of loads, frees and failures: the code stays in the process
\* while the worker runs, and whoever can call an export finds all forwarded.
THEOREM CodeAndExportsStay == Spec => []PluginStaysWhole
<1>1. IInv => PluginStaysWhole
    BY DEF IInv, LoaderInv, PluginStaysWhole, CodeStaysLoaded, ExportsForwarded
<1>. QED
    BY <1>1, Invariant, PTL

\* Whichever call failed before: unless one of the destructor fails, a worker
\* that has ended leaves no session enabled and no handler registered.
THEOREM BridgeIsClosed == Spec => []ClosedAfterEnd
<1>1. IInv => ClosedAfterEnd
    BY DEF IInv, SessionInv, ClosedAfterEnd
<1>. QED
    BY <1>1, Invariant, PTL

=============================================================================
