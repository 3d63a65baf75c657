---------------------------- MODULE ActiveWindow ----------------------------
(***************************************************************************)
(* The windows of one page agree on which of them is active.  Every window *)
(* runs its own ActiveWindowTracker (client/sandbox/event/                 *)
(* active-window-tracker.ts); the tracker of the top window also records   *)
(* the active window.  Trackers talk through service messages, which are   *)
(* delivered later (a timer or a native postMessage, message.ts), while    *)
(* FocusBlurSandbox.focus activates the window of the focused element.     *)
(***************************************************************************)
EXTENDS Naturals, FiniteSets

CONSTANTS
    Top,          \* the top window
    Iframes,      \* the windows of the iframes of the page
    MaxInFlight   \* bound on the messages under way between the top and one iframe

ASSUME TopAssumption == Top \notin Iframes
ASSUME BoundAssumption == MaxInFlight \in Nat

Windows == Iframes \cup {Top}

VARIABLES
    active,       \* _isActive of every window's tracker
    recorded,     \* _activeWindow of the top window's tracker
    toTop,        \* WINDOW_ACTIVATED messages on their way from an iframe
    fromTop,      \* WINDOW_DEACTIVATED messages on their way to an iframe
    present,      \* iframes that have not been removed from the document
    focused,      \* history: the window focused last, unless its document is gone (a set)
    misled        \* history: iframes that reloaded, or were activated twice at once

vars == <<active, recorded, toTop, fromTop, present, focused, misled>>

TypeOK ==
    /\ active \in [Windows -> BOOLEAN]
    /\ recorded \in Windows /\ focused \subseteq Windows
    /\ toTop \in [Iframes -> Nat] /\ fromTop \in [Iframes -> Nat]
    /\ present \subseteq Iframes /\ misled \subseteq Iframes

(* attach: only the tracker of the top window starts as active and records a window.  The  *)
(* first definition is a mutated form: the test for an iframe is inverted.                  *)
AttachedInverted == active = [w \in Windows |-> w # Top] /\ recorded = "null"
Attached == active = [w \in Windows |-> w = Top] /\ recorded = Top

Init ==
    /\ Attached
    /\ focused = {}
    /\ toTop = [f \in Iframes |-> 0] /\ fromTop = [f \in Iframes |-> 0]
    /\ present = Iframes /\ misled = {}

-----------------------------------------------------------------------------
(* Mutated form: the previous window is not told. *)
TellNobody == fromTop

(* _notifyPrevActiveWindow: a removed window has no top, the top window needs no message. *)
PrevActiveWindowNotified ==
    IF recorded \in present THEN [fromTop EXCEPT ![recorded] = @ + 1] ELSE fromTop

(* Mutated form: the sender is recorded before the previous window is told. *)
RecordBeforeNotify(f) == fromTop' = [fromTop EXCEPT ![f] = @ + 1] /\ recorded' = f

(* The handler of WINDOW_ACTIVATED in the top window, the sender being f.  It does not ask *)
(* whether the previous window is the sender itself.                                       *)
RecordActiveWindow(f) ==
    /\ fromTop' = PrevActiveWindowNotified
    /\ recorded' = f

(* The top window is active no more.  The first definition is a mutated form. *)
TopStaysActive == active
TopDeactivated == [active EXCEPT ![Top] = FALSE]

(* Mutated form: the tracker of an iframe forgets to tell the top window. *)
StayQuiet(f, times) == active' = [active EXCEPT ![f] = TRUE] /\ UNCHANGED toTop

(* makeCurrentWindowActive in an iframe, `times` times before anything is delivered. *)
MakeIframeActive(f, times) ==
    /\ active' = [active EXCEPT ![f] = TRUE]
    /\ toTop' = [toTop EXCEPT ![f] = @ + times]

Room(f, messages) == toTop[f] + fromTop[f] + messages <= MaxInFlight

(* focus: an element of the top window gets the focus; makeCurrentWindowActive runs unless *)
(* the window thinks it is active already.                                                 *)
FocusTop ==
    /\ focused' = {Top}
    /\ IF active[Top]
       THEN UNCHANGED <<active, recorded, fromTop>>
       ELSE /\ active' = [active EXCEPT ![Top] = TRUE]
            /\ fromTop' = PrevActiveWindowNotified
            /\ recorded' = Top
    /\ UNCHANGED <<toTop, present, misled>>

FocusIframe(f) ==
    /\ f \in present
    /\ focused' = {f}
    /\ IF active[f] THEN UNCHANGED <<active, toTop>>
                    ELSE Room(f, 1) /\ MakeIframeActive(f, 1)
    /\ UNCHANGED <<recorded, fromTop, present, misled>>

(* focus reads isCurrentWindowActive before it blurs the element that had the focus.  A    *)
(* blur handler that focuses another element of the iframe activates the window, and then  *)
(* the outer call activates it again with what it read before.                             *)
FocusFromBlurHandler(f) ==
    /\ f \in present
    /\ ~active[f] /\ Room(f, 2)
    /\ focused' = {f}
    /\ MakeIframeActive(f, 2)
    /\ misled' = misled \cup {f}
    /\ UNCHANGED <<recorded, fromTop, present>>

-----------------------------------------------------------------------------
(* Messages *)

(* The source may have been removed meanwhile: its timers run in the top window. *)
TopReceivesActivated(f) ==
    /\ toTop[f] > 0
    /\ toTop' = [toTop EXCEPT ![f] = @ - 1]
    /\ RecordActiveWindow(f)
    /\ active' = TopDeactivated
    /\ UNCHANGED <<present, focused, misled>>

(* A native message of a window that is gone has no source and is ignored. *)
ActivatedWithoutSource(f) ==
    /\ toTop[f] > 0 /\ f \notin present
    /\ toTop' = [toTop EXCEPT ![f] = @ - 1]
    /\ UNCHANGED <<active, recorded, fromTop, present, focused, misled>>

IframeReceivesDeactivated(f) ==
    /\ f \in present /\ fromTop[f] > 0
    /\ fromTop' = [fromTop EXCEPT ![f] = @ - 1]
    /\ active' = [active EXCEPT ![f] = FALSE]
    /\ UNCHANGED <<recorded, toTop, present, focused, misled>>

-----------------------------------------------------------------------------
(* The iframe goes away, or its document is replaced *)

RemoveIframe(f) ==
    /\ f \in present
    /\ present' = present \ {f}
    /\ fromTop' = [fromTop EXCEPT ![f] = 0]
    /\ focused' = focused \ {f}
    /\ UNCHANGED <<active, recorded, toTop, misled>>

(* unload with nothing queued; the new document starts with a tracker that is not active.  *)
(* Messages to the iframe reach the new document if its tracker is attached by then.       *)
ReloadIframe(f) ==
    /\ f \in present /\ toTop[f] = 0
    /\ active' = [active EXCEPT ![f] = FALSE]
    /\ \E kept \in {0, fromTop[f]} : fromTop' = [fromTop EXCEPT ![f] = kept]
    /\ misled' = misled \cup {f}
    /\ focused' = focused \ {f}
    /\ UNCHANGED <<recorded, toTop, present>>

Next ==
    \/ FocusTop
    \/ \E f \in Iframes :
        \/ FocusIframe(f) \/ FocusFromBlurHandler(f)
        \/ TopReceivesActivated(f) \/ ActivatedWithoutSource(f)
        \/ IframeReceivesDeactivated(f)
        \/ RemoveIframe(f) \/ ReloadIframe(f)

Spec == Init /\ [][Next]_vars

(* Timers and native messages are delivered in the end; nobody has to focus anything. *)
FairSpec ==
    /\ Spec
    /\ \A f \in Iframes : WF_vars(TopReceivesActivated(f)) /\ WF_vars(IframeReceivesDeactivated(f))

-----------------------------------------------------------------------------
(* Properties *)

Quiet(f) == toTop[f] = 0 /\ fromTop[f] = 0

(* The top window thinks it is active exactly when it records itself: the answers of       *)
(* isCurrentWindowActive and _activeWindow never contradict each other there.              *)
TopAgreesWithItself == active[Top] <=> recorded = Top

(* An iframe that thinks it is active is the one the top records, or a message that will    *)
(* settle it is under way, whatever is focused, removed or reloaded.                        *)
ActiveIsRecordedOrTold ==
    \A f \in present : active[f] => recorded = f \/ toTop[f] > 0 \/ fromTop[f] > 0

Agreement == TopAgreesWithItself /\ ActiveIsRecordedOrTold

(* What the page sees: once all messages have been delivered, at most one window answers    *)
(* TRUE to isCurrentWindowActive.                                                           *)
AtMostOneActive ==
    (\A f \in present : Quiet(f)) =>
        \A v, w \in present \cup {Top} : active[v] /\ active[w] => v = w

(* An iframe that was never reloaded and never activated itself twice at once goes through  *)
(* four phases only, so when nothing is under way it is active exactly if the top says so:  *)
(* the iframe that the top records is active then.                                          *)
Phases ==
    \A f \in present \ misled :
        \/ ~active[f] /\ Quiet(f) /\ recorded # f
        \/ active[f] /\ toTop[f] = 1 /\ fromTop[f] = 0 /\ recorded # f
        \/ active[f] /\ Quiet(f) /\ recorded = f
        \/ active[f] /\ toTop[f] = 0 /\ fromTop[f] = 1 /\ recorded # f

(* A window that thinks it is active although the top records another one is put right: it  *)
(* is recorded, deactivated or removed in the end.                                          *)
DisagreementEnds ==
    \A f \in Iframes :
        (f \in present /\ active[f] /\ recorded # f)
            ~> (f \notin present \/ ~active[f] \/ recorded = f)

=============================================================================
