------------------------------- MODULE MCClient -------------------------------
(***************************************************************************)
(* Finite instances of components of the client that share no state.  A    *)
(* behaviour is one of one of them, the others stay as they are.           *)
(***************************************************************************)
EXTENDS Storages

CONSTANTS w1, w2, w3

ThreeWindows == <<w1, w2, w3>>

VARIABLES part,
    element, written, misread,       \* ElementAttributes
    program, changes, passed,        \* Scripts
    nodes, name, tracker, list, untold, answer,         \* LiveNodeList
    chrome, body, own, marked, inPage, made, loaded, timer,  \* ShadowUI
    listeners, outerHandlers, internalBeforeHandlers, internalAfterHandlers,
    cancelOuterHandlers, firing, theirs, ignored,       \* EventListeners
    mode, items, indexes, dragTheirs, threw, dragOdd, dragCalls,  \* DragData
    inFront, page, due, focusOdd, focusCalls            \* FocusBlur

E == INSTANCE ElementAttributes
        WITH Depths <- 0..2, Owners <- {{"no form"}, {"form"}, {"form", "iframe"}}

P == INSTANCE ScriptSamples
J == INSTANCE Scripts WITH Programs <- P!SampleScripts
L == INSTANCE LiveNodeList
        WITH Elements <- {"e1", "e2"}, UIElements <- {"ui"}, Names <- {"n"}, MaxVersion <- 2

U == INSTANCE ShadowUI WITH Elements <- {"e1", "e2"}, Texts <- {"text"}
V == INSTANCE EventListeners
        WITH Functions <- {"f"}, Handlers <- {"h"}, MaxListeners <- 2, MaxDepth <- 2
D == INSTANCE DragData
        WITH theirs <- dragTheirs, odd <- dragOdd, calls <- dragCalls, MaxCalls <- 4
F == INSTANCE FocusBlur WITH odd <- focusOdd, calls <- focusCalls, MaxCalls <- 3, MaxRuns <- 2

storages == vars
elements == <<element, written, misread>>
scripts  == <<program, changes, passed>>
lists    == <<nodes, name, tracker, list, untold, answer>>
ui       == <<chrome, body, own, marked, inPage, made, loaded, timer>>
events   == <<listeners, outerHandlers, internalBeforeHandlers, internalAfterHandlers,
              cancelOuterHandlers, firing, theirs, ignored>>
drag     == <<mode, items, indexes, dragTheirs, threw, dragOdd, dragCalls>>
focus    == <<inFront, page, due, focusOdd, focusCalls>>
client   == <<part, storages, elements, scripts, lists, ui, events, drag, focus>>

ClientInit ==
    /\ part \in {"storages", "element", "scripts", "list", "ui", "events", "drag", "focus"}
    /\ Init
    /\ IF part = "element" THEN E!Init
       ELSE element = E!Fresh("a", 0, E!NoForm) /\ written = element.native /\ misread = {}
    /\ IF part = "scripts" THEN J!Init
       ELSE program = P!A /\ changes = <<>> /\ passed = FALSE
    /\ IF part = "list" THEN L!Init
       ELSE nodes = <<>> /\ name = "" /\ tracker = 0 /\ list = 0 /\ untold = FALSE /\ answer = L!NoAnswer
    /\ IF part = "ui" THEN U!Init
       ELSE /\ chrome = TRUE /\ body = <<>> /\ own = <<>> /\ marked = TRUE /\ inPage = TRUE
            /\ made = FALSE /\ loaded = FALSE /\ timer = FALSE
    /\ V!Init
    /\ D!Init
    /\ IF part = "focus" THEN F!Init
       ELSE /\ inFront = TRUE /\ page = F!Page(F!NoHandler)
            /\ due = {} /\ focusOdd = FALSE /\ focusCalls = 0

ClientNext ==
    /\ UNCHANGED part
    /\ \/ part = "storages" /\ Next
            /\ UNCHANGED <<elements, scripts, lists, ui, events, drag, focus>>
       \/ part = "element" /\ E!Next
            /\ UNCHANGED <<storages, scripts, lists, ui, events, drag, focus>>
       \/ part = "scripts" /\ J!Next
            /\ UNCHANGED <<storages, elements, lists, ui, events, drag, focus>>
       \/ part = "list" /\ L!Next
            /\ UNCHANGED <<storages, elements, scripts, ui, events, drag, focus>>
       \/ part = "ui" /\ U!Next
            /\ UNCHANGED <<storages, elements, scripts, lists, events, drag, focus>>
       \/ part = "events" /\ V!Next
            /\ UNCHANGED <<storages, elements, scripts, lists, ui, drag, focus>>
       \/ part = "drag" /\ D!Next
            /\ UNCHANGED <<storages, elements, scripts, lists, ui, events, focus>>
       \/ part = "focus" /\ F!Next
            /\ UNCHANGED <<storages, elements, scripts, lists, ui, events, drag>>

ClientSpec == ClientInit /\ [][ClientNext]_client

(* The variables of every component have their types. *)
ClientTypeOK ==
    /\ part = "storages" => TypeOK
    /\ part = "element" => E!TypeOK
    /\ part = "scripts" => J!TypeOK
    /\ part = "list" => L!TypeOK
    /\ part = "ui" => U!TypeOK
    /\ part = "events" => V!TypeOK
    /\ part = "drag" => D!TypeOK
    /\ part = "focus" => F!TypeOK

(* The page sees no proxy: it reads the attributes that it wrote, its scripts do what they    *)
(* did before they were processed, in the same order, in collections and among the children  *)
(* of its body are its elements and not those of the shadow UI, its listeners are called as  *)
(* they would be, before the sandbox reports an event, a drag carries the data that it was   *)
(* given, and it is told of focus and of what was typed as in a window in front.             *)
PageSeesNoProxy ==
    /\ part = "element" => E!ReadsWhatItWrote
    /\ part = "scripts" => J!ScriptsDoTheSame
    /\ part = "list" => L!CollectionIsLive
    /\ part = "ui" => U!PageSeesItsOwn
    /\ part = "events" => V!ListenersAreCalled /\ V!ReportComesLast
    /\ part = "drag" => D!DragCarriesItsData
    /\ part = "focus" => F!FocusIsTold

(* What the page makes the browser load goes through the proxy, with a URL that says how it  *)
(* is used when it is used, and so does every sensitive access of its scripts.               *)
NothingBypassesTheProxy ==
    /\ part = "element" => E!NothingBypassesTheProxy /\ E!UrlFitsItsUse
    /\ part = "scripts" => J!ScriptsAreInstrumented
===============================================================================
