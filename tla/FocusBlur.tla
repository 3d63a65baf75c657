------------------------------ MODULE FocusBlur ------------------------------
(***************************************************************************)
(* Focus in a document (client/sandbox/event/focus-blur.ts, element-       *)
(* editing-watcher.ts).  In a window in the background the browser moves   *)
(* the focus without an event.  So whoever calls focus or blur, the native *)
(* method is called with a flag on its element, by which the events that   *)
(* it raises are cancelled, and the events are simulated.  The text that   *)
(* the test runner types is compared when an element loses the focus.      *)
(*                                                                         *)
(* Everything is a nest of calls: each operator returns the state in which *)
(* its callback is called.  A handler of the page may call once more.      *)
(* The browser is Chrome.                                                  *)
(***************************************************************************)
EXTENDS Naturals, Sequences, FiniteSets

CONSTANTS MaxCalls,   \* from outside of the handlers
          MaxRuns     \* of the handler

\* a text input and one that may be disabled, a text area, a div with a tabindex around one
\* without, and a label of the input
Elements == {"body", "input", "off", "area", "outer", "inner", "label"}
Editable == {"input", "off", "area"}
None     == "none"
Values   == {0, 1}

VARIABLES
    inFront,   \* the window is the one of the user
    page,      \* the document, see State
    calls,     \* the number of calls
    due,       \* history: what the page should have got in the last call
    odd        \* history: something happened after which the page is told wrongly

vars == <<inFront, page, calls, due, odd>>

Events     == {"focus", "blur", "focusin", "focusout", "change"}
NotWatched == [value |-> 2, since |-> 0]

(* What the handler of the page, if it has one, does at an event. *)
NoHandler == [type |-> None, el |-> None, method |-> None, arg |-> None, runs |-> 0]
Handlers  == [type : {"focus", "blur", "change"}, el : {"input", "area"}, method : {"focus", "blur"},
              arg : {"body", "input", "area", "outer"}, runs : 0..MaxRuns]

(* flags are the internal event flags, marked is _lastFocusedElement, with the attribute of   *)
(* :focus, heard the last target of focus while a blur listens.  watched is the flag and the  *)
(* previous value of the watcher, with the moment when its listeners were added; told is the  *)
(* value that the page knows.  log holds the events that the page has got in this call.       *)
State == [
    active   : Elements,       \* document.activeElement
    disabled : BOOLEAN,        \* of "off"
    flags    : SUBSET ({"focus", "blur"} \X Elements),
    marked   : Elements \cup {None},
    heard    : Elements \cup {None},
    value    : [Editable -> Values],
    watched  : [Editable -> [value : Values \cup {2}, since : Nat]],
    told     : [Editable -> Values],
    log      : Seq(Events \X Elements),
    handler  : Handlers \cup {NoHandler}]

TypeOK == inFront \in BOOLEAN /\ page \in State /\ calls \in 0..MaxCalls

Page(handler) ==
    [active |-> "body", disabled |-> TRUE, flags |-> {}, marked |-> None, heard |-> None,
     value |-> [e \in Editable |-> 0], watched |-> [e \in Editable |-> NotWatched],
     told |-> [e \in Editable |-> 0], log |-> <<>>, handler |-> handler]

Init ==
    /\ inFront \in BOOLEAN
    /\ \E h \in Handlers \cup {NoHandler} : h.runs = 0 /\ page = Page(h)
    /\ calls = 0
    /\ due = {} /\ odd = FALSE

Disabled(st, el)  == el = "off" /\ st.disabled
Focusable(st, el) == el \in {"body", "input", "area", "outer"} \/ (el = "off" /\ ~st.disabled)

(* The state after a call, a record of the method and its arguments. *)
RECURSIVE Run(_, _)

Options(silent, forMouse, moved) == [silent |-> silent, forMouse |-> forMouse, moved |-> moved]

DispatchCall(type, el, simulated) ==
    [method |-> "dispatch", type |-> type, el |-> el, simulated |-> simulated]
RaiseCall(el, type, opts) == [method |-> "raise", el |-> el, type |-> type, opts |-> opts]
FocusCall(el, silent, forMouse) ==
    [method |-> "focus", el |-> el, silent |-> silent, forMouse |-> forMouse]
BlurCall(el) == [method |-> "blur", el |-> el]

-----------------------------------------------------------------------------
(* The watcher of an element that is edited *)

StopWatching(st, el) == IF el \in Editable THEN [st EXCEPT !.watched[el] = NotWatched] ELSE st
Watched(st, el)      == el \in Editable /\ st.watched[el] # NotWatched

WatchElementEditing(st, el) ==
    IF el \notin Editable \/ Watched(st, el) THEN st
    ELSE [st EXCEPT !.watched[el] = [value |-> st.value[el], since |-> Len(st.log)]]

(* Mutated form: the value that was told stays the one to compare with. *)
KeepsPreviousValue(st, el) == st
RestartWatchingElementEditing(st, el) ==
    IF Watched(st, el) THEN [st EXCEPT !.watched[el].value = st.value[el]] ELSE st

IsChanged(st, el) == Watched(st, el) /\ st.value[el] # st.watched[el].value
ProcessElementChanging(st, el) ==
    IF ~IsChanged(st, el) THEN st
    ELSE RestartWatchingElementEditing(Run(st, DispatchCall("change", el, TRUE)), el)

(* The listeners of the watcher, after those of the page.  They run if they were there when  *)
(* the event was dispatched.                                                                 *)
OnBlur(st, el) ==
    IF IsChanged(st, el) THEN ProcessElementChanging(st, el) ELSE StopWatching(st, el)
Listens(before, st, type, el) ==
    type \in {"blur", "change"} /\ Watched(before, el) /\ Watched(st, el)
        /\ st.watched[el].since = before.watched[el].since

-----------------------------------------------------------------------------
(* Events *)

NonBubbling(type) == CASE type = "focusin" -> "focus" [] type = "focusout" -> "blur" [] OTHER -> type
Bubbling(type)    == IF type = "focus" THEN "focusin" ELSE "focusout"

(* Internal listeners of the window: _onChangeActiveElement and those of blurs. *)
Marked(st) == IF st.active # "body" /\ Focusable(st, st.active) THEN st.active ELSE None
HeardInWindow(st, type, el) ==
    LET marked == IF type \in {"focus", "blur"} THEN [st EXCEPT !.marked = Marked(st)] ELSE st
    IN IF type = "focus" THEN [marked EXCEPT !.heard = el] ELSE marked

(* Mutated form: only the event that does not bubble is cancelled. *)
IsFlagged(st, type, el)   == <<type, el>> \in st.flags
IsCancelled(st, type, el) == <<NonBubbling(type), el>> \in st.flags

(* What the page does at an event. *)
Handled(st, type, el) ==
    LET h   == st.handler
        got == [st EXCEPT !.log = Append(@, <<type, el>>),
                          !.told = IF type = "change" THEN [@ EXCEPT ![el] = st.value[el]] ELSE @]
        ran == [got EXCEPT !.handler.runs = @ + 1]
    IN IF h.type # type \/ h.el # el \/ h.runs = MaxRuns THEN got
       ELSE Run(ran, IF h.method = "focus" THEN FocusCall(h.arg, FALSE, FALSE) ELSE BlurCall(h.arg))

Dispatch(st, type, el, simulated) ==
    IF ~simulated /\ IsCancelled(st, type, el) THEN st
    ELSE LET after == Handled(HeardInWindow(st, type, el), type, el)
         IN CASE ~Listens(st, after, type, el) -> after
              [] type = "blur"                 -> OnBlur(after, el)
              [] OTHER                         -> StopWatching(after, el)

DispatchBoth(st, type, el, simulated) ==
    Run(Run(st, DispatchCall(type, el, simulated)), DispatchCall(Bubbling(type), el, simulated))

(* Silently, the focus is heard by the window and nobody else. *)
SimulateEvent(st, el, type, silent) ==
    LET cleared == [st EXCEPT !.flags = @ \ {<<type, el>>}]
    IN CASE ~silent        -> DispatchBoth(cleared, type, el, TRUE)
         [] type = "focus" -> HeardInWindow(cleared, type, el)
         [] OTHER          -> cleared

-----------------------------------------------------------------------------
(* The browser *)

NativeEvent(st, type, el) ==
    IF inFront THEN DispatchBoth(st, type, el, FALSE) ELSE st

NativeBlur(st, el) ==
    IF st.active # el \/ el = "body" THEN st
    ELSE NativeEvent([st EXCEPT !.active = "body"], "blur", el)

(* A handler of blur may move the focus; it then stays where that has put it. *)
NativeFocus(st, el) ==
    IF st.active = el \/ el = "body" \/ ~Focusable(st, el) THEN st
    ELSE LET blurred == NativeBlur(st, st.active)
         IN IF blurred.active # "body" THEN blurred
            ELSE NativeEvent([blurred EXCEPT !.active = el], "focus", el)

-----------------------------------------------------------------------------
(* The sandbox *)

(* An element that did not get the focus passes it on to its parent, for a click; and a blur *)
(* gives it to the body.  Nothing is simulated of a disabled one, which keeps its flag.      *)
RestoreScrollStateAndRaiseEvent(st, el, type, opts) ==
    CASE type = "focus" /\ st.active # el /\ el = "inner" /\ opts.forMouse ->
             SimulateEvent(Run(st, RaiseCall("outer", "focus", [opts EXCEPT !.silent = FALSE])),
                           el, type, opts.silent)
      [] type = "blur" /\ st.active = el /\ el # "body" ->
             SimulateEvent(Run(st, RaiseCall("body", "focus", Options(TRUE, FALSE, FALSE))),
                           el, type, opts.silent)
      [] ~Disabled(st, el) -> SimulateEvent(st, el, type, opts.silent)
      [] OTHER -> st

(* The events that the native method raises are cancelled by the flag. *)
RaiseEvent(st, el, type, opts) ==
    LET target  == IF el = "label" /\ type = "focus" THEN "input" ELSE el
        flagged == [st EXCEPT !.flags = @ \cup {<<type, target>>}]
        native  == CASE opts.moved     -> flagged
                     [] type = "focus" -> NativeFocus(flagged, target)
                     [] OTHER          -> NativeBlur(flagged, target)
    IN RestoreScrollStateAndRaiseEvent(native, target, type, opts)

(* A handler of change that focuses the element again keeps the focus there.  *)
Blur(st, el, withoutHandlers) ==
    LET silent  == withoutHandlers \/ st.active # el
        changed == ProcessElementChanging([st EXCEPT !.heard = None], el)
        moved   == ~silent /\ changed.heard = el
        stopped == [StopWatching(changed, el) EXCEPT !.heard = IF @ = None THEN st.heard ELSE @]
    IN [page |-> Run(IF silent THEN st ELSE stopped,
                     RaiseCall(el, "blur", Options(silent, FALSE, moved))),
        moved |-> moved]

(* Mutated form: the element that has the focus is not blurred. *)
NeverBlur(st, el) == FALSE
NeedBlur(st, el)  == st.active \notin {el, "body"} /\ Focusable(st, el)

Focus(st, el, silent, forMouse) ==
    LET withoutHandlers == silent \/ st.active = el \/ el = "body"
        raised(s) ==
            LET focused == Run(s, RaiseCall(el, "focus", Options(withoutHandlers, forMouse, FALSE)))
            IN IF silent THEN focused ELSE WatchElementEditing(focused, el)
        blurred == Blur(st, st.active, silent)
    IN CASE ~NeedBlur(st, el) -> raised(st)
         [] blurred.moved     -> blurred.page
         [] OTHER             -> raised(blurred.page)

Run(st, call) ==
    CASE call.method = "dispatch" -> Dispatch(st, call.type, call.el, call.simulated)
      [] call.method = "raise"    -> RaiseEvent(st, call.el, call.type, call.opts)
      [] call.method = "focus"    -> Focus(st, call.el, call.silent, call.forMouse)
      [] call.method = "blur"     -> Blur(st, call.el, FALSE).page

-----------------------------------------------------------------------------
(* Calls *)

(* What the page gets of a call in a browser whose window is in front. *)
Told(st) ==
    IF st.active \in Editable /\ st.told[st.active] # st.value[st.active]
    THEN <<<<"change", st.active>>>> ELSE <<>>
Lost(st) ==
    IF st.active = "body" THEN <<>>
    ELSE Told(st) \o <<<<"blur", st.active>>, <<"focusout", st.active>>>>
LostByItself(st) ==
    IF st.active = "body" THEN <<>>
    ELSE <<<<"blur", st.active>>>> \o Told(st) \o <<<<"focusout", st.active>>>>
Got(el) == IF el = "body" THEN <<>> ELSE <<<<"focus", el>>, <<"focusin", el>>>>

(* Nothing is said of elements that cannot be focused, nor when the body is blurred. *)
Due(type, el) ==
    CASE ~Focusable(page, el) \/ (type = "blur" /\ el = "body") -> {}
      [] type \in {"focus", "click"} /\ page.active # el -> {Lost(page) \o Got(el)}
      [] type = "native" /\ page.active # el -> {LostByItself(page) \o Got(el)}
      [] type = "blur" /\ page.active = el -> {Lost(page)}
      [] OTHER -> {<<>>}

(* Before a call nothing has happened in it, and no watcher is younger than another. *)
Fresh(st) == [st EXCEPT !.log = <<>>, !.heard = None, !.handler.runs = 0,
                        !.watched = [e \in Editable |-> [st.watched[e] EXCEPT !.since = 0]]]

(* A call after which the page is told wrongly: a script writes the value of an input that is *)
(* watched; a disabled element keeps its flag; the focus is taken from an element without     *)
(* blurring it, or silently.                                                                  *)
IsOdd(type, el) ==
    \/ type = "write" /\ el # "area" /\ Watched(page, el)
    \/ type \in {"focus", "click", "silent", "blur"} /\ Disabled(page, el)
    \/ type \in {"focus", "click"} /\ ~Focusable(page, el) /\ page.active # "body"
    \/ type = "silent" /\ page.active # el

Call(type, el, after) ==
    /\ ~odd /\ calls < MaxCalls /\ calls' = calls + 1
    /\ page' = [after EXCEPT !.heard = None]
    /\ due' = Due(type, el)
    /\ odd' = IsOdd(type, el)
    /\ UNCHANGED inFront

(* By the page or by the test runner. *)
CallFocus(el) == Call("focus", el, Run(Fresh(page), FocusCall(el, FALSE, FALSE)))
CallBlur(el)  == Call("blur", el, Run(Fresh(page), BlurCall(el)))

(* By the test runner, for a click, and for an element that only has to be active. *)
ClickFocus(el)  == Call("click", el, Run(Fresh(page), FocusCall(el, FALSE, TRUE)))
SilentFocus(el) == Call("silent", el, Run(Fresh(page), FocusCall(el, TRUE, FALSE)))

(* By the user or the browser itself. *)
BrowserFocus(el) == inFront /\ el # "body" /\ Call("native", el, NativeFocus(Fresh(page), el))

(* The test runner types, into an element that was focused for it. *)
Type(el) ==
    /\ page.active = el /\ Watched(page, el)
    /\ Call("type", el, [Fresh(page) EXCEPT !.value[el] = 1 - @])

(* A script writes the value; of an input it is compared when it has been written. *)
WriteValue(el) ==
    LET written == [Fresh(page) EXCEPT !.value[el] = 1 - @, !.told[el] = 1 - page.value[el]]
    IN /\ el \in Editable
       /\ Call("write", el,
               IF el = "area" THEN RestartWatchingElementEditing(written, el) ELSE written)

SetDisabled == page.active # "off" /\ Call("disabled", "off", [Fresh(page) EXCEPT !.disabled = ~@])

Next ==
    \/ \E el \in Elements : \/ CallFocus(el) \/ CallBlur(el) \/ ClickFocus(el) \/ SilentFocus(el)
                            \/ BrowserFocus(el) \/ Type(el) \/ WriteValue(el)
    \/ SetDisabled

Spec == Init /\ [][Next]_vars

-----------------------------------------------------------------------------
(* Properties *)

(* Of a call in which no handler has called again, the page gets the events that a browser in *)
(* front would raise, each once and in their order, wherever its window is: those of the      *)
(* native calls are cancelled and those that are simulated are not (focus-blur.ts:164-220,    *)
(* event/index.ts:139-152).                                                                    *)
EventsAreComplete == page.handler.runs = 0 /\ due # {} => page.log \in due

(* Whatever the handlers do, no call leaves a flag, which would swallow the next event of its *)
(* element, and the attribute of :focus is on the active element and on no other.             *)
NothingIsLeft == page.flags = {} /\ page.marked = Marked(page)

(* What was typed into an element has been told to the page by a change event when the        *)
(* element is not active (element-editing-watcher.ts:51-78).                                   *)
TypedIsTold == \A el \in Editable : page.active # el => page.told[el] = page.value[el]

(* The three, until something happens that IsOdd names. *)
FocusIsTold == ~odd => EventsAreComplete /\ NothingIsLeft /\ TypedIsTold
=============================================================================
