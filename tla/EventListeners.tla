---------------------------- MODULE EventListeners ----------------------------
(***************************************************************************)
(* The listeners of one event of one target that the sandbox listens to    *)
(* (client/sandbox/event/listeners.ts and listening-context.ts), and the   *)
(* one that reports the unloading of a window (unload.ts).                 *)
(*                                                                         *)
(* The browser knows one list of listeners.  The first of them is the      *)
(* sandbox's own: it calls the internal handlers, which may stop the event *)
(* or cancel the handlers of the page.  A page listener is registered      *)
(* within a wrapper, which the sandbox remembers to find it again.  The    *)
(* handlers that are to come after those of the page are moved to the end  *)
(* of the list when the page registers another one.                        *)
(*                                                                         *)
(* An event calls the listeners of a phase that were there when the phase  *)
(* began and have not been removed since.  Listeners may add and remove    *)
(* listeners and dispatch the event again, up to MaxDepth events deep.     *)
(*                                                                         *)
(* "theirs" is the list that the browser would have without a proxy, "due" *)
(* what is left of it in an event.  A listener that was registered with    *)
(* "once" stays remembered after its call, and is ignored when the page    *)
(* registers it again: the model ends there ("ignored").                   *)
(***************************************************************************)
EXTENDS Naturals, Sequences, SequencesExt

CONSTANTS Functions,      \* the page's listeners
          Handlers,       \* the internal handlers
          MaxListeners,   \* bounds the listeners of the page
          MaxDepth        \* bounds the events under way

VARIABLES
    listeners,    \* the browser's listeners of this event
    outerHandlers,         \* those of the page that the sandbox remembers
    internalBeforeHandlers,
    internalAfterHandlers,
    cancelOuterHandlers,
    firing,       \* the events under way, the innermost last
    theirs,       \* the listeners as the page knows them
    ignored       \* the page registered one that the sandbox took for a duplicate

vars == <<listeners, outerHandlers, internalBeforeHandlers, internalAfterHandlers,
          cancelOuterHandlers, firing, theirs, ignored>>
context == <<outerHandlers, internalBeforeHandlers, internalAfterHandlers, cancelOuterHandlers>>

Listener(kind, fn, capture, once) ==
    [kind |-> kind, fn |-> fn, capture |-> capture, once |-> once]
Own     == Listener("own", "own", TRUE, FALSE)
Report  == Listener("report", "report", FALSE, FALSE)
After(h) == Listener("after", h, FALSE, FALSE)
OnEvent(fn) == Listener("page", fn, FALSE, FALSE)      \* set as onunload

SameListener(l, k) == l.kind = k.kind /\ l.fn = k.fn /\ l.capture = k.capture
Without(list, l) == SelectSeq(list, LAMBDA k : ~SameListener(k, l))
Knows(list, l) == \E i \in DOMAIN list : SameListener(list[i], l)
OfThePage(list) == SelectSeq(list, LAMBDA l : l.kind = "page")

(* The browser ignores a listener that it has, and skips a removed one in the events under way. *)
NativeAdd(list, l) == IF Knows(list, l) THEN list ELSE Append(list, l)
Forgotten(ls) ==
    [e \in DOMAIN firing |->
        [firing[e] EXCEPT !.todo = SelectSeq(@, LAMBDA k : \A i \in DOMAIN ls : ~SameListener(k, ls[i])),
                          !.due  = SelectSeq(@, LAMBDA k : \A i \in DOMAIN ls : ~SameListener(k, ls[i]))]]

(* A list after the given ones were taken out of it and added again. *)
MovedToEnd(list, ls) ==
    SelectSeq(list, LAMBDA k : \A i \in DOMAIN ls : ~SameListener(k, ls[i])) \o ls

OfPhase(list, phase) == SelectSeq(list, LAMBDA l : l.capture = (phase = "capture"))
Event == [phase |-> "capture", todo |-> OfPhase(listeners, "capture"), internals |-> <<>>,
          inPage |-> FALSE, due |-> OfPhase(theirs, "capture"),
          cancelled |-> FALSE, nested |-> FALSE, moved |-> FALSE, stopped |-> FALSE,
          reported |-> FALSE]

Init ==
    /\ listeners = <<Own, Report>>
    /\ outerHandlers = <<>> /\ internalBeforeHandlers = <<>> /\ internalAfterHandlers = <<>>
    /\ cancelOuterHandlers = FALSE
    /\ firing = <<>> /\ theirs = <<>> /\ ignored = FALSE

Current == Last(firing)
Step(event) == firing' = [firing EXCEPT ![Len(firing)] = event]
PageRuns == ~ignored /\ IF firing = <<>> THEN TRUE ELSE Current.inPage

(*** what the page does *****************************************************)

\* Mutant: a listener for the other phase is taken for a duplicate.
KnownInAnyPhase(l) == \A i \in DOMAIN outerHandlers : outerHandlers[i].fn # l.fn

IsDifferentHandler(l) == ~Knows(outerHandlers, l)

(* The handlers that follow those of the page, in the order in which they are added again. *)
Followers == [i \in DOMAIN internalAfterHandlers |-> After(internalAfterHandlers[i])] \o <<Report>>

(* The events under way do not call again what is removed and added. *)
WithoutFollowers(ls) ==
    IF firing = <<>> THEN firing
    ELSE [e \in DOMAIN firing |-> [Forgotten(ls)[e] EXCEPT !.moved = TRUE]]

AddEventListener(fn, capture, once) ==
    LET l == Listener("page", fn, capture, once)
    IN /\ PageRuns /\ Len(theirs) < MaxListeners
       /\ theirs' = NativeAdd(theirs, l)
       /\ UNCHANGED <<internalBeforeHandlers, internalAfterHandlers, cancelOuterHandlers>>
       /\ IF IsDifferentHandler(l)
          THEN /\ outerHandlers' = Append(outerHandlers, l)
               /\ listeners' = MovedToEnd(NativeAdd(listeners, l), Followers)
               /\ firing' = WithoutFollowers(Followers)
               /\ UNCHANGED ignored
          ELSE /\ ignored' = (Knows(outerHandlers, l) /\ ~Knows(listeners, l))
               /\ UNCHANGED <<listeners, outerHandlers, firing>>

(* The wrapper is looked up among the remembered listeners; without one nothing is removed. *)
RemoveEventListener(fn, capture) ==
    LET l == Listener("page", fn, capture, FALSE)
    IN /\ PageRuns
       /\ theirs' = Without(theirs, l)
       /\ IF Knows(outerHandlers, l)
          THEN /\ outerHandlers' = Without(outerHandlers, l)
               /\ listeners' = Without(listeners, l)
               /\ firing' = Forgotten(<<l>>)
          ELSE UNCHANGED <<outerHandlers, listeners, firing>>
       /\ UNCHANGED <<internalBeforeHandlers, internalAfterHandlers, cancelOuterHandlers, ignored>>

(* The browser's onunload holds its place while a handler replaces another. *)
SetOnEvent(fn) ==
    LET set  == SelectSeq(theirs, LAMBDA l : l.fn \in {"on1", "on2"})
        Replaced(list) ==
            IF set = <<>> THEN Append(list, OnEvent(fn))
            ELSE [i \in DOMAIN list |-> IF list[i].fn = set[1].fn THEN OnEvent(fn) ELSE list[i]]
    IN /\ PageRuns /\ Len(theirs) < MaxListeners
       /\ theirs' = Replaced(theirs)
       /\ listeners' = MovedToEnd(Replaced(listeners), <<Report>>)
       /\ firing' = [e \in DOMAIN firing |->
                        [WithoutFollowers(<<Report>>)[e] EXCEPT
                            !.todo = IF set = <<>> THEN @ ELSE Replaced(@),
                            !.due  = IF set = <<>> THEN @ ELSE Replaced(@)]]
       /\ UNCHANGED <<context, ignored>>

ResetOnEvent ==
    LET set == SelectSeq(theirs, LAMBDA l : l.fn \in {"on1", "on2"})
    IN /\ PageRuns /\ set # <<>>
       /\ theirs' = Without(theirs, set[1]) /\ listeners' = Without(listeners, set[1])
       /\ firing' = Forgotten(set)
       /\ UNCHANGED <<context, ignored>>

DispatchEvent ==
    /\ PageRuns /\ Len(firing) < MaxDepth
    /\ firing' = Append(firing, Event)
    /\ UNCHANGED <<listeners, context, theirs, ignored>>

(*** what the browser and the handlers do ***********************************)

(* The sandbox's own listener calls a copy of the list of internal handlers. *)
CallOwnListener ==
    /\ firing # <<>> /\ ~Current.inPage /\ Current.todo # <<>>
    /\ Head(Current.todo).kind = "own"
    /\ cancelOuterHandlers' = FALSE
    /\ Step([Current EXCEPT !.todo = Tail(@), !.internals = internalBeforeHandlers])
    /\ UNCHANGED <<listeners, outerHandlers, internalBeforeHandlers, internalAfterHandlers,
                   theirs, ignored>>

(* An internal handler may stop the event, cancel the page's handlers and remove itself. *)
CallInternalHandler(stops, cancels, leaves) ==
    /\ firing # <<>> /\ ~Current.inPage /\ Current.internals # <<>>
    /\ cancelOuterHandlers' = (cancelOuterHandlers \/ cancels)
    /\ internalBeforeHandlers' = IF leaves THEN Remove(internalBeforeHandlers, Head(Current.internals))
                                 ELSE internalBeforeHandlers
    /\ Step(IF stops
            THEN [Current EXCEPT !.internals = <<>>, !.todo = <<>>, !.due = <<>>, !.phase = "bubble",
                                 !.stopped = TRUE, !.cancelled = @ \/ cancels]
            ELSE [Current EXCEPT !.internals = Tail(@), !.cancelled = @ \/ cancels])
    /\ UNCHANGED <<listeners, outerHandlers, internalAfterHandlers, theirs, ignored>>

(* The wrapper of a page listener calls it unless the handlers of the page are cancelled; a  *)
(* listener for one event leaves the browser's list before.                                  *)
CallPageListener ==
    LET l == Head(Current.todo)
    IN /\ firing # <<>> /\ ~Current.inPage /\ Current.internals = <<>> /\ Current.todo # <<>>
       /\ l.kind = "page"
       /\ firing' = [(IF l.once THEN Forgotten(<<l>>) ELSE firing) EXCEPT
                        ![Len(firing)].todo = Tail(Current.todo),
                        ![Len(firing)].due  = Tail(Current.due),
                        ![Len(firing)].inPage = ~cancelOuterHandlers \/ l.fn \in {"on1", "on2"}]
       /\ listeners' = IF l.once THEN Without(listeners, l) ELSE listeners
       /\ theirs' = IF l.once THEN Without(theirs, l) ELSE theirs
       /\ UNCHANGED <<context, ignored>>

ReturnFromPage ==
    /\ ~ignored /\ firing # <<>> /\ Current.inPage
    /\ Step([Current EXCEPT !.inPage = FALSE])
    /\ UNCHANGED <<listeners, context, theirs, ignored>>

CallFollower ==
    /\ firing # <<>> /\ ~Current.inPage /\ Current.internals = <<>> /\ Current.todo # <<>>
    /\ Head(Current.todo).kind \in {"after", "report"}
    /\ Step([Current EXCEPT !.todo = Tail(@), !.reported = @ \/ Head(Current.todo) = Report])
    /\ UNCHANGED <<listeners, context, theirs, ignored>>

NextPhase ==
    /\ firing # <<>> /\ ~Current.inPage /\ Current.internals = <<>> /\ Current.todo = <<>>
    /\ Current.phase = "capture"
    /\ Step([Current EXCEPT !.phase = "bubble", !.todo = OfPhase(listeners, "bubble"),
                            !.due = OfPhase(theirs, "bubble"), !.moved = FALSE])
    /\ UNCHANGED <<listeners, context, theirs, ignored>>

EndEvent ==
    /\ firing # <<>> /\ ~Current.inPage /\ Current.internals = <<>> /\ Current.todo = <<>>
    /\ Current.phase = "bubble"
    /\ firing' = [e \in 1..(Len(firing) - 1) |-> [firing[e] EXCEPT !.nested = TRUE]]
    /\ UNCHANGED <<listeners, context, theirs, ignored>>

(*** what the sandbox's components do ***************************************)

Idle == firing = <<>> /\ ~ignored

AddInternalBeforeHandler(h) ==
    /\ Idle /\ ~Contains(internalBeforeHandlers, h)
    /\ internalBeforeHandlers' = Append(internalBeforeHandlers, h)
    /\ UNCHANGED <<listeners, outerHandlers, internalAfterHandlers, cancelOuterHandlers,
                   firing, theirs, ignored>>

AddFirstInternalBeforeHandler(h) ==
    /\ Idle /\ ~Contains(internalBeforeHandlers, h)
    /\ internalBeforeHandlers' = <<h>> \o internalBeforeHandlers
    /\ UNCHANGED <<listeners, outerHandlers, internalAfterHandlers, cancelOuterHandlers,
                   firing, theirs, ignored>>

AddInternalAfterHandler(h) ==
    /\ Idle /\ ~Contains(internalAfterHandlers, h)
    /\ internalAfterHandlers' = <<h>> \o internalAfterHandlers
    /\ listeners' = NativeAdd(listeners, After(h))
    /\ UNCHANGED <<outerHandlers, internalBeforeHandlers, cancelOuterHandlers, firing, theirs,
                   ignored>>

Next ==
    \/ \E fn \in Functions, capture, once \in BOOLEAN : AddEventListener(fn, capture, once)
    \/ \E fn \in Functions, capture \in BOOLEAN : RemoveEventListener(fn, capture)
    \/ \E fn \in {"on1", "on2"} : SetOnEvent(fn)
    \/ ResetOnEvent \/ DispatchEvent
    \/ CallOwnListener \/ CallPageListener \/ ReturnFromPage \/ CallFollower
    \/ \E stops, cancels, leaves \in BOOLEAN : CallInternalHandler(stops, cancels, leaves)
    \/ NextPhase \/ EndEvent
    \/ \E h \in Handlers : \/ AddInternalBeforeHandler(h) \/ AddFirstInternalBeforeHandler(h)
                           \/ AddInternalAfterHandler(h)

Spec == Init /\ [][Next]_vars

(*** properties *************************************************************)

TypeOK ==
    /\ Len(theirs) <= MaxListeners /\ Len(firing) <= MaxDepth
    /\ cancelOuterHandlers \in BOOLEAN /\ ignored \in BOOLEAN

(* The page's listeners are called in the order in which they would be without the proxy, and *)
(* left out only in an event whose own internal handlers said so (an event within another one  *)
(* leaves its decision to it: the mark belongs to the listeners, not to the event).            *)
ListenersAreCalled ==
    ~ignored =>
        /\ OfThePage(listeners) = theirs
        /\ \A e \in DOMAIN firing :
              LET f == firing[e]
              IN /\ OfThePage(f.todo) = f.due
                 /\ (e = Len(firing) /\ ~f.nested /\ ~Knows(f.todo, Own))
                       => cancelOuterHandlers = f.cancelled

(* No listener of the page comes before the sandbox's own or after the report of the event,  *)
(* and an event that was not stopped has been reported when it ends, unless a listener that  *)
(* the page added in its bubbling phase moved the report.                                    *)
ReportComesLast ==
    /\ Head(listeners) = Own
    /\ \A i, j \in DOMAIN listeners :
          i < j /\ listeners[i] = Report => listeners[j].kind # "page" \/ listeners[j].capture
    /\ \A e \in DOMAIN firing :
          LET f == firing[e]
          IN f.phase = "bubble" /\ f.todo = <<>> /\ ~f.stopped /\ ~f.moved => f.reported
===============================================================================
