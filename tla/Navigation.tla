------------------------------ MODULE Navigation ------------------------------
(***************************************************************************)
(* Where a page goes: its location (client/sandbox/code-instrumentation/   *)
(* location), the base of its URLs (client/utils/url-resolver.ts), its     *)
(* links, forms and new windows (client/sandbox/child-window), and the     *)
(* watch that tells the test runner of a navigation before it happens      *)
(* (client/page-navigation-watch.ts).                                      *)
(*                                                                         *)
(* The page is the top page or one in a frame.  A destination is a place   *)
(* <<host, path>>, a search and a hash; a proxied URL adds flags, the port *)
(* of the proxy and the origin that the request comes from.  A page in a   *)
(* frame without src has the native location about:blank.                  *)
(***************************************************************************)
EXTENDS Naturals, Sequences

CONSTANTS
    MaxSteps       \* how much the page does

VARIABLES
    steps,         \* that it has done
    frame,         \* the page is in a frame
    multiple,      \* the setting allowMultipleWindows
    at,            \* the native location
    pageType,      \* the type in the location when the page was loaded
    base,          \* the base URL of the resolver
    baseElement,   \* where the page's <base> leads, or NoDest
    last,          \* _lastLocationValue of the watch
    loading,       \* the URL whose page is awaited, or NoUrl
    left,          \* the page has left its frame to the page around it
    pushed,        \* history: history.pushState has changed the page's URL
    wrong          \* what went wrong in the last step of the page, see Faults

vars == <<steps, frame, multiple, at, pageType, base, baseElement, last, loading, left, pushed, wrong>>

Dest(place, search, hash) == [place |-> place, search |-> search, hash |-> hash]
Blank  == Dest(<<"blank", 0>>, "", "")
NoDest == Dest(<<"none", 0>>, "", "")
Host(dest) == dest.place[1]
SansHash(dest) == [dest EXCEPT !.hash = ""]

Url(dest, type, port, origin) == [dest |-> dest, type |-> type, port |-> port, origin |-> origin]
NativeBlank == Url(Blank, {}, "none", "none")
NoUrl       == Url(NoDest, {}, "none", "none")
Other(port) == IF port = "p1" THEN "p2" ELSE "p1"

(* The page around the frame. *)
Parent == Url(Dest(<<"a", 1>>, "", ""), {}, "p1", "none")

-----------------------------------------------------------------------------
(* What the page writes, and where it leads without the proxy *)

Relative(kind, v) == [kind |-> kind, to |-> Dest(<<"", 0>>, v, ""), path |-> 0]
Absolute(dest)    == [kind |-> "absolute", to |-> dest, path |-> 0]
References ==
    {Absolute(Dest(<<"a", p>>, "", h)) : p \in {1, 2}, h \in {"", "h"}}
    \cup {Absolute(Dest(<<"b", 1>>, "", "")), Absolute(Blank)}
    \cup {[Relative("path", "") EXCEPT !.path = 2], Relative("search", "s"), Relative("hash", "h"),
          Relative("script", "")}

Resolved(ref, from) ==
    CASE ref.kind = "path"   -> Dest(<<Host(from), ref.path>>, "", "")
      [] ref.kind = "search" -> Dest(from.place, ref.to.search, "")
      [] ref.kind = "hash"   -> [from EXCEPT !.hash = "h"]
      [] OTHER               -> ref.to

Readable(ref, from) == ref.kind \in {"absolute", "script"} \/ from # Blank

-----------------------------------------------------------------------------
(* The destination's location and the resolver *)

OwnPort == IF at = NativeBlank THEN "p1" ELSE at.port

(* A frame without src goes by the page around it. *)
GetLocation == IF at = NativeBlank THEN Parent ELSE at
GetDest == GetLocation.dest

NativeBase == IF baseElement # NoDest THEN baseElement ELSE GetDest

UpdateBase(dest) == base' = dest
ResolveUrl(ref)  == Resolved(ref, base)

SameOriginCheck(location, dest) == dest = Blank \/ Host(location.dest) = Host(dest)
GetCrossDomainProxyPort(port) == Other(port)

(* A native value: a hash, a script, or a URL. *)
Native(kind)      == [kind |-> kind, url |-> NoUrl]
Proxied(url)      == [kind |-> "url", url |-> url]
ClientUrl(dest, type, port) ==
    Url(dest, type, port, IF "iframe" \in type /\ port = Other(OwnPort) THEN Host(GetDest) ELSE "none")

GetProxyUrl(ref, type, port) ==
    IF ref.kind \in {"hash", "script"} THEN Native(ref.kind)
    ELSE Proxied(ClientUrl(ResolveUrl(ref), type, port))

(* Mutated form: the hashes are compared as well. *)
IsTheSameUrl(url, value) == value.kind = "url" /\ url.dest = value.url.dest
IsChangedOnlyHash(url, value) == value.kind = "url" /\ SansHash(url.dest) = SansHash(value.url.dest)

-----------------------------------------------------------------------------
(* The browser: a fragment of the same page, or another page *)

Course(kind, dest) == [kind |-> kind, dest |-> dest]
Stay == Course("stay", NoDest)

Without(ref) ==
    LET dest == Resolved(ref, NativeBase)
    IN IF ref.kind = "script" THEN Stay
       ELSE Course(IF SansHash(dest) = SansHash(at.dest) /\ dest.hash # "" THEN "fragment" ELSE "load", dest)

(* The native base element has a proxied URL as well. *)
NativeUrl(value) ==
    IF value.kind = "url" THEN value.url
    ELSE IF baseElement # NoDest THEN Url([baseElement EXCEPT !.hash = "h"], {}, OwnPort, "none")
    ELSE [at EXCEPT !.dest.hash = "h"]

SamePage(url) == [url EXCEPT !.dest = SansHash(url.dest)] = [at EXCEPT !.dest = SansHash(at.dest)]
With(value) ==
    LET url == NativeUrl(value)
    IN IF value.kind = "script" THEN Stay
       ELSE Course(IF SamePage(url) /\ url.dest.hash # "" THEN "fragment" ELSE "load", url.dest)

Follow(value) ==
    /\ loading' = IF With(value).kind = "load" THEN NativeUrl(value) ELSE loading
    /\ at' = IF With(value).kind = "fragment" THEN NativeUrl(value) ELSE at

-----------------------------------------------------------------------------
(* The watch *)

(* What is announced of a value in the page with the location "before". *)
OnNavigationTriggered(value, before) ==
    IF \/ value # Proxied(before) /\ (value.kind = "hash" \/ IsChangedOnlyHash(before, value))
       \/ value.kind = "script" \/ value = Proxied(NativeBlank)
    THEN <<>> ELSE <<value.url.dest>>

(* The window that a link or a form is for: what the page wrote counts, also where the        *)
(* native target had to be corrected.                                                         *)
GetTargetWindow(target) ==
    CASE target = "self" -> "own"
      [] target = "top"  -> IF frame THEN "top" ELSE "own"
      [] OTHER           -> "none"

(* A step of the page goes wrong if the browser takes another course than it would without    *)
(* the proxy, or if the watch does not announce just the page that is loaded.                 *)
Faults(wanted, got, announced) ==
    (IF got # wanted THEN {"course"} ELSE {})
    \cup (IF announced # (IF got.kind = "load" THEN <<got.dest>> ELSE <<>>) THEN {"announcement"} ELSE {})

(* Where nothing is said.  A URL of the same page has other flags, or the resolver does not   *)
(* know of history.pushState: the course may be another one.  The watch does not know of it,  *)
(* takes a load of the same page for a change of its hash or the other way round, or knows    *)
(* nothing of the base of a hash: the announcement may go wrong.                              *)
Retyped(value) ==
    /\ value.kind # "script"
    /\ LET url == NativeUrl(value) IN SansHash(url.dest) = SansHash(at.dest) /\ ~SamePage(url)
Misresolved(ref) == pushed /\ Resolved(ref, NativeBase) # Resolved(ref, base)
ByItsHash(value) == IsChangedOnlyHash(at, value) /\ (value = Proxied(last)) # (value.url.dest.hash = "")

FlagsDiffer == frame /\ ("iframe" \notin at.type \/ at.origin # "none")

Excused(ref, value, mayRetype) ==
    IF (Retyped(value) /\ (mayRetype \/ pushed)) \/ Misresolved(ref) THEN {"course", "announcement"}
    ELSE IF \/ (pushed /\ ~SamePage(last)) \/ ByItsHash(value)
            \/ ref.kind = "hash" /\ SansHash(NativeBase) # SansHash(at.dest)
    THEN {"announcement"}
    ELSE {}

-----------------------------------------------------------------------------
Init ==
    /\ steps = 0 /\ frame \in BOOLEAN /\ multiple \in BOOLEAN
    /\ at \in IF frame
              THEN {NativeBlank, Url(Dest(<<"a", 2>>, "", ""), {"iframe"}, "p1", "none"),
                    Url(Dest(<<"b", 1>>, "", ""), {"iframe"}, "p2", "a")}
              ELSE {Url(Dest(<<"a", 1>>, "", ""), type, "p1", "none") : type \in {{}, {"form"}}}
    /\ base = GetDest /\ baseElement = NoDest
    /\ pageType = at.type /\ last = at /\ loading = NoUrl /\ left = FALSE /\ pushed = FALSE /\ wrong = {}

(* The type that the location gives to a URL: that of the page's own URL as long as only the  *)
(* hash changes.                                                                              *)
ResourceType == pageType \cup (IF frame THEN {"iframe"} ELSE {})

ProxyPort(dest) ==
    IF frame /\ OwnPort = Parent.port
    THEN IF SameOriginCheck(Parent, dest) THEN Parent.port ELSE GetCrossDomainProxyPort(Parent.port)
    ELSE OwnPort

GetProxiedHref(ref) ==
    LET dest == ResolveUrl(ref)
        changedOnlyHash == ref.kind # "hash" /\ SansHash(dest) = SansHash(at.dest)
    IN GetProxyUrl(ref, IF changedOnlyHash THEN pageType ELSE ResourceType, ProxyPort(dest))

(* A location that the watch is told of after the browser has got it. *)
LocationChanged(wanted, value, excused) ==
    /\ Follow(value)
    /\ wrong' = Faults(wanted, With(value), OnNavigationTriggered(value, last)) \ excused
    /\ last' = at'
    /\ UNCHANGED left

(* location.href = ..., location.assign and location.replace. *)
SetHref(ref) ==
    /\ Readable(ref, base) /\ ~(ref.kind = "hash" /\ at = NativeBlank)
    /\ LET value == GetProxiedHref(ref)
       IN LocationChanged(Without(ref), value,
                          Excused(ref, value, FlagsDiffer \/ ref.kind = "hash"))
    /\ UNCHANGED <<frame, multiple, pageType, base, baseElement, pushed>>

ChangedPart(part) ==
    CASE part = "search"   -> [at.dest EXCEPT !.search = "s"]
      [] part = "pathname" -> [at.dest EXCEPT !.place[2] = 2]
      [] part = "host"     -> [at.dest EXCEPT !.place[1] = "b"]

ChangeDestUrlPart(part) == Proxied(ClientUrl(ChangedPart(part), ResourceType, at.port))

SetPart(part) ==
    /\ at.dest # Blank
    /\ LET value == ChangeDestUrlPart(part)
           dest  == ChangedPart(part)
       IN LocationChanged(Course(IF dest = at.dest /\ dest.hash # "" THEN "fragment" ELSE "load", dest), value,
                          Excused(Absolute(dest), value, FlagsDiffer))
    /\ UNCHANGED <<frame, multiple, pageType, base, baseElement, pushed>>

SetHash ==
    /\ at # NativeBlank
    /\ at' = [at EXCEPT !.dest.hash = "h"] /\ wrong' = {}
    /\ UNCHANGED <<frame, multiple, pageType, base, baseElement, last, loading, left, pushed>>

Reload ==
    /\ at # NativeBlank
    /\ loading' = at /\ last' = at
    /\ wrong' = Faults(Course("load", at.dest), Course("load", at.dest), OnNavigationTriggered(Proxied(at), last))
                \ (IF pushed \/ last.dest.hash # at.dest.hash THEN {"announcement"} ELSE {})
    /\ UNCHANGED <<frame, multiple, at, pageType, base, baseElement, left, pushed>>

PushState(ref) ==
    /\ at.dest # Blank /\ ref.kind \in {"absolute", "path"} /\ Host(ResolveUrl(ref)) = Host(at.dest)
    /\ ~Misresolved(ref)
    /\ at' = GetProxyUrl(ref, {}, OwnPort).url /\ pushed' = TRUE /\ wrong' = {}
    /\ UNCHANGED <<frame, multiple, pageType, base, baseElement, last, loading, left>>

SetBase(dest) ==
    /\ baseElement' = dest /\ UpdateBase(dest) /\ wrong' = {}
    /\ UNCHANGED <<frame, multiple, at, pageType, last, loading, left, pushed>>

(* Mutated form: the resolver keeps the base of the element that is removed. *)
RemoveBaseOnly ==
    /\ baseElement # NoDest /\ baseElement' = NoDest /\ wrong' = {}
    /\ UNCHANGED <<frame, multiple, at, pageType, base, last, loading, left, pushed>>

RemoveBase ==
    /\ baseElement # NoDest /\ baseElement' = NoDest /\ UpdateBase(GetDest) /\ wrong' = {}
    /\ UNCHANGED <<frame, multiple, at, pageType, last, loading, left, pushed>>

-----------------------------------------------------------------------------
(* New windows *)

ShouldOpenInNewWindow(target) == target = "new"

GetPageProxyUrl(url) ==
    Url(url.dest, url.type \ {"iframe"}, IF SameOriginCheck(GetLocation, url.dest) THEN OwnPort ELSE Other(OwnPort), "none")
OpenUrlInNewWindow(url) == <<GetPageProxyUrl(url)>>

(* The page's handlers of a click, in their order: of the link, of an element around it. *)
Unhandled == <<"none", "none">>
Handled   == {<<"prevent", "none">>, <<"none", "prevent">>, <<"stop", "prevent">>}
PreventedByPage(handlers) ==
    \E i \in {1, 2} : handlers[i] = "prevent" /\ \A j \in 1..(i - 1) : handlers[j] # "stop"

(* Mutated form: the window is opened in the next tick in any case. *)
OpenUrlInAnyCase(url, handlers) == OpenUrlInNewWindow(url)

(* The click that opens a window is prevented by hammerhead.  A handler that prevents it on   *)
(* the way to the window is noticed; one that stops it leaves the opening to the next tick.   *)
OpenUrlInNewWindowIfNotPrevented(url, handlers) ==
    IF handlers = <<"none", "prevent">> THEN <<>> ELSE OpenUrlInNewWindow(url)

HandleClickOnLinkOrArea(value, handlers) ==
    IF handlers[1] = "prevent" THEN <<>> ELSE OpenUrlInNewWindowIfNotPrevented(value.url, handlers)

(* The window that the browser takes: a new one is out of the question in one window. *)
CorrectedTarget(target) == IF target = "new" /\ ~multiple THEN "top" ELSE target
Leaves(target) == frame /\ CorrectedTarget(target) = "top"

FlagsFor(target) == IF frame /\ target = "self" THEN {"iframe"} ELSE {}

(* A link to the browser's own kinds of URL has its native URL. *)
LinkValue(ref, target) ==
    LET value == GetProxyUrl(ref, FlagsFor(target), OwnPort)
    IN IF value.kind = "hash" THEN Proxied(NativeUrl(value)) ELSE value

OnNavigationTriggeredInWindow(value, window) ==
    CASE window = "own" -> OnNavigationTriggered(value, last)
      [] window = "top" /\ OwnPort = Parent.port -> OnNavigationTriggered(value, Parent)
      [] OTHER -> <<>>

(* The page goes where a link or form leads, or it leaves the frame to the page around it.    *)
(* The watch of a window is told in the next tick, with what it knew before.                  *)
Followed(value, target, wanted, excused, prevented) ==
    LET own == ~prevented /\ ~Leaves(target)
        got == IF prevented THEN Stay
               ELSE IF own THEN With(value) ELSE Course("load", value.url.dest)
    IN /\ IF own THEN Follow(value) ELSE UNCHANGED <<at, loading>>
       /\ left' = (~prevented /\ Leaves(target))
       /\ last' = IF ~prevented /\ GetTargetWindow(target) = "own" THEN at' ELSE last
       /\ wrong' = Faults(IF prevented THEN Stay ELSE wanted, got,
                          IF prevented THEN <<>>
                          ELSE OnNavigationTriggeredInWindow(value, GetTargetWindow(target)))
                   \ (excused \cup (IF target = "new" \/ (Leaves(target) /\ OwnPort # Parent.port)
                                    THEN {"announcement"} ELSE {}))

(* A window is opened instead. *)
OpensInstead(opened, wanted) ==
    /\ wrong' = IF [i \in DOMAIN opened |-> opened[i].dest] # wanted THEN {"window"} ELSE {}
    /\ UNCHANGED <<at, last, loading, left>>

ToOtherPages == {Absolute(Dest(<<"a", 2>>, "", "")), Absolute(Dest(<<"b", 1>>, "", ""))}

Click(ref, target, handlers) ==
    LET value == LinkValue(ref, target)
    IN /\ Leaves(target) \/ target = "new" => ref \in ToOtherPages
       /\ Readable(ref, base) /\ ~(ref.kind = "hash" /\ at = NativeBlank)
       /\ IF multiple /\ ShouldOpenInNewWindow(target)
          THEN OpensInstead(HandleClickOnLinkOrArea(value, handlers),
                            IF PreventedByPage(handlers) THEN <<>> ELSE <<ref.to>>)
          ELSE Followed(value, target, Without(ref),
                        IF Leaves(target) THEN {} ELSE Excused(ref, value, TRUE),
                        PreventedByPage(handlers))
       /\ UNCHANGED <<frame, multiple, pageType, base, baseElement, pushed>>

(* The window of a form is opened before the page's handlers, which may prevent it after all; *)
(* the form is posted to it then.                                                             *)
HandleFormSubmitting(value) == OpenUrlInNewWindow(value.url)

(* A form loads a page always. *)
FormAction(ref, target) ==
    LET value == GetProxyUrl(ref, {"form"} \cup FlagsFor(target), OwnPort)
    IN [value EXCEPT !.url.dest.hash = ""]

Submit(ref, target, prevented) ==
    LET value == FormAction(ref, target)
    IN /\ Leaves(target) \/ target = "new" => ref \in ToOtherPages
       /\ Readable(ref, base)
       /\ IF multiple /\ ShouldOpenInNewWindow(target)
          THEN OpensInstead(HandleFormSubmitting(value), <<ref.to>>)
          ELSE Followed(value, target, Course("load", SansHash(Resolved(ref, NativeBase))),
                        IF Leaves(target) THEN {} ELSE Excused(ref, value, TRUE), prevented)
       /\ UNCHANGED <<frame, multiple, pageType, base, baseElement, pushed>>

(* form.submit() dispatches no event, which leaves a new window to the browser. *)
FormSubmit(ref, target) ==
    LET value == FormAction(ref, target)
    IN /\ ref \in ToOtherPages /\ ~(multiple /\ target = "new")
       /\ Followed(value, target, Course("load", ref.to), IF Leaves(target) THEN {} ELSE Excused(ref, value, TRUE), FALSE)
       /\ UNCHANGED <<frame, multiple, pageType, base, baseElement, pushed>>

(* window.open: a new window, or this one, which the watch is not told of.                    *)
HandleWindowOpen(ref, target) ==
    LET value == GetProxyUrl(ref, {}, OwnPort)
    IN /\ ref \in ToOtherPages /\ ~Leaves(target)
       /\ IF multiple /\ ShouldOpenInNewWindow(target)
          THEN OpensInstead(OpenUrlInNewWindow(value.url), <<ref.to>>)
          ELSE Follow(value) /\ wrong' = {} /\ UNCHANGED <<last, left>>
       /\ UNCHANGED <<frame, multiple, pageType, base, baseElement, pushed>>

(* The page that is awaited comes. *)
Load ==
    /\ loading # NoUrl
    /\ at' = loading /\ pageType' = loading.type /\ last' = loading /\ loading' = NoUrl
    /\ base' = loading.dest /\ baseElement' = NoDest /\ pushed' = FALSE /\ wrong' = {}
    /\ UNCHANGED <<frame, multiple, left>>

Parts   == {"search", "pathname", "host"}
Targets == {"self", "top", "new"}
Addresses == {ref \in References : ref.kind \in {"absolute", "path"} /\ ref.to # Blank}
Bases   == {Dest(<<"a", 2>>, "", ""), Dest(<<"b", 1>>, "", "")}

PageDoes ==
    \/ \E ref \in References : SetHref(ref) \/ PushState(ref)
    \/ \E part \in Parts : SetPart(part)
    \/ SetHash \/ Reload
    \/ \E dest \in Bases : SetBase(dest)
    \/ RemoveBase
    \/ \E ref \in References, target \in Targets : Click(ref, target, Unhandled)
    \/ \E ref \in Addresses, target \in Targets : Submit(ref, target, FALSE)
    \/ \E ref \in ToOtherPages, target \in Targets :
        \/ \E handlers \in Handled : Click(ref, target, handlers)
        \/ Submit(ref, target, TRUE) \/ FormSubmit(ref, target) \/ HandleWindowOpen(ref, target)

Next ==
    /\ ~left
    /\ \/ steps < MaxSteps /\ steps' = steps + 1 /\ PageDoes
       \/ Load /\ UNCHANGED steps

Spec == Init /\ [][Next]_vars

-----------------------------------------------------------------------------
(* Properties *)

(* The browser does what it would do without the proxy: the page stays, scrolls, or is        *)
(* replaced by the one that it asked for; and it opens the windows that the page asked for.   *)
NavigationsAreAsAsked == {"course", "window"} \cap wrong = {}

(* The watch announces the pages that are loaded, with their destination, and no other step.  *)
NavigationsAreAnnounced == "announcement" \notin wrong
=============================================================================
