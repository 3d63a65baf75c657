------------------------------- MODULE ProxyServer -------------------------------
(***************************************************************************)
(* The proxy with one session (proxy/index.ts, proxy/router.ts,            *)
(* session/index.ts, session/cookies.ts): what becomes of the requests of  *)
(* a page, its service messages and its task script while the runner       *)
(* switches the state of the session, changes cookies, and closes the      *)
(* session or the proxy.                                                   *)
(*                                                                         *)
(* A cookie of a page is known by the state whose page or server set it.   *)
(* The cookies of the runner are keys.  One window shows a page; the       *)
(* runner's cookies reach it in the task script and in answers to service  *)
(* messages.                                                               *)
(***************************************************************************)
EXTENDS Naturals, Sequences, FiniteSets, SequencesExt

CONSTANTS
    Snapshots,   \* state snapshots of the runner: names, and whether they have storages
    Cookies,     \* cookies of the runner
    MaxRequests, \* bound on the requests of the browser
    MaxCalls     \* bound on the calls of the runner

NoState == [name |-> "none", storages |-> FALSE]
Initial == [name |-> "initial", storages |-> FALSE]
States  == Snapshots \cup {Initial}

VARIABLES
    proxy,    \* its servers, and whether the session is in openSessions
    session,  \* see InitialSession
    requests, \* the requests under way, in the order they came
    page,     \* the page in the browser, see InitialPage
    troubles  \* history: what the properties make an exception for, see Troubles

proxyVars == <<proxy, session, requests, page, troubles>>

(* jar holds the pages' cookies and api the runner's, current is the state applied last,     *)
(* pending the pendingStateSnapshot and toTell the _pendingSyncCookies; sent and calls count *)
(* towards the bounds.                                                                       *)
InitialSession ==
    [jar |-> {}, api |-> {}, current |-> Initial, pending |-> NoState, toTell |-> <<>>,
     sent |-> 0, calls |-> 0]

(* Its state, the state its storages were restored from, the cookies of the runner that it   *)
(* knows, whether its task script has run, and sync cookies that nobody read yet.            *)
InitialPage == [of |-> Initial, storages |-> Initial, api |-> {}, started |-> TRUE,
                unread |-> <<>>]

(* Of what may be told of a cookie, in a Set-Cookie header: its value, or that it expired.   *)
Syncs == [key : Cookies, set : BOOLEAN]

(* of is the state of the page that asks, restoring ctx.restoringStorages; api and told are  *)
(* the cookies that a task script and an answer carry; a task script is live while its page is.  *)
RequestStates ==
    [kind : {"page", "asset", "message", "socket", "task"}, of : States,
     restoring : States \cup {NoState}, api : SUBSET Cookies, told : Seq(Syncs),
     live : BOOLEAN, step : {"asked", "answered", "redirected"}]

Sessions ==
    [jar : SUBSET States, api : SUBSET Cookies, current : States, pending : States \cup {NoState},
     toTell : Seq(Syncs), sent : Nat, calls : Nat]
PageStates ==
    [of : States, storages : States, api : SUBSET Cookies, started : BOOLEAN,
     unread : Seq(Syncs)]

(* A request of the old page came or ended after the switch; the redirected request of the   *)
(* new page brought cookies of the old one; a page with storages to restore was redirected   *)
(* or overtaken; a page request failed; an answer was lost, or came while another was under  *)
(* way; all cookies were deleted at once; the page had not read all cookies at the switch.   *)
Troubles == {"late", "carried", "unrestored", "failed", "lost", "overtaken", "cleared", "kept"}

ProxyTypeOK ==
    /\ proxy \in [servers : {"new", "started", "closed"}, open : BOOLEAN]
    /\ session \in Sessions /\ requests \in Seq(RequestStates) /\ page \in PageStates
    /\ troubles \subseteq Troubles

ProxyInit ==
    /\ proxy = [servers |-> "new", open |-> FALSE]
    /\ session = InitialSession /\ requests = <<>> /\ page = InitialPage /\ troubles = {}

Among(kind, reqs) == \E r \in DOMAIN reqs : reqs[r].kind = kind
UnderWay(kind) == Among(kind, requests)
Others(r)      == RemoveAt(requests, r)
Trouble(t, if) == IF if THEN {t} ELSE {}

-----------------------------------------------------------------------------
(* The runner *)

Start ==
    /\ proxy.servers = "new"
    /\ proxy' = [proxy EXCEPT !.servers = "started"]
    /\ UNCHANGED <<session, requests, page, troubles>>

(* close destroys the sockets of everything that is under way; sessions stay open. *)
Close ==
    /\ proxy.servers = "started"
    /\ proxy' = [proxy EXCEPT !.servers = "closed"]
    /\ requests' = <<>> /\ troubles' = troubles \cup {"lost"}
    /\ UNCHANGED <<session, page>>

OpenSession ==
    /\ proxy.servers = "started" /\ ~proxy.open
    /\ proxy' = [proxy EXCEPT !.open = TRUE]
    /\ UNCHANGED <<session, requests, page, troubles>>

CloseSession ==
    /\ proxy.open
    /\ proxy' = [proxy EXCEPT !.open = FALSE]
    /\ UNCHANGED <<session, requests, page, troubles>>

Call(s) == session.calls < MaxCalls /\ session' = [s EXCEPT !.calls = @ + 1]

SwitchAtOnce(snapshot) ==
    /\ Call([session EXCEPT !.jar = {snapshot}, !.api = {}, !.current = snapshot])
    /\ UNCHANGED <<proxy, requests, page, troubles>>

UseStateSnapshot(snapshot) ==
    /\ Call([session EXCEPT !.pending = snapshot])
    /\ UNCHANGED <<proxy, requests, page, troubles>>

SetCookie(c) ==
    /\ Call([session EXCEPT !.api = @ \cup {c},
                            !.toTell = Append(@, [key |-> c, set |-> TRUE])])
    /\ UNCHANGED <<proxy, requests, page, troubles>>

DeleteCookie(c) ==
    /\ c \in session.api
    /\ Call([session EXCEPT !.api = @ \ {c},
                            !.toTell = Append(@, [key |-> c, set |-> FALSE])])
    /\ UNCHANGED <<proxy, requests, page, troubles>>

(* Without a filter the cookies are told as they were: their expires stays. *)
DeleteAllCookies ==
    /\ Call([session EXCEPT !.jar = {}, !.api = {},
                            !.toTell = @ \o SetToSeq({[key |-> c, set |-> TRUE] : c \in session.api})])
    /\ troubles' = troubles \cup Trouble("cleared", session.api # {})
    /\ UNCHANGED <<proxy, requests, page>>

-----------------------------------------------------------------------------
(* Requests.  One of a session that is not open is refused: _route has no handler and        *)
(* dispatch fails, or the handler answers with an error.                                     *)

AskAfter(earlier, kind, s, restoring) ==
    /\ proxy.open /\ proxy.servers = "started" /\ session.sent < MaxRequests
    /\ session' = [s EXCEPT !.sent = @ + 1]
    /\ requests' = Append(earlier,
           [kind |-> kind, of |-> IF kind = "page" THEN s.current ELSE page.of,
            restoring |-> restoring, api |-> IF kind = "task" THEN s.api ELSE {},
            told |-> <<>>, live |-> TRUE, step |-> "asked"])
    /\ UNCHANGED <<proxy, page>>

Ask(kind, s) == AskAfter(requests, kind, s, NoState)

(* dispatch takes the cookies that the page wrote, of which there may be none. *)
Dispatched == {session} \cup {[session EXCEPT !.jar = @ \cup {page.of}]}

(* onPageRequest: the snapshot replaces the jar of whatever was dispatched. *)
OnPageRequest(s) ==
    IF s.pending = NoState THEN s
    ELSE [s EXCEPT !.jar = {s.pending}, !.api = {}, !.current = s.pending, !.pending = NoState]

UntoldCookies == session.toTell \o page.unread # <<>>
                     \/ \E r \in DOMAIN requests : requests[r].told # <<>>
OldPageAsks   == page.of # session.current

Navigate(earlier, s) ==
    AskAfter(earlier, "page", OnPageRequest(s), IF s.pending.storages THEN s.pending ELSE NoState)

(* What a page request troubles: a switch under requests of the old page or before all       *)
(* cookies were read, and a page that is under way and may be forgotten.                     *)
Unfinished(earlier, s) ==
    Trouble("late", s.pending # NoState /\ (Among("asset", earlier) \/ Among("page", earlier)))
    \cup Trouble("kept", s.pending # NoState /\ UntoldCookies)
    \cup Trouble("unrestored", Among("page", earlier))

(* No switch, and what the old page wrote gets into the jar of the new state. *)
BringsOldCookies(s) == s.pending = NoState /\ s.jar # session.jar /\ OldPageAsks

AskForPage == \E s \in Dispatched :
    /\ Navigate(requests, s)
    /\ troubles' = troubles \cup Unfinished(requests, s) \cup Trouble("late", BringsOldCookies(s))

AskForAsset == \E s \in Dispatched :
    /\ Ask("asset", s)
    /\ troubles' = troubles \cup Trouble("late", OldPageAsks)

SendMessage(kind) ==
    /\ Ask(kind, session)
    /\ page.started
    /\ UNCHANGED troubles

(* getTaskScript reads the cookies first. *)
AskForTaskScript ==
    /\ ~page.started
    /\ Ask("task", session)
    /\ UNCHANGED troubles

-----------------------------------------------------------------------------
(* Answers *)

Answers(r, kind, step) == requests[r].kind = kind /\ requests[r].step = step
Ended(r)  == requests' = Others(r)
SetByServer(r) == {session} \cup {[session EXCEPT !.jar = @ \cup {requests[r].of}]}
Late(r)   == Trouble("late", requests[r].of # session.current)

(* The page starts with what its HTML restores; a task script of the old one has no effect.  *)
PageArrives(r) ==
    /\ Answers(r, "page", "asked")
    /\ requests' = [q \in DOMAIN Others(r) |-> [Others(r)[q] EXCEPT !.live = FALSE]]
    /\ session' \in SetByServer(r)
    /\ page' = [page EXCEPT !.of = requests[r].of, !.started = FALSE,
                            !.storages = IF requests[r].restoring = NoState THEN @
                                         ELSE requests[r].restoring]
    /\ troubles' = troubles \cup Late(r)
    /\ UNCHANGED proxy

PageIsRedirected(r) ==
    /\ Answers(r, "page", "asked")
    /\ requests' = [requests EXCEPT ![r].step = "redirected"]
    /\ session' \in SetByServer(r)
    /\ troubles' = troubles \cup Late(r)
    /\ UNCHANGED <<proxy, page>>

(* The browser follows a redirect with a page request like any other: it carries what the    *)
(* old page wrote, switches the state if a snapshot is pending, and has a ctx of its own, to *)
(* which the storages that the first request was to restore are unknown.                     *)
RedirectIsFollowed(r) == \E s \in Dispatched :
    /\ Answers(r, "page", "redirected")
    /\ Navigate(Others(r), s)
    /\ troubles' = troubles \cup Unfinished(Others(r), s) \cup Trouble("carried", BringsOldCookies(s))
           \cup Trouble("unrestored", requests[r].restoring # NoState /\ s.pending = NoState)

(* The old page stays, also when what follows a redirect is refused. *)
PageFails(r) ==
    /\ Answers(r, "page", "asked") \/ Answers(r, "page", "redirected")
    /\ Ended(r)
    /\ troubles' = troubles \cup {"failed"}
    /\ UNCHANGED <<proxy, session, page>>

AssetArrives(r) ==
    /\ Answers(r, "asset", "asked") /\ Ended(r)
    /\ session' \in SetByServer(r)
    /\ troubles' = troubles \cup Late(r)
    /\ UNCHANGED <<proxy, page>>

(* The handler of a message is awaited; then all cookies to be told are taken, for a message *)
(* that came over HTTP and was handled.                                                      *)
MessageIsHandled(r) ==
    /\ Answers(r, "message", "asked")
    /\ requests' = [requests EXCEPT ![r].step = "answered", ![r].told = session.toTell]
    /\ session' = [session EXCEPT !.toTell = <<>>]
    /\ UNCHANGED <<proxy, page, troubles>>

TakeCookiesOfFailedMessages(r) ==
    /\ Answers(r, "message", "asked") \/ Answers(r, "socket", "asked")
    /\ Ended(r)
    /\ session' = [session EXCEPT !.toTell = <<>>]
    /\ UNCHANGED <<proxy, page, troubles>>

MessageTakesNoCookies(r) ==
    /\ Answers(r, "message", "asked") \/ Answers(r, "socket", "asked")
    /\ Ended(r)
    /\ UNCHANGED <<proxy, session, page, troubles>>

(* Of several that are read about a cookie the last one decides. *)
Decides(syncs, i)   == \A j \in DOMAIN syncs : j > i => syncs[j].key # syncs[i].key
Mentioned(syncs)    == {syncs[i].key : i \in DOMAIN syncs}
SetAtLast(syncs)    == {syncs[i].key : i \in {j \in DOMAIN syncs : syncs[j].set /\ Decides(syncs, j)}}
Known(api, syncs)   == (api \ Mentioned(syncs)) \cup SetAtLast(syncs)

(* The browser stores the sync cookies; a page that runs reads them. *)
MessageIsAnswered(r) ==
    /\ Answers(r, "message", "answered") /\ Ended(r)
    /\ page' = IF page.started THEN [page EXCEPT !.api = Known(@, requests[r].told)]
               ELSE [page EXCEPT !.unread = @ \o requests[r].told]
    /\ troubles' = troubles \cup Trouble("overtaken",
           \E q \in DOMAIN requests \ {r} : requests[q].told # <<>>)
    /\ UNCHANGED <<proxy, session>>

AnswerIsLost(r) ==
    /\ Answers(r, "message", "answered") /\ Ended(r)
    /\ troubles' = troubles \cup Trouble("lost", requests[r].told # <<>>)
    /\ UNCHANGED <<proxy, session, page>>

TaskScriptArrives(r) ==
    /\ Answers(r, "task", "asked") /\ Ended(r)
    /\ page' = IF page.started \/ ~requests[r].live THEN page
               ELSE [page EXCEPT !.started = TRUE, !.unread = <<>>,
                                 !.api = Known(requests[r].api, page.unread)]
    /\ UNCHANGED <<proxy, session, troubles>>

Answer == \E r \in DOMAIN requests :
    \/ PageArrives(r) \/ PageIsRedirected(r) \/ RedirectIsFollowed(r) \/ PageFails(r)
    \/ AssetArrives(r)
    \/ MessageIsHandled(r) \/ MessageTakesNoCookies(r) \/ MessageIsAnswered(r) \/ AnswerIsLost(r)
    \/ TaskScriptArrives(r)

ProxyNext ==
    \/ Start \/ Close \/ OpenSession \/ CloseSession
    \/ \E s \in Snapshots : UseStateSnapshot(s)
    \/ \E c \in Cookies : SetCookie(c) \/ DeleteCookie(c)
    \/ DeleteAllCookies
    \/ AskForPage \/ AskForAsset \/ AskForTaskScript
    \/ \E kind \in {"message", "socket"} : SendMessage(kind)
    \/ Answer

ProxySpec == ProxyInit /\ [][ProxyNext]_proxyVars

-----------------------------------------------------------------------------
(* Properties *)

(* useStateSnapshot waits for the next page "since there might be pending requests from the  *)
(* current page": unless such a request is under way at the switch, or comes before the new  *)
(* page has arrived, the jar never mixes cookies of two states (session/index.ts:150-162).   *)
(* One other request may bring cookies of the old page, that of a new page whose first       *)
(* answer was a redirect, and is named too (carried).                                        *)
StatesDoNotMix ==
    troubles \cap {"late", "carried", "failed"} = {} => session.jar \subseteq {session.current}

(* The page that shows a state with storages has the storages of that state, if the page     *)
(* request that switched the state brought the page, and not one that followed a redirect.   *)
StoragesAreRestored ==
    page.of.storages /\ troubles \cap {"unrestored", "failed"} = {} => page.storages = page.of

StateIsSwitchedCleanly == StatesDoNotMix /\ StoragesAreRestored

(* When everything that the runner did to cookies has been told, the page and the session    *)
(* agree on them, unless a page request failed, an answer was lost or came while another was *)
(* under way, all cookies were deleted in one call, or the state was switched before its     *)
(* cookies were read.                                                                        *)
RunnerCookiesReachThePage ==
    \/ troubles \cap {"lost", "failed", "overtaken", "cleared", "kept"} # {}
    \/ session.toTell # <<>> \/ ~page.started \/ UnderWay("message") \/ UnderWay("page")
    \/ page.of # session.current
    \/ page.api = session.api
===============================================================================
