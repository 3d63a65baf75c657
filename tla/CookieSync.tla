------------------------------ MODULE CookieSync ------------------------------
(***************************************************************************)
(* One cookie of a tested page, and its three kinds of holders: the        *)
(* windows of the page, each with its own copy (settings.get().cookie),    *)
(* the session's cookie jar on the proxy, and the synchronisation cookies  *)
(* that carry a change between them in the document.cookie which all       *)
(* windows share (client/sandbox/cookie, utils/cookie.ts).                 *)
(*                                                                         *)
(* A window that changes the cookie writes a synchronisation cookie, and   *)
(* the top window passes it on: by a call to windows it has access to, by  *)
(* a message that is repeated until it is answered to the others.          *)
(***************************************************************************)
EXTENDS Integers, SequencesExt

CONSTANTS
    Top,             \* the top window
    SameDomain,      \* its iframes that it has access to
    CrossDomain,     \* its other iframes
    Values,          \* values of the cookie
    NoValue,         \* the cookie is not set
    MaxAttempts,     \* SYNC_MESSAGE_ATTEMPT_COUNT
    TicksPerSecond,  \* precision of the proxy's clock; windows know seconds only
    MaxTime,         \* bound on the time
    MaxWrites,       \* bound on the writes of the page
    MaxRequests      \* bound on the requests of the page

Iframes  == SameDomain \cup CrossDomain
Windows  == {Top} \cup Iframes
Requests == 1..MaxRequests
Times    == 0..MaxTime

ASSUME WindowsAssumption == Top \notin Iframes /\ SameDomain \cap CrossDomain = {}
ASSUME ValuesAssumption == NoValue \notin Values
ASSUME BoundsAssumption ==
    /\ MaxAttempts \in Nat \ {0} /\ TicksPerSecond \in Nat \ {0}
    /\ MaxTime \in Nat /\ MaxWrites \in Nat /\ MaxRequests \in Nat

(* isServerSync, isClientSync and isWindowSync are the members of `sync`. *)
SyncCookies == [sync : SUBSET {"server", "client", "window"}, time : Times, value : Values]

VARIABLES
    page,      \* what the windows share and know, see Pages
    now,       \* the clock
    changes,   \* history: who changed the cookie and when
    jar,       \* the value in the session's cookie jar
    request,   \* the requests of the page
    missed,    \* history: a window did not answer before the attempts ran out
    stale      \* history: a request or answer brought what is older than what is known

vars == <<page, now, changes, jar, request, missed, stale>>

(* doc is the document.cookie, local the windows' copies, syncs the synchronisations that   *)
(* the top window has started with messages, each with the windows it waits for; toFrame    *)
(* and toTop are the messages under way.  A START of an iframe has no id.                   *)
NoId == 0
InitialPage ==
    [doc     |-> <<>>,
     local   |-> [w \in Windows |-> NoValue],
     syncs   |-> <<>>,
     toFrame |-> [x \in CrossDomain |-> <<>>],
     toTop   |-> [x \in CrossDomain |-> <<>>]]

NoAnswer == [delete |-> {}, set |-> {}]

Syncs      == [cookie : SyncCookies, waiting : SUBSET CrossDomain,
               attempts : [CrossDomain -> 0..MaxAttempts]]
ToFrames   == [id : Nat, cookie : SyncCookies]
ToTops     == [cmd : {"start"}, id : {NoId}, cookie : {{c} : c \in SyncCookies}]
              \cup [cmd : {"done"}, id : Nat \ {NoId}, cookie : {{}}]
Pages ==
    [doc     : Seq(SyncCookies),
     local   : [Windows -> Values \cup {NoValue}],
     syncs   : Seq(Syncs),
     toFrame : [CrossDomain -> Seq(ToFrames)],
     toTop   : [CrossDomain -> Seq(ToTops)]]

Answers    == [delete : SUBSET ((SUBSET {"server", "client", "window"}) \X Times),
               set : {{}} \cup {{c} : c \in SyncCookies}]
PageRequests ==
    [state : {"unsent", "sent", "handled", "answered", "over"}, carried : Seq(SyncCookies),
     answer : Answers]

TypeOK ==
    /\ page \in Pages
    /\ \A x \in CrossDomain :
        /\ \A i \in DOMAIN page.toFrame[x] : page.toFrame[x][i].id \in DOMAIN page.syncs
        /\ \A i \in DOMAIN page.toTop[x] :
            page.toTop[x][i].id \in DOMAIN page.syncs \cup {NoId}
    /\ now \in Times /\ changes \in Seq([by : {"page", "server"}, time : Times])
    /\ jar \in Values \cup {NoValue}
    /\ request \in [Requests -> PageRequests]
    /\ missed \in BOOLEAN /\ stale \in BOOLEAN

Init ==
    /\ page = InitialPage
    /\ now = 0 /\ changes = <<>>
    /\ jar = NoValue
    /\ request = [r \in Requests |-> [state |-> "unsent", carried |-> <<>>, answer |-> NoAnswer]]
    /\ missed = FALSE /\ stale = FALSE

-----------------------------------------------------------------------------
(* Synchronisation cookies *)

(* getUTCDate removes the milliseconds. *)
Seconds(time) == (time \div TicksPerSecond) * TicksPerSecond

(* formatSyncCookieKey: two synchronisation cookies of one name overwrite each other. *)
SyncKey(c) == <<c.sync, c.time>>

Delete(doc, keys) ==
    LET left[n \in 0..Len(doc)] ==
            IF n = 0 THEN <<>>
            ELSE IF SyncKey(doc[n]) \in keys THEN left[n - 1]
            ELSE Append(left[n - 1], doc[n])
    IN left[Len(doc)]

Put(doc, c) ==
    IF \E i \in DOMAIN doc : SyncKey(doc[i]) = SyncKey(c)
    THEN [i \in DOMAIN doc |-> IF SyncKey(doc[i]) = SyncKey(c) THEN c ELSE doc[i]]
    ELSE Append(doc, c)

(* sortByOutdatedAndActual for the synchronisation cookies of one cookie: the newest is     *)
(* actual, the last one of several that are equally new.                                    *)
IsActual(doc, i) ==
    \A j \in DOMAIN doc : doc[j].time < doc[i].time \/ (doc[j].time = doc[i].time /\ j <= i)
Actual(doc)   == {doc[i] : i \in {j \in DOMAIN doc : IsActual(doc, j)}}
Outdated(doc) == {doc[i] : i \in {j \in DOMAIN doc : ~IsActual(doc, j)}}

KeysOf(cookies) == {SyncKey(c) : c \in cookies}

-----------------------------------------------------------------------------
(* Windows.  Every operator takes a page and returns the page after a call.                 *)

SetCookie(p, w, c) == [p EXCEPT !.local[w] = c.value]

(* syncWindowCookie: a cookie that is no longer in document.cookie is stale.  The first     *)
(* definition is a mutated form: it is not looked for.                                      *)
SyncWindowCookieBlindly(p, windows, c) ==
    [p EXCEPT !.local = [w \in Windows |-> IF w \in windows THEN c.value ELSE @[w]]]
SyncWindowCookie(p, windows, c) ==
    IF c \in Range(p.doc)
    THEN [p EXCEPT !.local = [w \in Windows |-> IF w \in windows THEN c.value ELSE @[w]]]
    ELSE p

(* _removeSyncCookie: all windows know c.  What the client wrote stays for the proxy, it is *)
(* only no longer for windows; one mutated form forgets to change that, the other removes   *)
(* it for the proxy, too.                                                                   *)
RemoveForGood(p, c) == [p EXCEPT !.doc = Delete(@, {SyncKey(c)})]
RemoveUnchanged(p, c) ==
    LET removed == Delete(p.doc, {SyncKey(c)}) IN
    [p EXCEPT !.doc = IF "client" \in c.sync /\ c \in Range(p.doc)
                      THEN Put(removed, c) ELSE removed]
RemoveSyncCookie(p, c) ==
    LET removed == Delete(p.doc, {SyncKey(c)}) IN
    [p EXCEPT !.doc = IF "client" \in c.sync /\ c \in Range(p.doc)
                      THEN Put(removed, [c EXCEPT !.sync = @ \ {"window"}])
                      ELSE removed]

(* _sendSyncMessage to all windows of `targets`. *)
SendSyncMessages(p, targets, c) ==
    [p EXCEPT
        !.syncs   = Append(@, [cookie |-> c, waiting |-> targets,
                               attempts |-> [x \in CrossDomain |->
                                                IF x \in targets THEN 1 ELSE 0]]),
        !.toFrame = [x \in CrossDomain |->
                        IF x \in targets
                        THEN Append(@[x], [id |-> Len(p.syncs) + 1, cookie |-> c])
                        ELSE @[x]]]

(* syncBetweenWindows in the top window *)
SyncFromTop(p, c, initiator) ==
    LET others == Iframes \ {initiator}
        called == SyncWindowCookie(p, others \cap SameDomain, c)
        remote == others \cap CrossDomain
    IN IF remote = {} THEN RemoveSyncCookie(called, c) ELSE SendSyncMessages(called, remote, c)

(* syncBetweenWindows in w; an iframe delegates to the top window. *)
SyncBetweenWindows(p, w, c) ==
    CASE w = Top            -> SyncFromTop(p, c, Top)
      [] w \in SameDomain   -> SyncFromTop(SyncWindowCookie(p, {Top}, c), c, w)
      [] w \in CrossDomain  -> [p EXCEPT !.toTop[w] =
                                  Append(@, [cmd |-> "start", id |-> NoId, cookie |-> {c}])]

(* _syncServerCookie *)
SyncServerCookie(p, w, c) ==
    LET forWindows == [c EXCEPT !.sync = (@ \ {"server"}) \cup {"window"}]
        set == SetCookie(p, w, c)
    IN SyncBetweenWindows([set EXCEPT !.doc = Put(Delete(@, {SyncKey(c)}), forWindows)],
                          w, forWindows)

(* syncCookie: outdated cookies go, the actual one is applied. *)
ApplyActual(p, w) ==
    IF \E c \in Actual(p.doc) : "server" \in c.sync
    THEN SyncServerCookie(p, w, CHOOSE c \in Actual(p.doc) : TRUE)
    ELSE IF \E c \in Actual(p.doc) : "window" \in c.sync
    THEN SetCookie(p, w, CHOOSE c \in Actual(p.doc) : TRUE)
    ELSE p
SyncCookie(p, w) ==
    ApplyActual([p EXCEPT !.doc = Delete(@, KeysOf(Outdated(@)))], w)

-----------------------------------------------------------------------------
(* The page *)

Unchanged == UNCHANGED <<now, changes, jar, request, missed, stale>>

(* _syncClientCookie *)
SyncClientCookie(p, w, c) == SyncBetweenWindows([p EXCEPT !.doc = Put(@, c)], w, c)

(* document.cookie = ... in w *)
WriteCookie(w, v) ==
    LET c == [sync |-> {"client", "window"}, time |-> Seconds(now), value |-> v] IN
    /\ Len(SelectSeq(changes, LAMBDA d : d.by = "page")) < MaxWrites
    /\ changes' = Append(changes, [by |-> "page", time |-> now])
    /\ page' = SyncCookie(SyncClientCookie(SetCookie(page, w, c), w, c), w)
    /\ UNCHANGED <<now, jar, request, missed, stale>>

(* getCookie in w *)
ReadCookie(w) ==
    /\ page' = SyncCookie(page, w)
    /\ Unchanged

(* _onMsgReceived in the top window *)
TopReceivesStart(x) ==
    /\ page.toTop[x] # <<>> /\ Head(page.toTop[x]).cmd = "start"
    /\ LET c == CHOOSE d \in Head(page.toTop[x]).cookie : TRUE
           received == [page EXCEPT !.toTop[x] = Tail(@)]
       IN page' = SyncFromTop(SyncWindowCookie(received, {Top}, c), c, x)
    /\ Unchanged

(* resolveWrapper: the synchronisation ends with its last message. *)
Resolve(p, id, x) ==
    LET q == [p EXCEPT !.syncs[id].waiting = @ \ {x}] IN
    IF p.syncs[id].waiting = {x} THEN RemoveSyncCookie(q, p.syncs[id].cookie) ELSE q

TopReceivesDone(x) ==
    /\ page.toTop[x] # <<>> /\ Head(page.toTop[x]).cmd = "done"
    /\ page' = Resolve([page EXCEPT !.toTop[x] = Tail(@)], Head(page.toTop[x]).id, x)
    /\ Unchanged

(* _onMsgReceived in an iframe *)
FrameReceivesStart(x) ==
    /\ page.toFrame[x] # <<>>
    /\ LET m == Head(page.toFrame[x])
           received == [page EXCEPT !.toFrame[x] = Tail(@),
                                    !.toTop[x] = Append(@, [cmd |-> "done", id |-> m.id,
                                                            cookie |-> {}])]
       IN page' = SyncWindowCookie(received, {x}, m.cookie)
    /\ Unchanged

(* The mutated form counts one attempt too many. *)
OneMoreAttempt(attempts) == attempts <= MaxAttempts
AttemptsLeft(attempts)   == attempts < MaxAttempts

(* sendMsg, called again by its timer *)
MessageTimeout(id, x) ==
    /\ x \in page.syncs[id].waiting
    /\ IF AttemptsLeft(page.syncs[id].attempts[x])
       THEN /\ page' = [page EXCEPT !.syncs[id].attempts[x] = @ + 1,
                                    !.toFrame[x] = Append(@, [id |-> id,
                                                              cookie |-> page.syncs[id].cookie])]
            /\ UNCHANGED missed
       ELSE /\ page' = Resolve(page, id, x)
            /\ missed' = TRUE
    /\ UNCHANGED <<now, changes, jar, request, stale>>

Tick ==
    /\ now < MaxTime
    /\ now' = now + 1
    /\ UNCHANGED <<page, changes, jar, request, missed, stale>>

-----------------------------------------------------------------------------
(* Requests *)

(* The browser sends the synchronisation cookies along. *)
SendRequest(r) ==
    /\ request[r].state = "unsent"
    /\ \A q \in 1..(r - 1) : request[q].state # "unsent"
    /\ request' = [request EXCEPT ![r].state = "sent", ![r].carried = page.doc]
    /\ UNCHANGED <<page, now, changes, jar, missed, stale>>

(* r leaves a state in which an earlier request still is. *)
Overtakes(r) == \E q \in 1..(r - 1) : request[q].state = request[r].state

(* A change by one side that the other side has meanwhile changed. *)
Superseded(c) ==
    \E i \in DOMAIN changes :
        /\ changes[i].by = IF "client" \in c.sync THEN "server" ELSE "page"
        /\ changes[i].time > c.time

(* _applyClientSyncCookie *)
ApplyClientSyncCookie(r) ==
    LET fromClient == {c \in Actual(request[r].carried) : "client" \in c.sync} IN
    /\ request[r].state = "sent"
    /\ request' = [request EXCEPT ![r].state = "handled"]
    /\ jar' = IF fromClient = {} THEN jar ELSE (CHOOSE c \in fromClient : TRUE).value
    /\ stale' = (stale \/ Overtakes(r) \/ \E c \in fromClient : Superseded(c))
    /\ UNCHANGED <<page, now, changes, missed>>

(* generateSyncCookie: which of the carried cookies the answer deletes.  A cookie of the    *)
(* client that windows still exchange stays.                                                *)
DeletesCarried(carried) ==
    KeysOf(Outdated(carried)
           \cup {c \in Actual(carried) : "client" \in c.sync /\ "window" \notin c.sync})

(* isOutdatedSyncCookie: a cookie of the server replaces older ones of the server. *)
Replaces(carried, cookies) ==
    KeysOf({c \in Actual(carried) :
                \E s \in cookies : "server" \in c.sync /\ s.time > c.time})

(* processSetCookieHeader: the destination sets the cookie to a value of `set`, or not at   *)
(* all.                                                                                     *)
ProcessSetCookieHeader(r, set) ==
    LET cookies == {[sync |-> {"server"}, time |-> now, value |-> v] : v \in set} IN
    /\ request[r].state = "handled"
    /\ jar' = IF set = {} THEN jar ELSE CHOOSE v \in set : TRUE
    /\ changes' = IF set = {} THEN changes ELSE Append(changes, [by |-> "server", time |-> now])
    /\ request' = [request EXCEPT
                     ![r].state = "answered",
                     ![r].answer = [delete |-> DeletesCarried(request[r].carried)
                                                 \cup Replaces(request[r].carried, cookies),
                                    set    |-> cookies]]
    /\ stale' = (stale \/ Overtakes(r))
    /\ UNCHANGED <<page, now, missed>>

(* The browser applies the Set-Cookie headers of the answer. *)
ReceiveAnswer(r) ==
    LET answer == request[r].answer
        left == Delete(page.doc, answer.delete)
    IN
    /\ request[r].state = "answered"
    /\ page' = [page EXCEPT !.doc = IF answer.set = {} THEN left
                                    ELSE Put(left, CHOOSE c \in answer.set : TRUE)]
    /\ request' = [request EXCEPT ![r].state = "over", ![r].answer = NoAnswer,
                                  ![r].carried = <<>>]
    /\ stale' = (stale \/ Overtakes(r) \/ \E c \in answer.set : Superseded(c))
    /\ UNCHANGED <<now, changes, jar, missed>>

-----------------------------------------------------------------------------
Next ==
    \/ \E w \in Windows, v \in Values : WriteCookie(w, v)
    \/ \E w \in Windows : ReadCookie(w)
    \/ \E x \in CrossDomain :
        \/ TopReceivesStart(x) \/ TopReceivesDone(x) \/ FrameReceivesStart(x)
        \/ \E id \in DOMAIN page.syncs : MessageTimeout(id, x)
    \/ Tick
    \/ \E r \in Requests :
        \/ SendRequest(r) \/ ApplyClientSyncCookie(r) \/ ReceiveAnswer(r)
        \/ \E set \in {{}} \cup {{v} : v \in Values} : ProcessSetCookieHeader(r, set)

Spec == Init /\ [][Next]_vars

-----------------------------------------------------------------------------
(* Properties *)

(* No message between windows is under way or awaited. *)
Exchanged ==
    /\ \A i \in DOMAIN page.syncs : page.syncs[i].waiting = {}
    /\ \A x \in CrossDomain : page.toFrame[x] = <<>> /\ page.toTop[x] = <<>>

(* Two changes whose order their times do not tell: a window knows only the second of its   *)
(* writes, the proxy the millisecond.                                                       *)
Ambiguous ==
    \E i, j \in DOMAIN changes :
        /\ i < j
        /\ IF "page" \in {changes[i].by, changes[j].by}
           THEN Seconds(changes[i].time) = Seconds(changes[j].time)
           ELSE changes[i].time = changes[j].time

(* When the windows have exchanged what they know, and no cookie of the server waits to be  *)
(* read, all windows show the page the same cookie.  A window that does not answer in time  *)
(* is not waited for, and two writes in a second cannot be told apart.                      *)
WindowsAgree ==
    Exchanged /\ ~missed /\ ~Ambiguous /\ (\A c \in Range(page.doc) : "server" \notin c.sync) =>
        \A v, w \in Windows : page.local[v] = page.local[w]

(* A window cookie does not outlive its synchronisation: a leftover would be applied again  *)
(* by every read, over what was written since.                                              *)
NoLeftover ==
    Exchanged => \A c \in Range(page.doc) : "window" \notin c.sync

(* What the windows show is what the destination is sent: it is in the jar, or a            *)
(* synchronisation cookie carries it there with the next request.                           *)
ServerWillAgree ==
    /\ Exchanged /\ ~missed /\ ~Ambiguous /\ ~stale
    /\ \A c \in Range(page.doc) : "server" \notin c.sync
    /\ \A r \in Requests : request[r].state \in {"unsent", "over"}
    => \/ page.local[Top] = jar
       \/ \E c \in Actual(page.doc) : "client" \in c.sync /\ c.value = page.local[Top]

(* What a synchronisation leaves behind is removed, and the server has the value that the   *)
(* windows have, or a request will carry it.                                                *)
CookiesSettle == NoLeftover /\ ServerWillAgree

===============================================================================
