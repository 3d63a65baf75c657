--------------------------- MODULE WindowMessages ---------------------------
(***************************************************************************)
(* Messages between the windows of a page (client/sandbox/event/           *)
(* message.ts): what pages post to each other, the service messages of     *)
(* hammerhead, and the pings of a frame by the top window.                 *)
(*                                                                         *)
(* A service message to a window of the same domain is a call of its       *)
(* receiver, from a timer or, when the sender unloads, at once.  Anything  *)
(* else is posted natively, to any origin, within a wrapper that tells     *)
(* what the page asked for.                                                *)
(*                                                                         *)
(* The frame "same" is of the origin of the top window until it navigates, *)
(* "cross" of another one.  A frame unloads, leaves, and comes back as     *)
(* another document, in which nothing listens before it is attached.       *)
(***************************************************************************)
EXTENDS Naturals, Sequences, FiniteSets

CONSTANT Bounds   \* of a behaviour: records of the following
\* posts       messages of the pages
\* services    service messages that are not of a ping
\* pings       pings
\* requests    their requests and answers
\* unloads     documents that unload

TopWindow   == "top"
Frames      == {"same", "cross"}
PageWindows == Frames \cup {TopWindow}
Origins     == {"p", "q"}
Targets     == Origins \cup {"*", "/", "none"}   \* the target origin that a page gives
PingCmds    == {"c1", "c2"}
NoCmd       == "null"
NoPing      == 0

VARIABLES
    bound,     \* one of Bounds
    docs,      \* the windows' documents
    messages,  \* all that were sent, see Message
    received,  \* history: the service messages as they were received, by their numbers
    pings,     \* the pings of the top window, in their order
    ping       \* its pingCallback, as the ping it belongs to, and pingCmd

windowsVars == <<bound, docs, messages, received, pings, ping>>

(* number counts a window's documents; attached is hammerhead's attach, unloaded isWindowUnloaded. *)
Documents == [origin : Origins, number : Nat, attached : BOOLEAN, unloaded : BOOLEAN, present : BOOLEAN]

Listens(w) == docs[w].present /\ docs[w].attached
SameDomain(v, w) == docs[v].origin = docs[w].origin

(* A service message is a command of a ping or any other; what a page posts is a sequence of *)
(* wrappers around its data.  at is where it is: in iframeInternalMsgQueue, posted natively, *)
(* or done, that is delivered or lost; timer tells that its timer has still to fire.  number *)
(* and heard tell of the target's document when it was sent, calls how often its receiver    *)
(* was called, shown that the target's page got it, due that it would have without a proxy.  *)
Message(kind, from, to, cmd, wrappers) ==
    [kind |-> kind, from |-> from, to |-> to, cmd |-> cmd, wrappers |-> wrappers,
     at |-> "posted", direct |-> FALSE, timer |-> FALSE, number |-> docs[to].number, heard |-> Listens(to), calls |-> 0,
     asked |-> "*", twice |-> FALSE, origin |-> docs[from].origin, shown |-> FALSE, due |-> FALSE]

WindowsTypeOK ==
    /\ docs \in [PageWindows -> Documents]
    /\ \A i \in DOMAIN messages : LET m == messages[i] IN
        /\ m.kind \in {"user", "service", "request", "response"} /\ m.at \in {"queued", "posted", "done"}
        /\ m.timer => m.direct
    /\ received \in Seq(DOMAIN messages)
    /\ \A p \in DOMAIN pings : pings[p].state \in {"pending", "resolved", "rejected"} /\ pings[p].target \in Frames
    /\ ping.callback \in {NoPing} \cup DOMAIN pings /\ ping.cmd \in PingCmds \cup {NoCmd}

WindowsInit ==
    /\ bound \in Bounds
    /\ docs = [w \in PageWindows |->
                  [origin |-> IF w = "cross" THEN "q" ELSE "p", number |-> 1, attached |-> TRUE,
                   unloaded |-> FALSE, present |-> TRUE]]
    /\ messages = <<>> /\ received = <<>> /\ pings = <<>>
    /\ ping = [callback |-> NoPing, cmd |-> NoCmd]

-----------------------------------------------------------------------------
(* Receiving *)

State == [messages |-> messages, received |-> received, pings |-> pings, ping |-> ping]
Becomes(st) ==
    /\ messages' = st.messages /\ received' = st.received /\ pings' = st.pings /\ ping' = st.ping

NoCallback == [callback |-> NoPing, cmd |-> NoCmd]

(* cleanTimeouts of a ping: it forgets the callback of whichever ping has it. *)
Settled(st, p, result) ==
    [st EXCEPT !.pings[p].state = result, !.pings[p].interval = FALSE, !.pings[p].timeout = FALSE,
               !.ping = NoCallback]

(* Mutated form: any answer is one to the ping. *)
IsAnyPingResponse(st, m) == m.kind = "response" /\ st.ping.cmd # NoCmd
IsPingResponse(st, m)    == m.kind = "response" /\ st.ping.cmd # NoCmd /\ m.cmd = st.ping.cmd

(* _onMessage: a service message, of a window that is still there. *)
OnMessage(st, i) ==
    LET m      == st.messages[i]
        called == [st EXCEPT !.messages[i].calls = @ + 1, !.received = Append(@, i)]
    IN IF m.to = TopWindow /\ IsPingResponse(st, m) THEN Settled(called, st.ping.callback, "resolved") ELSE called

(* Mutated form: the target origin is not looked at. *)
AnyOrigin(w, target)       == TRUE
SameOriginCheck(w, target) == target \in {"/", docs[w].origin}

(* Mutated form: service messages, which have no target, are shown as well. *)
ShownUnlessTargeted(m) ==
    m.kind # "user" \/ Head(m.wrappers).targetUrl = "*" \/ SameOriginCheck(m.to, Head(m.wrappers).targetUrl)

(* _onWindowMessage: what the page sees is compared with its own origin, and a relative      *)
(* target is resolved against itself.                                                        *)
OnWindowMessage(m) ==
    m.kind = "user" /\ (Head(m.wrappers).targetUrl = "*" \/ SameOriginCheck(m.to, Head(m.wrappers).targetUrl))

(* The browser without the proxy: the target is an origin, or that of the sender. *)
Due(m) ==
    /\ m.kind = "user"
    /\ m.asked = "*" \/ docs[m.to].origin = (IF m.asked \in {"/", "none"} THEN m.origin ELSE m.asked)

(* Mutated form: the inner wrapper stays. *)
OuterUnwrapped(wrappers) == Tail(wrappers)

(* What the page reads of the event: MessageEvent's data, without one wrapper or, if what is *)
(* in it looks like another, two; and its origin.                                            *)
OriginMessageData(wrappers) ==
    IF Len(wrappers) > 1 THEN Tail(Tail(wrappers)) ELSE Tail(wrappers)
OriginOf(wrappers) == Head(wrappers).originUrl

-----------------------------------------------------------------------------
(* Sending *)

SentOf(kinds) == Cardinality({i \in DOMAIN messages : messages[i].kind \in kinds})

Wrapper(w, targetUrl) == [originUrl |-> docs[w].origin, targetUrl |-> targetUrl]

(* postMessage: what is posted is wrapped, and posted to any origin.  A page that has put a  *)
(* function of its own in the place of its window's postMessage hands the wrapped message to *)
(* the one that was there, which wraps it once more.                                         *)
TargetUrl(w, target) == IF target = "none" THEN docs[w].origin ELSE target
Wrappers(w, target, twice) ==
    (IF twice THEN <<Wrapper(w, "*")>> ELSE <<>>) \o <<Wrapper(w, TargetUrl(w, target))>>

PostMessage(w, v, target, twice) ==
    /\ SentOf({"user"}) < bound.posts
    /\ Listens(w) /\ docs[v].present /\ (twice => w = v)
    /\ messages' = Append(messages,
                          [Message("user", w, v, NoCmd, Wrappers(w, target, twice))
                              EXCEPT !.asked = target, !.twice = twice])
    /\ UNCHANGED <<bound, docs, received, pings, ping>>

(* sendFunc, when it is called by a timer, by the unloading of its window or at once.  The   *)
(* target may have gone, be another document, or have become one of another domain.          *)
CallReceiver(st, i) ==
    LET m == st.messages[i]
    IN IF Listens(m.to) /\ docs[m.to].origin = m.origin THEN OnMessage(st, i) ELSE st
SendFunc(st, i) == [CallReceiver(st, i) EXCEPT !.messages[i].at = "done"]

CanSendDirectly(w, v) == SameDomain(w, v) /\ Listens(v)

(* After the flush of the queue there is nobody to flush it again. *)
Delayed(st, w, i) ==
    IF docs[w].unloaded THEN SendFunc(st, i)
    ELSE [st EXCEPT !.messages[i].at = "queued", !.messages[i].timer = TRUE]

SendServiceMsg(st, w, v, kind, cmd) ==
    LET i    == Len(st.messages) + 1
        sent == [st EXCEPT !.messages = Append(@, [Message(kind, w, v, cmd, <<>>)
                                                      EXCEPT !.direct = CanSendDirectly(w, v)])]
    IN IF CanSendDirectly(w, v) THEN Delayed(sent, w, i) ELSE sent

Send(w, v) ==
    /\ SentOf({"service"}) < bound.services
    /\ docs[w].attached /\ docs[w].present /\ docs[v].present /\ w # v
    /\ Becomes(SendServiceMsg(State, w, v, "service", NoCmd))
    /\ UNCHANGED <<bound, docs>>

(* The timers of a window fire in the order in which they were set.  One whose message was   *)
(* sent when the window unloaded was not cleared, as it is a timer of the top window, and    *)
(* finds nothing in the queue.                                                               *)
FirstTimer(i) ==
    messages[i].timer /\ \A j \in 1..(i - 1) : messages[j].from = messages[i].from => ~messages[j].timer

(* Mutated form: a message is sent whether or not it is in the queue. *)
SendAnyway(st, i) == SendFunc(st, i)
RemoveInternalMsgFromQueue(st, i) == IF st.messages[i].at = "queued" THEN SendFunc(st, i) ELSE st

TimerFires(i) ==
    /\ FirstTimer(i)
    /\ Becomes(RemoveInternalMsgFromQueue([State EXCEPT !.messages[i].timer = FALSE], i))
    /\ UNCHANGED <<bound, docs>>

(* A native message reaches the document that is there; the source of one whose window was   *)
(* removed is null.                                                                          *)
FirstPosted(i) ==
    /\ messages[i].at = "posted"
    /\ \A j \in 1..(i - 1) :
        messages[j].from = messages[i].from /\ messages[j].to = messages[i].to => messages[j].at # "posted"

Delivered(st, i) ==
    LET m == st.messages[i]
    IN IF ~Listens(m.to) THEN st
       ELSE LET shown == [st EXCEPT !.messages[i].shown = OnWindowMessage(m), !.messages[i].due = Due(m)]
            IN IF m.kind # "user" /\ docs[m.from].present THEN OnMessage(shown, i) ELSE shown

MessageArrives(i) ==
    /\ FirstPosted(i)
    /\ Becomes([Delivered(State, i) EXCEPT !.messages[i].at = "done"])
    /\ UNCHANGED <<bound, docs>>

-----------------------------------------------------------------------------
(* Documents *)

(* The handler of UNLOAD_EVENT: what is in the queue of the window is sent, in its order,    *)
(* which is that of the numbers.  sent[n] is what it is after the first n messages.          *)
SentIfOf(st, w, i) == IF st.messages[i].from = w THEN RemoveInternalMsgFromQueue(st, i) ELSE st

(* Mutated form: the last message is sent first. *)
FlushedBackwards(st, w) ==
    LET count == Len(st.messages)
        sent[n \in 0..count] == IF n = 0 THEN st ELSE SentIfOf(sent[n - 1], w, count + 1 - n)
    IN sent[count]

Flushed(st, w) ==
    LET sent[n \in 0..Len(st.messages)] == IF n = 0 THEN st ELSE SentIfOf(sent[n - 1], w, n)
    IN sent[Len(st.messages)]

Unloads ==
    Cardinality({w \in Frames : docs[w].unloaded}) + Cardinality({w \in Frames : docs[w].number = 2})

Unload(w) ==
    /\ Unloads < bound.unloads
    /\ w \in Frames /\ Listens(w) /\ ~docs[w].unloaded
    /\ Becomes(Flushed(State, w))
    /\ docs' = [docs EXCEPT ![w].unloaded = TRUE]
    /\ UNCHANGED bound

(* The timers of a window of another domain than the top window are its own and go with it. *)
LoseTimers(w) ==
    [i \in DOMAIN messages |->
        IF messages[i].from = w /\ ~SameDomain(w, TopWindow) THEN [messages[i] EXCEPT !.timer = FALSE]
        ELSE messages[i]]

RemoveFrame(w) ==
    /\ docs[w].unloaded /\ docs[w].present
    /\ docs' = [docs EXCEPT ![w].present = FALSE, ![w].attached = FALSE]
    /\ messages' = LoseTimers(w)
    /\ UNCHANGED <<bound, received, pings, ping>>

Navigate(w, origin) ==
    /\ docs[w].unloaded /\ docs[w].present /\ docs[w].number = 1
    /\ docs' = [docs EXCEPT ![w] = [@ EXCEPT !.number = 2, !.attached = FALSE, !.unloaded = FALSE,
                                             !.origin = origin]]
    /\ messages' = LoseTimers(w)
    /\ UNCHANGED <<bound, received, pings, ping>>

Attach(w) ==
    /\ docs[w].present /\ ~docs[w].attached
    /\ docs' = [docs EXCEPT ![w].attached = TRUE]
    /\ UNCHANGED <<bound, messages, received, pings, ping>>

-----------------------------------------------------------------------------
(* Pings *)

(* A request has the command of the last ping, whichever ping sends it. *)
SendPingRequest(st, p) ==
    LET f == st.pings[p].target
    IN IF docs[f].present THEN SendServiceMsg(st, TopWindow, f, "request", st.ping.cmd) ELSE st

CanAsk == SentOf({"request", "response"}) < bound.requests

(* alone is TRUE until another ping is found to be pending at the same time; used tells that *)
(* an earlier one had the same command.  The first has "c1", the name is of no importance.   *)
PingIframe(f, cmd) ==
    /\ Len(pings) < bound.pings /\ CanAsk
    /\ pings = <<>> => cmd = "c1"
    /\ LET alone == \A p \in DOMAIN pings : pings[p].state # "pending"
           begun == [target |-> f, cmd |-> cmd, state |-> "pending", interval |-> TRUE, timeout |-> TRUE,
                     alone |-> alone, used |-> \E p \in DOMAIN pings : pings[p].cmd = cmd]
           others == [p \in DOMAIN pings |-> IF pings[p].state = "pending" THEN [pings[p] EXCEPT !.alone = FALSE]
                                             ELSE pings[p]]
           st == [State EXCEPT !.pings = Append(others, begun),
                               !.ping = [callback |-> Len(pings) + 1, cmd |-> cmd]]
       IN Becomes(SendPingRequest(st, Len(pings) + 1))
    /\ UNCHANGED <<bound, docs>>

PingAgain(p) ==
    /\ CanAsk /\ pings[p].interval
    /\ Becomes(SendPingRequest(State, p))
    /\ UNCHANGED <<bound, docs>>

PingTimeout(p) ==
    /\ pings[p].timeout
    /\ Becomes(Settled(State, p, "rejected"))
    /\ UNCHANGED <<bound, docs>>

(* A frame that has got a request answers it, with its command (the test runner's part). *)
AnswerPing(i) ==
    /\ CanAsk
    /\ messages[i].kind = "request" /\ messages[i].calls > 0
    /\ Listens(messages[i].to) /\ docs[messages[i].to].number = messages[i].number
    /\ Cardinality({j \in DOMAIN messages : messages[j].kind = "response" /\ messages[j].from = messages[i].to})
         < Cardinality({j \in DOMAIN messages : messages[j].kind = "request" /\ messages[j].to = messages[i].to
                                                   /\ messages[j].calls > 0})
    /\ Becomes(SendServiceMsg(State, messages[i].to, TopWindow, "response", messages[i].cmd))
    /\ UNCHANGED <<bound, docs>>

WindowsNext ==
    \/ \E v, w \in PageWindows :
        \/ \E target \in Targets, twice \in BOOLEAN : PostMessage(w, v, target, twice)
        \/ Send(w, v)
    \/ \E i \in DOMAIN messages : TimerFires(i) \/ MessageArrives(i) \/ AnswerPing(i)
    \/ \E w \in Frames : Unload(w) \/ RemoveFrame(w) \/ Attach(w) \/ \E o \in Origins : Navigate(w, o)
    \/ \E f \in Frames, cmd \in PingCmds : PingIframe(f, cmd)
    \/ \E p \in DOMAIN pings : PingAgain(p) \/ PingTimeout(p)

WindowsSpec == WindowsInit /\ [][WindowsNext]_windowsVars

-----------------------------------------------------------------------------
(* Properties *)

Numbers == DOMAIN messages
Service == {i \in Numbers : messages[i].kind # "user"}

(* The page of a window gets what other pages posted to it, if they meant its origin, reads  *)
(* their data and origin, and gets nothing else.  Nothing is said of a relative target,      *)
(* which the receiver takes for its own origin, nor of the target of what was wrapped twice, *)
(* which is forgotten (message.ts:107-138, 215-225).                                         *)
PagesGetWhatIsPosted ==
    \A i \in Numbers : LET m == messages[i] IN
        /\ m.shown # m.due => m.asked = "/" \/ m.twice
        /\ m.shown => /\ m.kind = "user"
                      /\ OriginMessageData(m.wrappers) = <<>> /\ OriginOf(m.wrappers) = m.origin

(* A service message is received once, also if its window unloads while its timer runs; and  *)
(* it is not lost unless its target was no attached document, is another one since, or was   *)
(* left by a window whose native messages then have no source (message.ts:227-266).          *)
NoMessageIsLostOrDoubled ==
    \A i \in Service : LET m == messages[i] IN
        /\ m.calls <= 1
        /\ m.at = "done" /\ m.calls = 0 =>
               ~m.heard \/ docs[m.to].number # m.number \/ ~Listens(m.to) \/ (~m.direct /\ ~docs[m.from].present)

(* Messages of one window to another that go the same way are received in their order.       *)
MessagesAreInOrder ==
    \A a, b \in DOMAIN received :
        LET m == messages[received[a]] n == messages[received[b]] IN
        a < b /\ m.from = n.from /\ m.to = n.to /\ m.direct = n.direct => received[a] < received[b]

(* A ping that was alone, with a command of its own, is resolved if its frame has answered   *)
(* and only then; one that is settled sends no more requests (message.ts:93-105, 269-311).   *)
PingsTellTheTruth ==
    \A p \in DOMAIN pings :
        /\ pings[p].state # "pending" <=> ~pings[p].interval /\ ~pings[p].timeout
        /\ pings[p].alone /\ ~pings[p].used =>
               LET answers == {i \in Service : messages[i].kind = "response" /\ messages[i].calls > 0
                                                  /\ messages[i].cmd = pings[p].cmd}
               IN /\ pings[p].state = "resolved" => \E i \in answers : messages[i].from = pings[p].target
                  /\ pings[p].state = "pending" => answers = {}

(* The messages of a page's windows reach whom they are for, once, in order and as they were *)
(* sent, and a ping is resolved by its answer.                                               *)
WindowMessagesArrive ==
    PagesGetWhatIsPosted /\ NoMessageIsLostOrDoubled /\ MessagesAreInOrder /\ PingsTellTheTruth
=============================================================================
