--------------------------- MODULE Windows_proofs ---------------------------
(***************************************************************************)
(* Proofs about the windows of a page.                                     *)
(*                                                                         *)
(* ActiveWindow, for any number of iframes and any bound on the messages   *)
(* under way: one inductive invariant says that an active iframe is        *)
(* recorded or has a message under way (whatever happens to it), the other *)
(* which phases an undisturbed iframe can be in.                           *)
(*                                                                         *)
(* WindowMessages, for any number of messages, pings and unloads: the      *)
(* inductive invariant says what each message is, how far it has come,     *)
(* that none overtakes another and whom the callback of a ping belongs to. *)
(* Its functions are of a whole state, so each of them has a lemma that    *)
(* says what it leaves sound; the steps are made of these.                 *)
(***************************************************************************)
EXTENDS ActiveWindow, WindowMessages, TLAPS, SequenceTheorems, WellFoundedInduction

-----------------------------------------------------------------------------
(* ActiveWindow *)

(* Every variable keeps its type in every behaviour of the trackers.                        *)
THEOREM TypeCorrect == Spec => []TypeOK
<1> USE TopAssumption, BoundAssumption DEF TypeOK, Windows
<1>1. Init => TypeOK
  BY DEF Init, Attached
<1>2. TypeOK /\ [Next]_vars => TypeOK'
  <2> SUFFICES ASSUME TypeOK, [Next]_vars PROVE TypeOK'
    OBVIOUS
  <2>1. CASE FocusTop
    <3>1. CASE active[Top]
      BY <2>1, <3>1 DEF FocusTop
    <3>2. CASE ~active[Top]
      <4>1. PrevActiveWindowNotified \in [Iframes -> Nat]
        BY DEF PrevActiveWindowNotified
      <4>2. active' = [active EXCEPT ![Top] = TRUE] /\ fromTop' = PrevActiveWindowNotified
            /\ recorded' = Top /\ focused' = {Top} /\ UNCHANGED <<toTop, present, misled>>
        BY <2>1, <3>2 DEF FocusTop
      <4>3. QED
        BY <4>1, <4>2
    <3>3. QED
      BY <3>1, <3>2
  <2>2. ASSUME NEW f \in Iframes, FocusIframe(f) PROVE TypeOK'
    <3>1. CASE active[f]
      BY <2>2, <3>1 DEF FocusIframe
    <3>2. CASE ~active[f]
      <4>1. active' = [active EXCEPT ![f] = TRUE] /\ toTop' = [toTop EXCEPT ![f] = @ + 1]
            /\ focused' = {f} /\ UNCHANGED <<recorded, fromTop, present, misled>>
        BY <2>2, <3>2 DEF FocusIframe, MakeIframeActive
      <4>2. QED
        BY <4>1
    <3>3. QED
      BY <3>1, <3>2
  <2>3. ASSUME NEW f \in Iframes, FocusFromBlurHandler(f) PROVE TypeOK'
    BY <2>3 DEF FocusFromBlurHandler, MakeIframeActive
  <2>4. ASSUME NEW f \in Iframes, TopReceivesActivated(f) PROVE TypeOK'
    BY <2>4 DEF TopReceivesActivated, RecordActiveWindow, PrevActiveWindowNotified, TopDeactivated
  <2>5. ASSUME NEW f \in Iframes, ActivatedWithoutSource(f) PROVE TypeOK'
    BY <2>5 DEF ActivatedWithoutSource
  <2>6. ASSUME NEW f \in Iframes, IframeReceivesDeactivated(f) PROVE TypeOK'
    BY <2>6 DEF IframeReceivesDeactivated
  <2>7. ASSUME NEW f \in Iframes, RemoveIframe(f) PROVE TypeOK'
    BY <2>7 DEF RemoveIframe
  <2>8. ASSUME NEW f \in Iframes, ReloadIframe(f) PROVE TypeOK'
    BY <2>8 DEF ReloadIframe
  <2>9. CASE UNCHANGED vars
    BY <2>9 DEF vars
  <2>10. QED
    BY <2>1, <2>2, <2>3, <2>4, <2>5, <2>6, <2>7, <2>8, <2>9 DEF Next
<1>3. QED
  BY <1>1, <1>2, PTL DEF Spec

-----------------------------------------------------------------------------
(* Telling the previous window never takes a message away, and adds one exactly for the     *)
(* recorded window if it is still there.                                                    *)
LEMMA NotifiedLemma ==
    ASSUME TypeOK
    PROVE  /\ PrevActiveWindowNotified \in [Iframes -> Nat]
           /\ \A g \in Iframes : PrevActiveWindowNotified[g] =
                 IF g = recorded /\ g \in present THEN fromTop[g] + 1 ELSE fromTop[g]
BY DEF TypeOK, PrevActiveWindowNotified

(* The agreement invariant is inductive.                                                    *)
LEMMA AgreementStep ==
    ASSUME TypeOK, Agreement, [Next]_vars
    PROVE  Agreement'
<1> USE TopAssumption, BoundAssumption
     DEF TypeOK, Windows, Agreement, TopAgreesWithItself, ActiveIsRecordedOrTold
<1>0. /\ PrevActiveWindowNotified \in [Iframes -> Nat]
      /\ \A g \in Iframes : PrevActiveWindowNotified[g] =
            IF g = recorded /\ g \in present THEN fromTop[g] + 1 ELSE fromTop[g]
  BY NotifiedLemma
<1>1. CASE FocusTop
  BY <1>0, <1>1 DEF FocusTop
<1>2. ASSUME NEW f \in Iframes, FocusIframe(f) PROVE Agreement'
  BY <1>2 DEF FocusIframe, MakeIframeActive
<1>3. ASSUME NEW f \in Iframes, FocusFromBlurHandler(f) PROVE Agreement'
  BY <1>3 DEF FocusFromBlurHandler, MakeIframeActive
<1>4. ASSUME NEW f \in Iframes, TopReceivesActivated(f) PROVE Agreement'
  <2>1. /\ toTop' = [toTop EXCEPT ![f] = @ - 1]
        /\ fromTop' = PrevActiveWindowNotified /\ recorded' = f
        /\ active' = [active EXCEPT ![Top] = FALSE]
        /\ present' = present
    BY <1>4 DEF TopReceivesActivated, RecordActiveWindow, TopDeactivated
  <2>2. TopAgreesWithItself'
    BY <2>1
  <2>3. ActiveIsRecordedOrTold'
    <3> SUFFICES ASSUME NEW g \in present, active'[g], g # f
                 PROVE  toTop'[g] > 0 \/ fromTop'[g] > 0
      BY <2>1
    <3>1. active[g] /\ toTop'[g] = toTop[g]
      BY <2>1
    <3>2. fromTop'[g] = IF g = recorded /\ g \in present THEN fromTop[g] + 1 ELSE fromTop[g]
      BY <2>1, <1>0
    <3>3. QED
      BY <3>1, <3>2
  <2>4. QED
    BY <2>2, <2>3
<1>5. ASSUME NEW f \in Iframes, ActivatedWithoutSource(f) PROVE Agreement'
  BY <1>5 DEF ActivatedWithoutSource
<1>6. ASSUME NEW f \in Iframes, IframeReceivesDeactivated(f) PROVE Agreement'
  BY <1>6 DEF IframeReceivesDeactivated
<1>7. ASSUME NEW f \in Iframes, RemoveIframe(f) PROVE Agreement'
  BY <1>7 DEF RemoveIframe
<1>8. ASSUME NEW f \in Iframes, ReloadIframe(f) PROVE Agreement'
  BY <1>8 DEF ReloadIframe
<1>9. CASE UNCHANGED vars
  BY <1>9 DEF vars
<1>10. QED
  BY <1>1, <1>2, <1>3, <1>4, <1>5, <1>6, <1>7, <1>8, <1>9 DEF Next

(* The top window is active exactly when it records itself; an iframe that thinks it is     *)
(* active is recorded, or a message that settles it is under way, however the iframes are   *)
(* focused, removed and reloaded.                                                           *)
THEOREM AgreementHolds == Spec => []Agreement
<1>1. Init => Agreement
  BY TopAssumption DEF Init, Attached, Agreement, TopAgreesWithItself, ActiveIsRecordedOrTold, Windows
<1>2. TypeOK /\ Agreement /\ [Next]_vars => Agreement'
  BY AgreementStep
<1>3. QED
  BY <1>1, <1>2, TypeCorrect, PTL DEF Spec

(* When all messages have been delivered at most one window of the page is active.          *)
THEOREM OneActive == Spec => []AtMostOneActive
<1>1. TypeOK /\ Agreement => AtMostOneActive
  <2> SUFFICES ASSUME TypeOK, TopAgreesWithItself, ActiveIsRecordedOrTold,
                      \A f \in present : Quiet(f),
                      NEW w \in present \cup {Top}, active[w]
               PROVE  w = recorded
    BY DEF AtMostOneActive, Agreement
  <2>1. CASE w = Top
    BY <2>1 DEF TopAgreesWithItself
  <2>2. CASE w \in present
    BY <2>2 DEF ActiveIsRecordedOrTold, Quiet, TypeOK
  <2>3. QED
    BY <2>1, <2>2
<1>2. QED
  BY <1>1, TypeCorrect, AgreementHolds, PTL

-----------------------------------------------------------------------------
(* The four phases of an undisturbed iframe. *)
Idle(f) == ~active[f] /\ Quiet(f) /\ recorded # f
Announcing(f) == active[f] /\ toTop[f] = 1 /\ fromTop[f] = 0 /\ recorded # f
Current(f) == active[f] /\ Quiet(f) /\ recorded = f
Dismissed(f) == active[f] /\ toTop[f] = 0 /\ fromTop[f] = 1 /\ recorded # f

InPhase(f) == Idle(f) \/ Announcing(f) \/ Current(f) \/ Dismissed(f)

(* Every step takes an undisturbed iframe from a phase to a phase.                          *)
LEMMA PhasesStep ==
    ASSUME TypeOK, Phases, [Next]_vars
    PROVE  Phases'
<1> USE TopAssumption, BoundAssumption
     DEF TypeOK, Windows, InPhase, Idle, Announcing, Current, Dismissed, Quiet
<1> SUFFICES ASSUME NEW g \in present' \ misled' PROVE InPhase(g)'
  BY DEF Phases
<1>0. /\ PrevActiveWindowNotified \in [Iframes -> Nat]
      /\ \A h \in Iframes : PrevActiveWindowNotified[h] =
            IF h = recorded /\ h \in present THEN fromTop[h] + 1 ELSE fromTop[h]
  BY NotifiedLemma
<1>a. g \in present /\ g \notin misled /\ g \in Iframes /\ g # Top
  BY DEF Next, vars, FocusTop, FocusIframe, FocusFromBlurHandler, TopReceivesActivated,
         ActivatedWithoutSource, IframeReceivesDeactivated, RemoveIframe, ReloadIframe
<1>b. InPhase(g)
  BY <1>a DEF Phases
<1>1. CASE FocusTop
  BY <1>0, <1>1, <1>a, <1>b DEF FocusTop
<1>2. ASSUME NEW f \in Iframes, FocusIframe(f) PROVE InPhase(g)'
  BY <1>2, <1>a, <1>b DEF FocusIframe, MakeIframeActive
<1>3. ASSUME NEW f \in Iframes, FocusFromBlurHandler(f) PROVE InPhase(g)'
  BY <1>3, <1>a, <1>b DEF FocusFromBlurHandler, MakeIframeActive
<1>4. ASSUME NEW f \in Iframes, TopReceivesActivated(f) PROVE InPhase(g)'
  <2>1. /\ toTop' = [toTop EXCEPT ![f] = @ - 1] /\ toTop[f] > 0
        /\ fromTop' = PrevActiveWindowNotified /\ recorded' = f
        /\ active' = [active EXCEPT ![Top] = FALSE]
    BY <1>4 DEF TopReceivesActivated, RecordActiveWindow, TopDeactivated
  <2>2. fromTop'[g] = IF g = recorded THEN fromTop[g] + 1 ELSE fromTop[g]
    BY <2>1, <1>0, <1>a
  <2>3. active'[g] = active[g] /\ toTop'[g] = IF g = f THEN toTop[g] - 1 ELSE toTop[g]
    BY <2>1, <1>a
  <2>4. CASE g = f
    BY <2>1, <2>2, <2>3, <2>4, <1>a, <1>b
  <2>5. CASE g # f
    BY <2>1, <2>2, <2>3, <2>5, <1>a, <1>b
  <2>6. QED
    BY <2>4, <2>5
<1>5. ASSUME NEW f \in Iframes, ActivatedWithoutSource(f) PROVE InPhase(g)'
  BY <1>5, <1>a, <1>b DEF ActivatedWithoutSource
<1>6. ASSUME NEW f \in Iframes, IframeReceivesDeactivated(f) PROVE InPhase(g)'
  BY <1>6, <1>a, <1>b DEF IframeReceivesDeactivated
<1>7. ASSUME NEW f \in Iframes, RemoveIframe(f) PROVE InPhase(g)'
  BY <1>7, <1>a, <1>b DEF RemoveIframe
<1>8. ASSUME NEW f \in Iframes, ReloadIframe(f) PROVE InPhase(g)'
  BY <1>8, <1>a, <1>b DEF ReloadIframe
<1>9. CASE UNCHANGED vars
  BY <1>9, <1>b DEF vars
<1>10. QED
  BY <1>1, <1>2, <1>3, <1>4, <1>5, <1>6, <1>7, <1>8, <1>9 DEF Next

(* An iframe that is never reloaded nor activated twice at once is always in one of the     *)
(* four phases of its handshake with the top window.                                        *)
THEOREM UndisturbedPhases == Spec => []Phases
<1>1. Init => Phases
  BY TopAssumption DEF Init, Attached, Phases, Quiet, Windows
<1>2. TypeOK /\ Phases /\ [Next]_vars => Phases'
  BY PhasesStep
<1>3. QED
  BY <1>1, <1>2, TypeCorrect, PTL DEF Spec

-----------------------------------------------------------------------------
(* WindowMessages *)

(* The values that the parts of a state have. *)
MessageSet ==
    [kind : {"user", "service", "request", "response"}, from : PageWindows, to : PageWindows,
     cmd : PingCmds \cup {NoCmd}, wrappers : Seq([originUrl : Origins, targetUrl : Targets]),
     at : {"queued", "posted", "done"}, direct : BOOLEAN, timer : BOOLEAN, number : {1, 2},
     heard : BOOLEAN, calls : Nat, asked : Targets, twice : BOOLEAN, origin : Origins,
     shown : BOOLEAN, due : BOOLEAN]
PingSet ==
    [target : Frames, cmd : PingCmds, state : {"pending", "resolved", "rejected"}, interval : BOOLEAN,
     timeout : BOOLEAN, alone : BOOLEAN, used : BOOLEAN]
States ==
    [messages : Seq(MessageSet), received : Seq(Nat), pings : Seq(PingSet),
     ping : [callback : Nat, cmd : PingCmds \cup {NoCmd}]]

(* The documents, of which a window has at most two and the top window has always one. *)
DocsOk(d) ==
    /\ d \in [PageWindows -> Documents]
    /\ \A w \in PageWindows : d[w].number \in {1, 2}
    /\ d[TopWindow].present /\ d[TopWindow].attached /\ ~d[TopWindow].unloaded

(* What a page posts is in one wrapper or, when twice, in two. *)
AsPosted(m) ==
    LET last == [originUrl |-> m.origin, targetUrl |-> IF m.asked = "none" THEN m.origin ELSE m.asked]
    IN m.wrappers = IF m.twice THEN <<[originUrl |-> m.origin, targetUrl |-> "*"], last>> ELSE <<last>>

(* What a message is, and whether its target's page gets it: always when it should, but   *)
(* of a relative target or of one that was forgotten in the outer wrapper.                *)
Shows(m) ==
    /\ m.kind = "user" => AsPosted(m) /\ m.cmd = NoCmd /\ ~m.direct
    /\ m.kind = "service" => m.cmd = NoCmd
    /\ m.kind = "response" => m.to = TopWindow
    /\ m.shown => m.kind = "user"
    /\ m.shown # m.due => m.asked = "/" \/ m.twice

(* How far a message is: it was called for at most once and only when it is done, and a   *)
(* service message that is done without a call had lost its target. A target that heard   *)
(* and is the same document still hears while it is there.                                *)
Arrives(d, m) ==
    /\ m.direct => m.heard
    /\ ~m.direct => m.at # "queued" /\ ~m.timer
    /\ m.at # "done" => m.calls = 0
    /\ m.calls <= 1 /\ (m.kind = "user" => m.calls = 0)
    /\ m.number <= d[m.to].number
    /\ m.number = d[m.to].number /\ m.heard => d[m.to].attached \/ ~d[m.to].present
    /\ m.number = d[m.to].number /\ m.direct => d[m.to].origin = m.origin
    /\ m.at = "done" /\ m.calls = 0 /\ m.kind # "user" =>
          \/ ~m.heard \/ m.number # d[m.to].number \/ ~d[m.to].present
          \/ ~m.direct /\ ~d[m.from].present

(* What is in the queue has a timer, and its window has not unloaded; what is direct is   *)
(* never posted.                                                                          *)
Waits(d, m) ==
    /\ m.at = "queued" => m.timer /\ ~d[m.from].unloaded
    /\ m.direct => m.at # "posted"

(* Messages whose order is kept. *)
SameWay(m, n) == m.from = n.from /\ m.to = n.to /\ m.direct = n.direct

(* Those received were received in their order, and those that are not done come after    *)
(* them.                                                                                  *)
InOrder(ms, r) ==
    /\ \A a \in DOMAIN r : r[a] \in DOMAIN ms /\ ms[r[a]].at = "done"
    /\ \A a, b \in DOMAIN r : a < b /\ SameWay(ms[r[a]], ms[r[b]]) => r[a] < r[b]
    /\ \A a \in DOMAIN r, j \in DOMAIN ms : ms[j].at # "done" /\ SameWay(ms[r[a]], ms[j]) => r[a] < j

(* The callback is that of a pending ping, and a ping that is pending and alone has it. *)
Pinging(ps, g) ==
    /\ \A p \in DOMAIN ps : /\ ps[p].state = "pending" => ps[p].interval /\ ps[p].timeout
                            /\ ps[p].state # "pending" => ~ps[p].interval /\ ~ps[p].timeout
    /\ g.callback = NoPing => g.cmd = NoCmd
    /\ g.callback # NoPing => /\ g.callback \in DOMAIN ps
                              /\ ps[g.callback].state = "pending" /\ ps[g.callback].cmd = g.cmd
    /\ \A p \in DOMAIN ps : ps[p].state = "pending" /\ ps[p].alone =>
          g.callback = p /\ \A q \in DOMAIN ps : ps[q].state = "pending" => q = p

(* A ping that only its own frame can answer; what has its command is of that frame, and  *)
(* no answer was received; one that is resolved was answered.                             *)
Asks(p) == p.state = "pending" /\ p.alone /\ ~p.used
Answered(ms, p) ==
    \E i \in DOMAIN ms : /\ ms[i].kind = "response" /\ ms[i].calls > 0 /\ ms[i].cmd = p.cmd
                         /\ ms[i].from = p.target
OfPing(m, p) ==
    /\ m.kind = "request" => m.to = p.target
    /\ m.kind = "response" => m.from = p.target /\ m.calls = 0

Truthful(ms, ps) ==
    /\ \A i \in DOMAIN ms : ms[i].cmd # NoCmd => \E p \in DOMAIN ps : ps[p].cmd = ms[i].cmd
    /\ \A p \in DOMAIN ps :
        /\ Asks(ps[p]) => \A i \in DOMAIN ms : ms[i].cmd = ps[p].cmd => OfPing(ms[i], ps[p])
        /\ ps[p].state = "resolved" /\ ps[p].alone /\ ~ps[p].used => Answered(ms, ps[p])

(* The invariant of a state, as parts. *)
EachArrives(d, ms) == \A i \in DOMAIN ms : Shows(ms[i]) /\ Arrives(d, ms[i])

Sound(d, st) ==
    /\ st \in States
    /\ EachArrives(d, st.messages)
    /\ InOrder(st.messages, st.received)
    /\ Pinging(st.pings, st.ping)
    /\ Truthful(st.messages, st.pings)

(* The part that holds between the steps but not within the flush of a queue. *)
EachWaits(d, ms) == \A i \in DOMAIN ms : Waits(d, ms[i])

(* The constants of the module by their values. *)
Names == PageWindows = {"same", "cross", "top"} /\ Frames = {"same", "cross"} /\ TopWindow = "top"
         /\ Origins = {"p", "q"} /\ Targets = {"p", "q", "*", "/", "none"} /\ PingCmds = {"c1", "c2"}
         /\ NoCmd = "null" /\ NoPing = 0

(* The constants have these values. *)
LEMMA NamesAre == Names
BY DEF Names, PageWindows, Frames, TopWindow, Origins, Targets, PingCmds, NoCmd, NoPing

(* A nonempty set of numbers has a least one, for the flush that goes through the         *)
(* numbers.                                                                               *)
LEMMA Least ==
    ASSUME NEW T, T \subseteq Nat, T # {}
    PROVE  \E x \in T : \A y \in T : x <= y
<1>1. IsWellFoundedOn(OpToRel(<, Nat), Nat)
  BY NatLessThanWellFounded
<1>2. PICK x \in T : \A y \in T : ~ (<<y, x>> \in OpToRel(<, Nat))
  BY <1>1, WFMin
<1>3. \A y \in T : ~(y < x)
  BY <1>2 DEF OpToRel
<1> QED
  BY <1>3

(* What a sequence is after Append. *)
LEMMA Appended ==
    ASSUME NEW S, NEW s \in Seq(S), NEW x \in S
    PROVE  /\ Append(s, x) \in Seq(S) /\ Len(s) \in Nat /\ DOMAIN s = 1..Len(s)
           /\ DOMAIN Append(s, x) = 1..(Len(s) + 1) /\ Len(Append(s, x)) = Len(s) + 1
           /\ \A i \in DOMAIN s : i \in DOMAIN Append(s, x) /\ Append(s, x)[i] = s[i]
           /\ Append(s, x)[Len(s) + 1] = x
OBVIOUS

(* What a sequence is after one of its elements is replaced. *)
LEMMA Replaced ==
    ASSUME NEW S, NEW s \in Seq(S), NEW i \in DOMAIN s, NEW x \in S
    PROVE  /\ [s EXCEPT ![i] = x] \in Seq(S)
           /\ DOMAIN [s EXCEPT ![i] = x] = DOMAIN s /\ Len([s EXCEPT ![i] = x]) = Len(s)
           /\ \A j \in DOMAIN s : [s EXCEPT ![i] = x][j] = IF j = i THEN x ELSE s[j]
OBVIOUS

(* A state by its parts. *)
Of(ms, r, ps, g) == [messages |-> ms, received |-> r, pings |-> ps, ping |-> g]

(* A record with the four fields of a state and no other. *)
IsState(st) == st = Of(st.messages, st.received, st.pings, st.ping)

(* A record with these fields is what its parts make. *)
LEMMA OfItsParts ==
    ASSUME NEW A, NEW B, NEW C, NEW D, NEW st \in [messages : A, received : B, pings : C, ping : D]
    PROVE  st = Of(st.messages, st.received, st.pings, st.ping)
BY DEF Of

(* A state is of the type of its own parts. *)
LEMMA StateType ==
    ASSUME NEW st, IsState(st)
    PROVE  st \in [messages : {st.messages}, received : {st.received}, pings : {st.pings}, ping : {st.ping}]
BY DEF IsState, Of

(* The members of States are states. *)
LEMMA StatesAre ==
    ASSUME NEW st \in States PROVE IsState(st)
BY OfItsParts DEF States, IsState

(* A state with other messages, by its parts. *)
LEMMA NewMessages ==
    ASSUME NEW st, IsState(st), NEW x
    PROVE  [st EXCEPT !.messages = x] = Of(x, st.received, st.pings, st.ping)
<1> DEFINE t == [st EXCEPT !.messages = x]
<1>1. st \in [messages : {st.messages}, received : {st.received}, pings : {st.pings}, ping : {st.ping}]
  BY StateType
<1>2. t \in [messages : {x}, received : {st.received}, pings : {st.pings}, ping : {st.ping}]
  BY <1>1
<1>3. t.messages = x /\ t.received = st.received /\ t.pings = st.pings /\ t.ping = st.ping
  BY <1>1
<1> HIDE DEF t
<1>4. t = Of(t.messages, t.received, t.pings, t.ping)
  BY <1>2, OfItsParts
<1> QED
  BY <1>3, <1>4 DEF t

(* A state with other messages and another history, by its parts. *)
LEMMA NewReceived ==
    ASSUME NEW st, IsState(st), NEW x, NEW y
    PROVE  [st EXCEPT !.messages = x, !.received = y] = Of(x, y, st.pings, st.ping)
<1> DEFINE t == [st EXCEPT !.messages = x, !.received = y]
<1>1. st \in [messages : {st.messages}, received : {st.received}, pings : {st.pings}, ping : {st.ping}]
  BY StateType
<1>2. t \in [messages : {x}, received : {y}, pings : {st.pings}, ping : {st.ping}]
  BY <1>1
<1>3. t.messages = x /\ t.received = y /\ t.pings = st.pings /\ t.ping = st.ping
  BY <1>1
<1> HIDE DEF t
<1>4. t = Of(t.messages, t.received, t.pings, t.ping)
  BY <1>2, OfItsParts
<1> QED
  BY <1>3, <1>4 DEF t

(* A state with other pings and the same callback, by its parts. *)
LEMMA OtherPings ==
    ASSUME NEW st, IsState(st), NEW x
    PROVE  [st EXCEPT !.pings = x] = Of(st.messages, st.received, x, st.ping)
<1> DEFINE t == [st EXCEPT !.pings = x]
<1>1. st \in [messages : {st.messages}, received : {st.received}, pings : {st.pings}, ping : {st.ping}]
  BY StateType
<1>2. t \in [messages : {st.messages}, received : {st.received}, pings : {x}, ping : {st.ping}]
  BY <1>1
<1>3. t.messages = st.messages /\ t.received = st.received /\ t.pings = x /\ t.ping = st.ping
  BY <1>1
<1> HIDE DEF t
<1>4. t = Of(t.messages, t.received, t.pings, t.ping)
  BY <1>2, OfItsParts
<1> QED
  BY <1>3, <1>4 DEF t

(* A state with other pings. *)
WithPings(st, x, y) == [st EXCEPT !.pings = x, !.ping = y]

(* A state with other pings, by its parts. *)
LEMMA NewPings ==
    ASSUME NEW st, IsState(st), NEW x, NEW y
    PROVE  WithPings(st, x, y) = Of(st.messages, st.received, x, y)
<1> DEFINE t == [st EXCEPT !.pings = x, !.ping = y]
<1>1. st \in [messages : {st.messages}, received : {st.received}, pings : {st.pings}, ping : {st.ping}]
  BY StateType
<1>2. t \in [messages : {st.messages}, received : {st.received}, pings : {x}, ping : {y}]
  BY <1>1
<1>3. t.messages = st.messages /\ t.received = st.received /\ t.pings = x /\ t.ping = y
  BY <1>1
<1> HIDE DEF t
<1>4. t = Of(t.messages, t.received, t.pings, t.ping)
  BY <1>2, OfItsParts
<1> QED
  BY <1>3, <1>4 DEF t, WithPings

(* The parts of what they make. *)
LEMMA Parts ==
    ASSUME NEW a, NEW b, NEW c, NEW e
    PROVE  /\ Of(a, b, c, e).messages = a /\ Of(a, b, c, e).received = b
           /\ Of(a, b, c, e).pings = c /\ Of(a, b, c, e).ping = e
           /\ IsState(Of(a, b, c, e))
BY DEF Of, IsState

-----------------------------------------------------------------------------
(* A message that is done *)

(* Whether a message that is received settles the ping whose callback is set. *)
Settles(st, m, called) == called /\ m.to = TopWindow /\ IsPingResponse(st, m)

(* A ping after its timers were cleared. *)
SettledPing(p, result) == [p EXCEPT !.state = result, !.interval = FALSE, !.timeout = FALSE]

(* The state when message i has become m, which is done, and its receiver was called or   *)
(* not.                                                                                   *)
Finished(st, i, m, called) ==
    Of([st.messages EXCEPT ![i] = m],
       IF called THEN Append(st.received, i) ELSE st.received,
       IF Settles(st, m, called) THEN [st.pings EXCEPT ![st.ping.callback] = SettledPing(@, "resolved")]
       ELSE st.pings,
       IF Settles(st, m, called) THEN NoCallback ELSE st.ping)

(* The receiver of a message that is done is called in order if none that goes its way is *)
(* before it (sendFunc and the browser's queue).                                          *)
LEMMA FinishedInOrder ==
    ASSUME NEW ms \in Seq(MessageSet), NEW r \in Seq(Nat), InOrder(ms, r), NEW i \in DOMAIN ms, ms[i].at # "done",
           NEW m \in MessageSet, m.at = "done", m.from = ms[i].from, m.to = ms[i].to, m.direct = ms[i].direct,
           NEW called \in BOOLEAN,
           called => \A j \in DOMAIN ms : ms[j].at # "done" /\ SameWay(ms[i], ms[j]) => i <= j
    PROVE  InOrder([ms EXCEPT ![i] = m], IF called THEN Append(r, i) ELSE r)
<1> DEFINE ns == [ms EXCEPT ![i] = m]
           s  == IF called THEN Append(r, i) ELSE r
<1>1. DOMAIN ns = DOMAIN ms /\ \A j \in DOMAIN ms : ns[j] = IF j = i THEN m ELSE ms[j]
  BY Replaced
<1>2. i \in Nat
  OBVIOUS
<1>3. /\ DOMAIN r = 1..Len(r) /\ Len(r) \in Nat
      /\ DOMAIN s = IF called THEN 1..(Len(r) + 1) ELSE DOMAIN r
      /\ \A a \in DOMAIN r : s[a] = r[a]
      /\ called => s[Len(r) + 1] = i
  BY <1>2, Appended
<1> HIDE DEF ns, s
<1>4. \A a \in DOMAIN r : r[a] \in DOMAIN ms /\ r[a] # i /\ ns[r[a]] = ms[r[a]] /\ ns[r[a]].at = "done"
  BY <1>1 DEF InOrder
<1>5. \A j, k \in DOMAIN ms : SameWay(ns[j], ns[k]) <=> SameWay(ms[j], ms[k])
  BY <1>1 DEF SameWay
<1>6. \A a \in DOMAIN s : s[a] \in DOMAIN ns /\ ns[s[a]].at = "done"
  BY <1>1, <1>3, <1>4
<1>7. ASSUME NEW a \in DOMAIN s, NEW b \in DOMAIN s, a < b, SameWay(ns[s[a]], ns[s[b]])
      PROVE  s[a] < s[b]
  <2>1. a \in DOMAIN r
    BY <1>3, <1>7
  <2>2. CASE b \in DOMAIN r
    BY <2>1, <2>2, <1>3, <1>4, <1>5, <1>7 DEF InOrder
  <2>3. CASE b \notin DOMAIN r
    <3>1. s[b] = i
      BY <2>3, <1>3
    <3>2. SameWay(ms[r[a]], ms[i])
      BY <3>1, <2>1, <1>3, <1>4, <1>5, <1>7
    <3> QED
      BY <3>1, <3>2, <2>1, <1>3 DEF InOrder
  <2> QED
    BY <2>2, <2>3
<1>8. ASSUME NEW a \in DOMAIN s, NEW j \in DOMAIN ns, ns[j].at # "done", SameWay(ns[s[a]], ns[j])
      PROVE  s[a] < j
  <2>1. j \in DOMAIN ms /\ j # i /\ ms[j].at # "done"
    BY <1>1, <1>8
  <2>2. CASE a \in DOMAIN r
    BY <2>1, <2>2, <1>3, <1>4, <1>5, <1>8 DEF InOrder
  <2>3. CASE a \notin DOMAIN r
    <3>1. s[a] = i /\ called
      BY <2>3, <1>3
    <3>2. SameWay(ms[i], ms[j])
      BY <3>1, <2>1, <1>5, <1>8
    <3>3. i <= j /\ i # j /\ j \in Nat
      BY <3>1, <3>2, <2>1
    <3> QED
      BY <3>1, <3>3, <1>2
  <2> QED
    BY <2>2, <2>3
<1>9. InOrder(ns, s)
  BY <1>6, <1>7, <1>8 DEF InOrder
<1> QED
  BY <1>9 DEF ns, s

(* The pings when one of them is settled. *)
SettledIn(ps, p, result) == [ps EXCEPT ![p] = SettledPing(ps[p], result)]

(* Settling a pending ping, and forgetting the callback, leaves the pings as they should  *)
(* be (cleanTimeouts).                                                                    *)
LEMMA SettledPings ==
    ASSUME NEW ps \in Seq(PingSet), NEW g, Pinging(ps, g), NEW p \in DOMAIN ps,
           ps[p].state = "pending", NEW result \in {"resolved", "rejected"},
           NEW qs, qs = SettledIn(ps, p, result)
    PROVE  /\ qs \in Seq(PingSet) /\ DOMAIN qs = DOMAIN ps
           /\ \A q \in DOMAIN ps : q # p => qs[q] = ps[q]
           /\ qs[p].state = result /\ qs[p].target = ps[p].target /\ qs[p].cmd = ps[p].cmd
           /\ qs[p].alone = ps[p].alone /\ qs[p].used = ps[p].used
           /\ Pinging(qs, NoCallback)
<1> DEFINE sp == SettledPing(ps[p], result)
<1>0. ps[p] \in PingSet
  OBVIOUS
<1>1. sp \in PingSet
  BY <1>0 DEF SettledPing, PingSet
<1>2. /\ sp.state = result /\ sp.target = ps[p].target /\ sp.cmd = ps[p].cmd
      /\ sp.alone = ps[p].alone /\ sp.used = ps[p].used /\ ~sp.interval /\ ~sp.timeout
  BY <1>0 DEF SettledPing, PingSet
<1>a. qs = [ps EXCEPT ![p] = sp]
  BY DEF SettledIn
<1> HIDE DEF sp
<1>3. /\ qs \in Seq(PingSet) /\ DOMAIN qs = DOMAIN ps
      /\ \A q \in DOMAIN ps : qs[q] = IF q = p THEN sp ELSE ps[q]
  BY <1>1, <1>a, Replaced
<1>4. NoCallback.callback = NoPing /\ NoCallback.cmd = NoCmd
  BY DEF NoCallback
<1>5. Pinging(qs, NoCallback)
  BY <1>2, <1>3, <1>4 DEF Pinging
<1> QED
  BY <1>2, <1>3, <1>5

(* A message that is done leaves the state sound. *)
LEMMA FinishedPings ==
    ASSUME NEW d, NEW st, Sound(d, st), NEW i \in DOMAIN st.messages, st.messages[i].at # "done",
           NEW called \in BOOLEAN, NEW m \in MessageSet,
           m.kind = st.messages[i].kind, m.from = st.messages[i].from, m.to = st.messages[i].to,
           m.cmd = st.messages[i].cmd, Shows(m),
           m.calls = IF called THEN 1 ELSE 0
    PROVE  LET t == Finished(st, i, m, called) IN
           t.pings \in Seq(PingSet) /\ Pinging(t.pings, t.ping) /\ Truthful(t.messages, t.pings)
<1> DEFINE ms == st.messages
           ns == [ms EXCEPT ![i] = m]
           c  == st.ping.callback
           qs == [st.pings EXCEPT ![c] = SettledPing(@, "resolved")]
<1>1. /\ ms \in Seq(MessageSet) /\ st.pings \in Seq(PingSet)
      /\ c \in Nat /\ st.ping.cmd \in PingCmds \cup {NoCmd}
  BY DEF Sound, States
<1>2. DOMAIN ns = DOMAIN ms /\ \A j \in DOMAIN ms : ns[j] = IF j = i THEN m ELSE ms[j]
  BY <1>1, Replaced
<1>3. NoCmd \notin PingCmds /\ \A p \in DOMAIN st.pings : st.pings[p].cmd \in PingCmds /\ p # NoPing
  <2>1. \A p \in DOMAIN st.pings : st.pings[p] \in PingSet /\ p # 0
    BY <1>1
  <2> QED
    BY <2>1, NamesAre DEF Names, PingSet
<1>4. ms[i].calls = 0 /\ m.calls \in Nat
  BY DEF Sound, EachArrives, Arrives
<1>5. Pinging(st.pings, st.ping) /\ Truthful(ms, st.pings)
  BY DEF Sound
<1> HIDE DEF ns
<1>6. ASSUME NEW p, Answered(ms, p) PROVE Answered(ns, p)
  <2>1. PICK j \in DOMAIN ms : /\ ms[j].kind = "response" /\ ms[j].calls > 0 /\ ms[j].cmd = p.cmd
                               /\ ms[j].from = p.target
    BY <1>6 DEF Answered
  <2>2. j # i
    BY <2>1, <1>4
  <2>3. ns[j] = ms[j] /\ j \in DOMAIN ns
    BY <2>2, <1>2
  <2> QED
    BY <2>1, <2>3 DEF Answered
<1>7. \A j \in DOMAIN ns : ns[j].cmd = ms[j].cmd
  BY <1>2
<1>8. CASE ~Settles(st, m, called)
  <2>1. ASSUME NEW p \in DOMAIN st.pings, Asks(st.pings[p]), NEW j \in DOMAIN ns, ns[j].cmd = st.pings[p].cmd
        PROVE  OfPing(ns[j], st.pings[p])
    <3>1. OfPing(ms[j], st.pings[p])
      BY <2>1, <1>2, <1>5, <1>7 DEF Truthful
    <3>2. CASE j # i
      BY <3>1, <3>2, <1>2
    <3>3. CASE j = i /\ m.kind = "response" /\ called
      <4>1. m.to = TopWindow
        BY <3>3 DEF Shows
      <4>2. c = p
        BY <2>1, <1>5 DEF Asks, Pinging
      <4>3. st.ping.cmd = st.pings[p].cmd
        BY <4>2, <1>5, <2>1, <1>3 DEF Pinging
      <4>4. m.cmd = st.ping.cmd /\ st.ping.cmd # NoCmd
        BY <4>3, <3>3, <2>1, <1>2, <1>3
      <4> QED
        BY <4>1, <4>4, <3>3, <1>8 DEF Settles, IsPingResponse
    <3>4. CASE j = i /\ ~(m.kind = "response" /\ called)
      BY <3>4, <3>1, <1>2 DEF OfPing
    <3> QED
      BY <3>2, <3>3, <3>4
  <2>2. Truthful(ns, st.pings)
    BY <2>1, <1>2, <1>5, <1>6, <1>7 DEF Truthful
  <2> QED
    BY <2>2, <1>1, <1>5, <1>8 DEF Finished, Of, ns
<1>9. CASE Settles(st, m, called)
  <2>1. called /\ m.kind = "response" /\ st.ping.cmd # NoCmd /\ m.cmd = st.ping.cmd
    BY <1>9 DEF Settles, IsPingResponse
  <2>2. c \in DOMAIN st.pings /\ st.pings[c].state = "pending" /\ st.pings[c].cmd = m.cmd
    BY <2>1, <1>5 DEF Pinging
  <2>3. /\ qs \in Seq(PingSet) /\ DOMAIN qs = DOMAIN st.pings
        /\ \A q \in DOMAIN st.pings : q # c => qs[q] = st.pings[q]
        /\ qs[c].state = "resolved" /\ qs[c].target = st.pings[c].target /\ qs[c].cmd = st.pings[c].cmd
        /\ qs[c].alone = st.pings[c].alone /\ qs[c].used = st.pings[c].used
        /\ Pinging(qs, NoCallback)
    <3>1. "resolved" \in {"resolved", "rejected"}
      OBVIOUS
    <3>2. qs = SettledIn(st.pings, c, "resolved")
      BY DEF SettledIn
    <3> HIDE DEF qs, c, ms
    <3> QED
      BY <3>1, <3>2, <2>2, <1>1, <1>5, SettledPings
  <2> HIDE DEF qs
  <2>4. ASSUME NEW p \in DOMAIN qs PROVE ~Asks(qs[p])
    <3>1. CASE p = c
      BY <3>1, <2>3 DEF Asks
    <3>2. CASE p # c
      BY <3>2, <2>3, <1>5 DEF Asks, Pinging
    <3> QED
      BY <3>1, <3>2
  <2>5. ASSUME NEW p \in DOMAIN qs, qs[p].state = "resolved", qs[p].alone, ~qs[p].used
        PROVE  Answered(ns, qs[p])
    <3>1. CASE p # c
      BY <3>1, <2>3, <2>5, <1>5, <1>6 DEF Truthful
    <3>2. CASE p = c
      <4>1. Asks(st.pings[c])
        BY <3>2, <2>2, <2>3, <2>5 DEF Asks
      <4>2. OfPing(ms[i], st.pings[c])
        BY <4>1, <2>2, <1>5 DEF Truthful
      <4>3. m.from = st.pings[c].target
        BY <4>2, <2>1 DEF OfPing
      <4>4. ns[i] = m /\ i \in DOMAIN ns /\ m.calls = 1
        BY <1>2, <2>1
      <4> QED
        BY <4>3, <4>4, <3>2, <2>1, <2>2, <2>3 DEF Answered
    <3> QED
      BY <3>1, <3>2
  <2>6. \A j \in DOMAIN ns : ns[j].cmd # NoCmd => \E p \in DOMAIN qs : qs[p].cmd = ns[j].cmd
    <3>1. \A p \in DOMAIN st.pings : p \in DOMAIN qs /\ qs[p].cmd = st.pings[p].cmd
      BY <2>3
    <3> QED
      BY <3>1, <1>2, <1>5, <1>7 DEF Truthful
  <2>7. Truthful(ns, qs)
    BY <2>4, <2>5, <2>6 DEF Truthful
  <2> QED
    BY <2>3, <2>7, <1>9 DEF Finished, Of, ns, qs
<1> QED
  BY <1>8, <1>9

(* A message that is done leaves the whole state sound, in whatever way it was delivered. *)
LEMMA FinishedSound ==
    ASSUME NEW d, NEW st, Sound(d, st), NEW i \in DOMAIN st.messages, st.messages[i].at # "done",
           NEW called \in BOOLEAN, NEW m \in MessageSet,
           m.kind = st.messages[i].kind, m.from = st.messages[i].from, m.to = st.messages[i].to,
           m.cmd = st.messages[i].cmd, m.direct = st.messages[i].direct, m.at = "done",
           m.calls = IF called THEN 1 ELSE 0, Shows(m), Arrives(d, m),
           called => \A j \in DOMAIN st.messages :
                         st.messages[j].at # "done" /\ SameWay(st.messages[i], st.messages[j]) => i <= j
    PROVE  Sound(d, Finished(st, i, m, called))
<1> DEFINE t == Finished(st, i, m, called)
<1>1. /\ st.messages \in Seq(MessageSet) /\ st.received \in Seq(Nat) /\ i \in Nat
      /\ st.ping \in [callback : Nat, cmd : PingCmds \cup {NoCmd}]
  BY DEF Sound, States
<1>2. InOrder(t.messages, t.received)
  BY <1>1, FinishedInOrder DEF Finished, Of, Sound
<1>3. t.pings \in Seq(PingSet) /\ Pinging(t.pings, t.ping) /\ Truthful(t.messages, t.pings)
  BY FinishedPings
<1>4. EachArrives(d, t.messages)
  BY <1>1, Replaced DEF Finished, Of, EachArrives, Sound
<1>5. t.messages \in Seq(MessageSet) /\ t.received \in Seq(Nat)
  BY <1>1, Replaced, Appended DEF Finished, Of
<1>6. t.ping \in [callback : Nat, cmd : PingCmds \cup {NoCmd}]
  BY <1>1, NamesAre DEF Finished, Of, NoCallback, Names
<1>7. t = [messages |-> t.messages, received |-> t.received, pings |-> t.pings, ping |-> t.ping]
  BY DEF Finished, Of
<1>8. t \in States
  BY <1>3, <1>5, <1>6, <1>7 DEF States
<1> HIDE DEF t
<1>9. Sound(d, t)
  BY <1>2, <1>3, <1>4, <1>8 DEF Sound
<1> QED
  BY <1>9 DEF t

-----------------------------------------------------------------------------
(* A message that is sent *)

(* A state with one message more. *)
Added(st, m) == [st EXCEPT !.messages = Append(@, m)]

(* What is sent: it is not done, and its command, if it has one, is that of a ping it     *)
(* belongs to.                                                                            *)
NewMessage(st, m) ==
    /\ m \in MessageSet /\ Shows(m) /\ m.at # "done" /\ m.calls = 0
    /\ m.cmd # NoCmd =>
          /\ \E p \in DOMAIN st.pings : st.pings[p].cmd = m.cmd
          /\ \A p \in DOMAIN st.pings : Asks(st.pings[p]) /\ st.pings[p].cmd = m.cmd => OfPing(m, st.pings[p])

(* A message that is sent leaves the state sound. *)
LEMMA AddedSound ==
    ASSUME NEW d, NEW st, Sound(d, st), NEW m, NewMessage(st, m), Arrives(d, m)
    PROVE  Sound(d, Added(st, m))
<1> DEFINE ms == st.messages
           ns == Append(ms, m)
<1>1. st \in States /\ ms \in Seq(MessageSet) /\ st.received \in Seq(Nat) /\ st.pings \in Seq(PingSet)
  BY DEF Sound, States
<1>2. m \in MessageSet
  BY DEF NewMessage
<1>3. /\ ns \in Seq(MessageSet) /\ Len(ms) \in Nat /\ DOMAIN ms = 1..Len(ms) /\ DOMAIN ns = 1..(Len(ms) + 1)
      /\ \A i \in DOMAIN ms : i \in DOMAIN ns /\ ns[i] = ms[i]
      /\ ns[Len(ms) + 1] = m
  BY <1>1, <1>2, Appended
<1>4. /\ Added(st, m).messages = ns /\ Added(st, m).received = st.received
      /\ Added(st, m).pings = st.pings /\ Added(st, m).ping = st.ping /\ Added(st, m) \in States
  BY <1>1, <1>3 DEF Added, States
<1> HIDE DEF ns
<1>5. \A i \in DOMAIN ns : i \in DOMAIN ms \/ (i = Len(ms) + 1 /\ ns[i] = m)
  BY <1>3
<1>6. EachArrives(d, ns)
  BY <1>3, <1>5 DEF EachArrives, Sound, NewMessage
<1>7. InOrder(ns, st.received)
  <2>1. InOrder(ms, st.received)
    BY DEF Sound
  <2>2. \A a \in DOMAIN st.received : /\ st.received[a] \in DOMAIN ms /\ st.received[a] < Len(ms) + 1
                                      /\ ns[st.received[a]] = ms[st.received[a]]
    BY <2>1, <1>3 DEF InOrder
  <2>3. ASSUME NEW a \in DOMAIN st.received, NEW j \in DOMAIN ns, ns[j].at # "done",
               SameWay(ns[st.received[a]], ns[j])
        PROVE  st.received[a] < j
    BY <2>1, <2>2, <2>3, <1>3, <1>5 DEF InOrder
  <2>4. ASSUME NEW a \in DOMAIN st.received, NEW b \in DOMAIN st.received,
               a < b, SameWay(ns[st.received[a]], ns[st.received[b]])
        PROVE  st.received[a] < st.received[b]
    BY <2>1, <2>2, <2>4 DEF InOrder
  <2>5. \A a \in DOMAIN st.received : st.received[a] \in DOMAIN ns /\ ns[st.received[a]].at = "done"
    BY <2>1, <2>2, <1>3 DEF InOrder
  <2> QED
    BY <2>3, <2>4, <2>5 DEF InOrder
<1>8. Truthful(ns, st.pings)
  <2>1. Truthful(ms, st.pings)
    BY DEF Sound
  <2>2. ASSUME NEW i \in DOMAIN ns, ns[i].cmd # NoCmd
        PROVE  \E p \in DOMAIN st.pings : st.pings[p].cmd = ns[i].cmd
    <3>1. CASE i \in DOMAIN ms
      BY <3>1, <2>1, <2>2, <1>3 DEF Truthful
    <3>2. CASE i \notin DOMAIN ms
      BY <3>2, <2>2, <1>5 DEF NewMessage
    <3> QED
      BY <3>1, <3>2
  <2>3. ASSUME NEW p \in DOMAIN st.pings, Asks(st.pings[p]), NEW i \in DOMAIN ns, ns[i].cmd = st.pings[p].cmd
        PROVE  OfPing(ns[i], st.pings[p])
    <3>1. CASE i \in DOMAIN ms
      BY <3>1, <2>1, <2>3, <1>3 DEF Truthful
    <3>2. CASE i \notin DOMAIN ms
      <4>1. st.pings[p] \in PingSet
        BY <1>1
      <4>2. st.pings[p].cmd # NoCmd
        BY <4>1, NamesAre DEF PingSet, Names
      <4> QED
        BY <4>2, <3>2, <2>3, <1>5 DEF NewMessage
    <3> QED
      BY <3>1, <3>2
  <2>4. \A p : Answered(ms, p) => Answered(ns, p)
    BY <1>3 DEF Answered
  <2> QED
    BY <2>1, <2>2, <2>3, <2>4 DEF Truthful
<1> QED
  BY <1>4, <1>6, <1>7, <1>8 DEF Sound

-----------------------------------------------------------------------------
(* A message that is called or delivered *)

(* The module's Settled, by its parts. *)
LEMMA SettledIs ==
    ASSUME NEW st, IsState(st), NEW p, NEW result
    PROVE  Settled(st, p, result) =
             Of(st.messages, st.received, [st.pings EXCEPT ![p] = SettledPing(@, result)], NoCallback)
<1> DEFINE f  == st.pings
           a  == [f EXCEPT ![p] = [f[p] EXCEPT !.state = result]]
           b  == [a EXCEPT ![p] = [a[p] EXCEPT !.interval = FALSE]]
           c  == [b EXCEPT ![p] = [b[p] EXCEPT !.timeout = FALSE]]
           s1 == [st EXCEPT !.pings[p].state = result]
           s2 == [s1 EXCEPT !.pings[p].interval = FALSE]
           s3 == [s2 EXCEPT !.pings[p].timeout = FALSE]
           t  == Settled(st, p, result)
<1>1. t = [s3 EXCEPT !.ping = NoCallback]
  BY DEF Settled
<1>2. s1 = [st EXCEPT !.pings = a]
  OBVIOUS
<1>3. c = [f EXCEPT ![p] = SettledPing(f[p], result)]
  <2> DEFINE x == [f[p] EXCEPT !.state = result]
             y == [x EXCEPT !.interval = FALSE]
             z == [y EXCEPT !.timeout = FALSE]
  <2>1. a = [f EXCEPT ![p] = x] /\ z = SettledPing(f[p], result)
    BY DEF SettledPing
  <2>2. b = [a EXCEPT ![p] = [a[p] EXCEPT !.interval = FALSE]] /\ c = [b EXCEPT ![p] = [b[p] EXCEPT !.timeout = FALSE]]
    OBVIOUS
  <2>3. y = [x EXCEPT !.interval = FALSE] /\ z = [y EXCEPT !.timeout = FALSE]
    OBVIOUS
  <2> HIDE DEF a, b, c, x, y, z, f
  <2>4. b = [f EXCEPT ![p] = y]
    <3>1. CASE p \in DOMAIN f
      <4>1. a[p] = x
        BY <3>1, <2>1
      <4>2. b = [a EXCEPT ![p] = y]
        BY <4>1, <2>2, <2>3
      <4> QED
        BY <4>2, <2>1
    <3>2. CASE p \notin DOMAIN f
      BY <3>2, <2>1, <2>2
    <3> QED
      BY <3>1, <3>2
  <2>5. c = [f EXCEPT ![p] = z]
    <3>1. CASE p \in DOMAIN f
      <4>1. b[p] = y
        BY <3>1, <2>4
      <4>2. c = [b EXCEPT ![p] = z]
        BY <4>1, <2>2, <2>3
      <4> QED
        BY <4>2, <2>4
    <3>2. CASE p \notin DOMAIN f
      BY <3>2, <2>2, <2>4
    <3> QED
      BY <3>1, <3>2
  <2> QED
    BY <2>1, <2>5
<1>4. s2 = [s1 EXCEPT !.pings = [s1.pings EXCEPT ![p] = [s1.pings[p] EXCEPT !.interval = FALSE]]]
  OBVIOUS
<1>5. s3 = [s2 EXCEPT !.pings = [s2.pings EXCEPT ![p] = [s2.pings[p] EXCEPT !.timeout = FALSE]]]
  OBVIOUS
<1>6. b = [a EXCEPT ![p] = [a[p] EXCEPT !.interval = FALSE]] /\ c = [b EXCEPT ![p] = [b[p] EXCEPT !.timeout = FALSE]]
  OBVIOUS
<1> HIDE DEF a, b, c, s1, s2, s3, t
<1>7. s1 = Of(st.messages, st.received, a, st.ping) /\ IsState(s1) /\ s1.pings = a
  BY <1>2, OtherPings, Parts
<1>8. s2 = [s1 EXCEPT !.pings = b]
  BY <1>4, <1>6, <1>7
<1>9. s2 = Of(st.messages, st.received, b, st.ping) /\ IsState(s2) /\ s2.pings = b
  BY <1>7, <1>8, OtherPings, Parts
<1>10. s3 = [s2 EXCEPT !.pings = c]
  BY <1>5, <1>6, <1>9
<1>11. s3 = Of(st.messages, st.received, c, st.ping)
  BY <1>9, <1>10, OtherPings, Parts
<1>12. t = Of(st.messages, st.received, c, NoCallback)
  BY <1>1, <1>11 DEF Of
<1> QED
  BY <1>3, <1>12 DEF t

(* The module's OnMessage, by its parts. *)
LEMMA OnMessageIs ==
    ASSUME NEW st, IsState(st), NEW i
    PROVE  LET m == st.messages[i]
               settles == m.to = TopWindow /\ IsPingResponse(st, m)
           IN OnMessage(st, i) =
                Of([st.messages EXCEPT ![i] = [@ EXCEPT !.calls = st.messages[i].calls + 1]], Append(st.received, i),
                   IF settles THEN [st.pings EXCEPT ![st.ping.callback] = SettledPing(@, "resolved")]
                   ELSE st.pings,
                   IF settles THEN NoCallback ELSE st.ping)
<1> DEFINE called == [st EXCEPT !.messages[i].calls = @ + 1, !.received = Append(@, i)]
           x == [st.messages EXCEPT ![i] = [@ EXCEPT !.calls = st.messages[i].calls + 1]]
           y == Append(st.received, i)
           settles == st.messages[i].to = TopWindow /\ IsPingResponse(st, st.messages[i])
<1>1. called = [st EXCEPT !.messages = x, !.received = y]
  OBVIOUS
<1>2. OnMessage(st, i) = IF settles THEN Settled(called, st.ping.callback, "resolved") ELSE called
  BY DEF OnMessage
<1> HIDE DEF x, y, called, settles
<1>3. called = Of(x, y, st.pings, st.ping)
  BY <1>1, NewReceived
<1>4. /\ called.messages = x /\ called.received = y /\ called.pings = st.pings /\ called.ping = st.ping
      /\ IsState(called)
  BY <1>3, Parts
<1>5. Settled(called, st.ping.callback, "resolved") =
        Of(x, y, [st.pings EXCEPT ![st.ping.callback] = SettledPing(@, "resolved")], NoCallback)
  BY <1>4, SettledIs
<1>6. OnMessage(st, i) =
                Of(x, y, IF settles THEN [st.pings EXCEPT ![st.ping.callback] = SettledPing(@, "resolved")]
                   ELSE st.pings,
                   IF settles THEN NoCallback ELSE st.ping)
  BY <1>2, <1>3, <1>5
<1> QED
  BY <1>6 DEF x, y, settles

(* What is delivered or called is done after it. *)
LEMMA OnMessageFinishes ==
    ASSUME NEW st, IsState(st), NEW i,
           i \in DOMAIN st.messages, NEW m, m = [st.messages[i] EXCEPT !.calls = @ + 1, !.at = "done"],
           m.to = st.messages[i].to, IsPingResponse(st, m) <=> IsPingResponse(st, st.messages[i]),
           NEW t, t = [OnMessage(st, i) EXCEPT !.messages[i].at = "done"]
    PROVE  t = Finished(st, i, m, TRUE)
<1> DEFINE x == [st.messages EXCEPT ![i] = [@ EXCEPT !.calls = st.messages[i].calls + 1]]
           y == Append(st.received, i)
           o == OnMessage(st, i)
           z == [x EXCEPT ![i] = [x[i] EXCEPT !.at = "done"]]
           settles == Settles(st, m, TRUE)
           ps == IF settles THEN [st.pings EXCEPT ![st.ping.callback] = SettledPing(@, "resolved")] ELSE st.pings
           g == IF settles THEN NoCallback ELSE st.ping
<1>1. o = Of(x, y, ps, g)
  BY OnMessageIs DEF Settles
<1>2. t = [o EXCEPT !.messages = [o.messages EXCEPT ![i] = [o.messages[i] EXCEPT !.at = "done"]]]
  OBVIOUS
<1>3. z = [st.messages EXCEPT ![i] = m]
  OBVIOUS
<1>4. Finished(st, i, m, TRUE) = Of([st.messages EXCEPT ![i] = m], y, ps, g)
  BY DEF Finished
<1> HIDE DEF x, y, o, ps, g, settles
<1>5. /\ o.messages = x /\ o.received = y /\ o.pings = ps /\ o.ping = g
      /\ IsState(o)
  BY <1>1, Parts
<1>6. t = [o EXCEPT !.messages = z]
  BY <1>2, <1>5
<1> HIDE DEF z
<1>7. t = Of(z, y, ps, g)
  BY <1>5, <1>6, NewMessages
<1> QED
  BY <1>3, <1>4, <1>7

(* What is done without a call of its receiver is finished as well. *)
LEMMA NotCalledFinishes ==
    ASSUME NEW st, IsState(st), NEW i, NEW m, m = [st.messages[i] EXCEPT !.at = "done"],
           NEW t, t = [st EXCEPT !.messages[i].at = "done"]
    PROVE  t = Finished(st, i, m, FALSE)
<1> DEFINE z == [st.messages EXCEPT ![i] = m]
<1>1. t = [st EXCEPT !.messages = z]
  OBVIOUS
<1>2. Finished(st, i, m, FALSE) = Of(z, st.received, st.pings, st.ping)
  BY DEF Finished, Settles
<1> HIDE DEF z
<1> QED
  BY <1>1, <1>2, NewMessages

(* The fields of a message that never change. *)
SameMessage(m, n) ==
    /\ m.kind = n.kind /\ m.from = n.from /\ m.to = n.to /\ m.cmd = n.cmd /\ m.wrappers = n.wrappers
    /\ m.direct = n.direct /\ m.timer = n.timer /\ m.number = n.number /\ m.heard = n.heard
    /\ m.asked = n.asked /\ m.twice = n.twice /\ m.origin = n.origin

(* The fields of a message that is done without a call. *)
LEMMA DoneType ==
    ASSUME NEW n \in MessageSet, NEW m, m = [n EXCEPT !.at = "done"]
    PROVE  /\ m \in MessageSet /\ SameMessage(m, n)
           /\ m.at = "done" /\ m.calls = n.calls /\ m.shown = n.shown /\ m.due = n.due
<1>1. m \in MessageSet
  BY DEF MessageSet
<1>2. /\ m.at = "done" /\ m.calls = n.calls /\ m.shown = n.shown /\ m.due = n.due
  BY DEF MessageSet
<1>3. SameMessage(m, n)
  BY DEF MessageSet, SameMessage
<1> QED
  BY <1>1, <1>2, <1>3

(* The fields of a message that is done with a call. *)
LEMMA CalledType ==
    ASSUME NEW n \in MessageSet, NEW m, m = [n EXCEPT !.calls = n.calls + 1, !.at = "done"]
    PROVE  /\ m \in MessageSet /\ SameMessage(m, n)
           /\ m.at = "done" /\ m.calls = n.calls + 1 /\ m.shown = n.shown /\ m.due = n.due
<1>0. n.calls + 1 \in Nat
  BY DEF MessageSet
<1>1. m \in MessageSet
  <2> DEFINE x == n.calls + 1
  <2>1. x \in Nat /\ m = [n EXCEPT !.calls = x, !.at = "done"]
    BY <1>0
  <2> HIDE DEF x
  <2> QED
    BY <2>1 DEF MessageSet
<1>2. /\ m.at = "done" /\ m.calls = n.calls + 1 /\ m.shown = n.shown /\ m.due = n.due
  BY DEF MessageSet
<1>3. SameMessage(m, n)
  BY DEF MessageSet, SameMessage
<1> QED
  BY <1>1, <1>2, <1>3

(* No message that goes the way of i, and is not done, is before it. *)
First(ms, i) == \A j \in DOMAIN ms : ms[j].at # "done" /\ SameWay(ms[i], ms[j]) => i <= j

(* The messages but i are as they were. *)
Only(ms, ns, i) ==
    /\ ns \in Seq(MessageSet) /\ DOMAIN ns = DOMAIN ms /\ Len(ns) = Len(ms)
    /\ \A j \in DOMAIN ms : j # i => ns[j] = ms[j]
    /\ ns[i].at = "done" /\ SameMessage(ns[i], ms[i])

(* Finishing a message leaves the others as they were. *)
LEMMA FinishedOnly ==
    ASSUME NEW st \in States, NEW i \in DOMAIN st.messages, NEW m \in MessageSet, m.at = "done",
           SameMessage(m, st.messages[i]), NEW called \in BOOLEAN
    PROVE  Only(st.messages, Finished(st, i, m, called).messages, i)
<1>1. st.messages \in Seq(MessageSet)
  BY DEF States
<1>2. Finished(st, i, m, called).messages = [st.messages EXCEPT ![i] = m]
  BY DEF Finished, Of
<1> QED
  BY <1>1, <1>2, Replaced DEF Only

(* A message in the queue is sent. *)
LEMMA SendFuncSound ==
    ASSUME NEW st, Sound(docs, st), DocsOk(docs), NEW i \in DOMAIN st.messages,
           st.messages[i].at # "done", st.messages[i].direct, First(st.messages, i)
    PROVE  Sound(docs, SendFunc(st, i)) /\ Only(st.messages, SendFunc(st, i).messages, i)
<1> DEFINE n == st.messages[i]
           reached == Listens(n.to) /\ docs[n.to].origin = n.origin
           m1 == [n EXCEPT !.calls = n.calls + 1, !.at = "done"]
           m0 == [n EXCEPT !.at = "done"]
           t == SendFunc(st, i)
<1>1. st \in States /\ st.messages \in Seq(MessageSet) /\ IsState(st) /\ n \in MessageSet
  BY StatesAre DEF Sound, States
<1>2. Shows(n) /\ Arrives(docs, n)
  BY DEF Sound, EachArrives
<1>3. n.direct /\ n.calls = 0 /\ n.kind # "user"
  BY <1>1, <1>2 DEF Arrives, Shows, MessageSet
<1>4. /\ m1 \in MessageSet /\ SameMessage(m1, n) /\ m1.calls = 1 /\ m1.at = "done"
      /\ m1.shown = n.shown /\ m1.due = n.due
      /\ m0 \in MessageSet /\ SameMessage(m0, n) /\ m0.calls = 0 /\ m0.at = "done"
      /\ m0.shown = n.shown /\ m0.due = n.due
  <2>1. m1 = [n EXCEPT !.calls = n.calls + 1, !.at = "done"] /\ m0 = [n EXCEPT !.at = "done"]
    OBVIOUS
  <2> HIDE DEF m1, m0
  <2>2. /\ m1 \in MessageSet /\ SameMessage(m1, n) /\ m1.calls = n.calls + 1 /\ m1.at = "done"
        /\ m1.shown = n.shown /\ m1.due = n.due
    BY <1>1, <2>1, CalledType
  <2>3. /\ m0 \in MessageSet /\ SameMessage(m0, n) /\ m0.calls = n.calls /\ m0.at = "done"
        /\ m0.shown = n.shown /\ m0.due = n.due
    BY <1>1, <2>1, DoneType
  <2> QED
    BY <2>2, <2>3, <1>3
<1>5. t = [IF reached THEN OnMessage(st, i) ELSE st EXCEPT !.messages[i].at = "done"]
  BY DEF SendFunc, CallReceiver
<1>6. CASE reached
  <2>1. t = [OnMessage(st, i) EXCEPT !.messages[i].at = "done"]
    BY <1>5, <1>6
  <2>2. m1 = [st.messages[i] EXCEPT !.calls = @ + 1, !.at = "done"]
    OBVIOUS
  <2> HIDE DEF m1, t
  <2>3. m1.to = n.to /\ (IsPingResponse(st, m1) <=> IsPingResponse(st, n))
    BY <1>4 DEF SameMessage, IsPingResponse
  <2>4. t = Finished(st, i, m1, TRUE)
    BY <1>1, <2>1, <2>2, <2>3, OnMessageFinishes
  <2>5. Shows(m1) /\ Arrives(docs, m1)
    BY <1>2, <1>3, <1>4 DEF Shows, Arrives, SameMessage, AsPosted
  <2>6. Sound(docs, Finished(st, i, m1, TRUE))
    BY <1>4, <2>5, FinishedSound DEF SameMessage, First
  <2>7. Only(st.messages, Finished(st, i, m1, TRUE).messages, i)
    BY <1>1, <1>4, FinishedOnly
  <2> QED
    BY <2>4, <2>6, <2>7 DEF t
<1>7. CASE ~reached
  <2>1. t = [st EXCEPT !.messages[i].at = "done"]
    BY <1>5, <1>7
  <2> HIDE DEF t
  <2>2. m0 = [st.messages[i] EXCEPT !.at = "done"]
    OBVIOUS
  <2>3. t = Finished(st, i, m0, FALSE)
    BY <1>1, <2>1, <2>2, NotCalledFinishes
  <2>4. Shows(m0)
    BY <1>2, <1>3, <1>4 DEF Shows, SameMessage, AsPosted
  <2>5. ~n.heard \/ n.number # docs[n.to].number \/ ~docs[n.to].present
    BY <1>2, <1>3, <1>7 DEF Arrives, Listens
  <2>6. Arrives(docs, m0)
    <3> HIDE DEF m0
    <3> QED
      BY <1>2, <1>3, <1>4, <2>5 DEF Arrives, SameMessage
  <2>7. Sound(docs, Finished(st, i, m0, FALSE))
    <3> HIDE DEF m0
    <3> QED
      BY <1>4, <2>4, <2>6, FinishedSound DEF SameMessage, First
  <2>8. Only(st.messages, Finished(st, i, m0, FALSE).messages, i)
    BY <1>1, <1>4, FinishedOnly
  <2> QED
    BY <2>3, <2>7, <2>8 DEF t
<1> QED
  BY <1>6, <1>7

-----------------------------------------------------------------------------
(* The queue of a window that unloads *)

(* The states of a flush, one for each of the first n messages. *)
IsFlushing(st, w, n, g) == g = [k \in 0..n |-> IF k = 0 THEN st ELSE SentIfOf(g[k - 1], w, k)]

(* The states of a flush exist: those of the first n + 1 messages are those of the first  *)
(* n and one more.                                                                        *)
LEMMA FlushingExists ==
    ASSUME NEW st, NEW w, NEW n \in Nat
    PROVE  \E g : IsFlushing(st, w, n, g)
<1> DEFINE T == {k \in Nat : ~ \E g : IsFlushing(st, w, k, g)}
<1>1. CASE T = {}
  BY <1>1
<1>2. CASE T # {}
  <2>1. PICK x \in T : \A y \in T : x <= y
    BY <1>2, Least
  <2>2. x # 0
    <3> DEFINE g == [k \in 0..0 |-> st]
    <3>1. g = [k \in 0..0 |-> IF k = 0 THEN st ELSE SentIfOf(g[k - 1], w, k)]
      OBVIOUS
    <3>2. \E h : IsFlushing(st, w, 0, h)
      BY <3>1 DEF IsFlushing
    <3> QED
      BY <3>2
  <2>3. x \in Nat /\ x - 1 \in Nat /\ x - 1 < x
    BY <2>2
  <2>4. PICK g : IsFlushing(st, w, x - 1, g)
    BY <2>1, <2>3
  <2> DEFINE h == [k \in 0..x |-> IF k = 0 THEN st ELSE SentIfOf(g[k - 1], w, k)]
  <2>5. \A k \in 0..(x - 1) : g[k] = IF k = 0 THEN st ELSE SentIfOf(g[k - 1], w, k)
    BY <2>4 DEF IsFlushing
  <2>6. \A k \in 0..x : k # 0 => k - 1 \in 0..(x - 1) /\ k - 1 \in 0..x
    BY <2>3
  <2>7. \A k \in 0..(x - 1) : k \in 0..x
    BY <2>3
  <2>8. \A k \in 0..(x - 1) : h[k] = g[k]
    BY <2>5, <2>7
  <2>9. \A k \in 0..x : k # 0 => h[k - 1] = g[k - 1]
    BY <2>6, <2>8
  <2>10. h = [k \in 0..x |-> IF k = 0 THEN st ELSE SentIfOf(h[k - 1], w, k)]
    BY <2>9
  <2>11. IsFlushing(st, w, x, h)
    BY <2>10 DEF IsFlushing
  <2> QED
    BY <2>1, <2>11
<1> QED
  BY <1>1, <1>2

(* The recursive function of Flushed goes through these states. *)
LEMMA FlushingSteps ==
    ASSUME NEW st, NEW w, Len(st.messages) \in Nat
    PROVE  \E g : /\ g[0] = st /\ Flushed(st, w) = g[Len(st.messages)]
                  /\ \A n \in 1..Len(st.messages) : g[n] = SentIfOf(g[n - 1], w, n)
<1> DEFINE N == Len(st.messages)
           g == CHOOSE g : g = [k \in 0..N |-> IF k = 0 THEN st ELSE SentIfOf(g[k - 1], w, k)]
<1>1. \E h : h = [k \in 0..N |-> IF k = 0 THEN st ELSE SentIfOf(h[k - 1], w, k)]
  <2>1. PICK h : IsFlushing(st, w, N, h)
    <3> HIDE DEF N
    <3>1. N \in Nat
      BY DEF N
    <3> QED
      BY <3>1, FlushingExists
  <2> QED
    BY <2>1, Zenon DEF IsFlushing
<1>2. g = [k \in 0..N |-> IF k = 0 THEN st ELSE SentIfOf(g[k - 1], w, k)]
  BY <1>1
<1>3. Flushed(st, w) = g[N]
  BY DEF Flushed
<1> HIDE DEF g
<1>4. g[0] = st
  BY <1>2
<1>5. \A n \in 1..N : n \in 0..N /\ n # 0
  OBVIOUS
<1>6. \A n \in 1..N : g[n] = SentIfOf(g[n - 1], w, n)
  BY <1>2, <1>5
<1> QED
  BY <1>3, <1>4, <1>6

(* What holds after the first n messages of a flush of the queue of w: none of them is in *)
(* the queue.                                                                             *)
Flushing(st, w, n, t) ==
    /\ Sound(docs, t) /\ DOMAIN t.messages = DOMAIN st.messages
    /\ \A j \in DOMAIN st.messages :
          /\ SameMessage(t.messages[j], st.messages[j])
          /\ t.messages[j] = st.messages[j] \/ t.messages[j].at = "done"
          /\ st.messages[j].from = w /\ t.messages[j].at = "queued" => j > n

(* One more message keeps it: what is in the queue is the first that goes its way, as the *)
(* flush goes by the numbers.                                                             *)
LEMMA FlushingStep ==
    ASSUME NEW st, NEW w, DocsOk(docs), NEW n \in Nat, n + 1 \in DOMAIN st.messages,
           NEW t, Flushing(st, w, n, t), EachWaits(docs, st.messages)
    PROVE  Flushing(st, w, n + 1, SentIfOf(t, w, n + 1))
<1> DEFINE i == n + 1
           u == SentIfOf(t, w, i)
<1>1. /\ i \in DOMAIN t.messages /\ t.messages \in Seq(MessageSet)
      /\ \A j \in DOMAIN t.messages : j \in Nat /\ t.messages[j] \in MessageSet
  BY DEF Flushing, Sound, States
<1>2. CASE t.messages[i].from = w /\ t.messages[i].at = "queued"
  <2>1. u = SendFunc(t, i)
    BY <1>2 DEF SentIfOf, RemoveInternalMsgFromQueue
  <2>2. ASSUME NEW j \in DOMAIN t.messages, t.messages[j].at # "done", SameWay(t.messages[i], t.messages[j])
        PROVE  i <= j
    <3>1. Arrives(docs, t.messages[i])
      BY <1>1 DEF Flushing, Sound, EachArrives
    <3>0. t.messages[j].direct
      BY <3>1, <1>1, <1>2, <2>2 DEF Arrives, SameWay, MessageSet
    <3>2. t.messages[j].at # "posted"
      BY <3>0, <2>2 DEF Flushing, EachWaits, Waits
    <3>3. t.messages[j].at = "queued"
      BY <3>2, <2>2, <1>1 DEF MessageSet
    <3>4. st.messages[j].from = w /\ j \in DOMAIN st.messages
      BY <2>2, <1>2 DEF SameWay, Flushing, SameMessage
    <3>5. j > n
      BY <3>3, <3>4 DEF Flushing
    <3> QED
      BY <3>5, <1>1
  <2>a. t.messages[i].direct
    BY <1>1, <1>2 DEF Flushing, Sound, EachArrives, Arrives, MessageSet
  <2>3. Sound(docs, u) /\ Only(t.messages, u.messages, i)
    BY <2>1, <2>2, <2>a, <1>1, <1>2, SendFuncSound DEF Flushing, First
  <2> HIDE DEF u
  <2>4. ASSUME NEW j \in DOMAIN st.messages
        PROVE  /\ SameMessage(u.messages[j], st.messages[j])
               /\ u.messages[j] = st.messages[j] \/ u.messages[j].at = "done"
               /\ st.messages[j].from = w /\ u.messages[j].at = "queued" => j > i
    <3>1. CASE j = i
      BY <3>1, <2>3 DEF Only, SameMessage, Flushing
    <3>2. CASE j # i
      <4>1. u.messages[j] = t.messages[j]
        BY <3>2, <2>3 DEF Only, Flushing
      <4>2. j \in Nat
        BY <1>1 DEF Flushing
      <4> QED
        BY <4>1, <4>2, <3>2 DEF Flushing
    <3> QED
      BY <3>1, <3>2
  <2> QED
    BY <2>3, <2>4 DEF Flushing, Only, u
<1>3. CASE ~(t.messages[i].from = w /\ t.messages[i].at = "queued")
  <2>1. u = t
    BY <1>3 DEF SentIfOf, RemoveInternalMsgFromQueue
  <2>2. ASSUME NEW j \in DOMAIN st.messages, st.messages[j].from = w, t.messages[j].at = "queued"
        PROVE  j > i
    <3>1. j \in Nat /\ j > n
      BY <2>2, <1>1 DEF Flushing
    <3>2. j # i
      BY <2>2, <1>3 DEF Flushing, SameMessage
    <3> QED
      BY <3>1, <3>2
  <2> QED
    BY <2>1, <2>2 DEF Flushing
<1> QED
  BY <1>2, <1>3

(* The flush leaves the state sound and nothing of the window in the queue (the handler   *)
(* of UNLOAD_EVENT).                                                                      *)
LEMMA FlushedSound ==
    ASSUME NEW st, NEW w, DocsOk(docs), Sound(docs, st), EachWaits(docs, st.messages)
    PROVE  Flushing(st, w, Len(st.messages), Flushed(st, w))
<1> DEFINE N == Len(st.messages)
<1>1. N \in Nat /\ DOMAIN st.messages = 1..N
  BY DEF Sound, States
<1>2. PICK g : /\ g[0] = st /\ Flushed(st, w) = g[N]
               /\ \A n \in 1..N : g[n] = SentIfOf(g[n - 1], w, n)
  BY <1>1, FlushingSteps
<1> HIDE DEF N
<1> DEFINE T == {n \in 0..N : ~Flushing(st, w, n, g[n])}
<1>3. CASE T = {}
  <2>1. N \in 0..N
    BY <1>1
  <2>2. Flushing(st, w, N, g[N])
    BY <1>3, <2>1
  <2> QED
    BY <2>2, <1>2 DEF N
<1>4. CASE T # {}
  <2>1. PICK x \in T : \A y \in T : x <= y
    <3>1. T \subseteq Nat
      BY <1>1
    <3> HIDE DEF T
    <3> QED
      BY <3>1, <1>4, Least
  <2>2. x # 0
    <3>1. \A j \in DOMAIN st.messages : j > 0
      BY <1>1
    <3>2. Flushing(st, w, 0, st)
      BY <3>1 DEF Flushing, SameMessage
    <3> QED
      BY <3>2, <1>2
  <2>3. x - 1 \in 0..N /\ x - 1 < x /\ x \in 1..N /\ x - 1 \in Nat /\ (x - 1) + 1 = x
    BY <2>2, <1>1
  <2>4. Flushing(st, w, x - 1, g[x - 1])
    BY <2>1, <2>3
  <2>5. Flushing(st, w, (x - 1) + 1, SentIfOf(g[x - 1], w, (x - 1) + 1))
    BY <2>3, <2>4, <1>1, FlushingStep
  <2>6. g[x] = SentIfOf(g[x - 1], w, x)
    BY <1>2, <2>3
  <2>7. Flushing(st, w, x, g[x])
    BY <2>3, <2>5, <2>6
  <2> QED
    BY <2>1, <2>7
<1> QED
  BY <1>3, <1>4

-----------------------------------------------------------------------------
(* A service message *)

(* What a message is when it is made. *)
Made(m, kind, w, v, cmd, wrappers) ==
    /\ m \in MessageSet /\ m.kind = kind /\ m.from = w /\ m.to = v /\ m.cmd = cmd
    /\ m.wrappers = wrappers /\ m.at = "posted" /\ m.calls = 0 /\ ~m.direct /\ ~m.timer
    /\ m.number = docs[v].number /\ m.heard = Listens(v) /\ m.origin = docs[w].origin
    /\ m.asked = "*" /\ ~m.twice /\ ~m.shown /\ ~m.due

(* The module's Message makes a new message. *)
LEMMA MessageIsNew ==
    ASSUME NEW kind \in {"user", "service", "request", "response"},
           NEW v \in PageWindows, NEW w \in PageWindows, NEW cmd \in PingCmds \cup {NoCmd},
           NEW wrappers \in Seq([originUrl : Origins, targetUrl : Targets]), DocsOk(docs)
    PROVE  Made(Message(kind, w, v, cmd, wrappers), kind, w, v, cmd, wrappers)
<1> DEFINE m == Message(kind, w, v, cmd, wrappers)
<1>1. docs[v] \in Documents /\ docs[v].number \in {1, 2} /\ docs[w].origin \in Origins
  BY DEF DocsOk, Documents
<1>2. Listens(v) \in BOOLEAN
  BY DEF Listens
<1>3. "*" \in Targets
  BY DEF Targets
<1>4. m = [kind |-> kind, from |-> w, to |-> v, cmd |-> cmd, wrappers |-> wrappers,
           at |-> "posted", direct |-> FALSE, timer |-> FALSE, number |-> docs[v].number, heard |-> Listens(v),
           calls |-> 0, asked |-> "*", twice |-> FALSE, origin |-> docs[w].origin, shown |-> FALSE, due |-> FALSE]
  BY DEF Message
<1> HIDE DEF m
<1>5. Made(m, kind, w, v, cmd, wrappers)
  BY <1>1, <1>2, <1>3, <1>4 DEF MessageSet, Made
<1> QED
  BY <1>5 DEF m

(* The fields of a message that is found to be direct. *)
LEMMA DirectType ==
    ASSUME NEW n \in MessageSet, NEW direct \in BOOLEAN, NEW m, m = [n EXCEPT !.direct = direct]
    PROVE  /\ m \in MessageSet /\ m.kind = n.kind /\ m.from = n.from /\ m.to = n.to /\ m.cmd = n.cmd
           /\ m.wrappers = n.wrappers /\ m.at = n.at /\ m.calls = n.calls /\ m.direct = direct
           /\ m.timer = n.timer /\ m.number = n.number /\ m.heard = n.heard /\ m.origin = n.origin
           /\ m.shown = n.shown /\ m.due = n.due
<1>1. m \in MessageSet
  BY DEF MessageSet
<1> QED
  BY <1>1 DEF MessageSet

(* A message that is put into the queue. *)
Queued(n) == [n EXCEPT !.at = "queued", !.timer = TRUE]

(* Its fields. *)
LEMMA QueuedType ==
    ASSUME NEW n \in MessageSet, NEW m, m = Queued(n)
    PROVE  /\ m \in MessageSet /\ m.kind = n.kind /\ m.from = n.from /\ m.to = n.to /\ m.cmd = n.cmd
           /\ m.wrappers = n.wrappers /\ m.at = "queued" /\ m.calls = n.calls /\ m.direct = n.direct
           /\ m.timer /\ m.number = n.number /\ m.heard = n.heard /\ m.origin = n.origin
           /\ m.shown = n.shown /\ m.due = n.due
<1>1. m \in MessageSet
  BY DEF MessageSet, Queued
<1> QED
  BY <1>1 DEF MessageSet, Queued

(* Replacing what was just appended is appending the other. *)
LEMMA AppendReplaced ==
    ASSUME NEW s \in Seq(MessageSet), NEW x \in MessageSet, NEW y \in MessageSet
    PROVE  [Append(s, x) EXCEPT ![Len(s) + 1] = y] = Append(s, y)
<1> DEFINE N == Len(s) + 1
           a == [Append(s, x) EXCEPT ![N] = y]
           b == Append(s, y)
<1>1. /\ Len(s) \in Nat /\ DOMAIN s = 1..Len(s) /\ DOMAIN Append(s, x) = 1..N /\ DOMAIN b = 1..N
      /\ \A i \in DOMAIN s : Append(s, x)[i] = s[i] /\ b[i] = s[i]
      /\ b[N] = y /\ Append(s, x) \in Seq(MessageSet) /\ b \in Seq(MessageSet) /\ Len(Append(s, x)) = N /\ Len(b) = N
  BY Appended
<1>2. N \in DOMAIN Append(s, x)
  BY <1>1
<1>3. /\ a \in Seq(MessageSet) /\ Len(a) = N
      /\ \A i \in 1..N : a[i] = IF i = N THEN y ELSE Append(s, x)[i]
  <2> DEFINE c == Append(s, x)
  <2>1. c \in Seq(MessageSet) /\ N \in DOMAIN c /\ DOMAIN c = 1..N /\ Len(c) = N /\ a = [c EXCEPT ![N] = y]
    BY <1>1, <1>2
  <2> HIDE DEF c, N, a
  <2>2. a \in Seq(MessageSet) /\ Len(a) = N /\ \A i \in 1..N : a[i] = IF i = N THEN y ELSE c[i]
    BY <2>1, Replaced
  <2> QED
    BY <2>2 DEF c
<1>4. \A i \in 1..N : i = N \/ i \in DOMAIN s
  BY <1>1
<1> HIDE DEF a, b, N
<1>5. \A i \in 1..N : a[i] = b[i]
  BY <1>1, <1>3, <1>4
<1>6. a = b
  BY <1>1, <1>3, <1>5, SeqEqual
<1> QED
  BY <1>6 DEF a, b, N

(* A state in which a message is put into the queue. *)
QueuedIn(st, i) == [st EXCEPT !.messages[i].at = "queued", !.messages[i].timer = TRUE]

(* It differs in that message only. *)
LEMMA QueuedIs ==
    ASSUME NEW st, NEW i
    PROVE  QueuedIn(st, i) = [st EXCEPT !.messages = [st.messages EXCEPT ![i] = Queued(st.messages[i])]]
BY DEF QueuedIn, Queued

(* What is sent may be answered by nobody but the frame of the ping. *)
MaySend(st, w, v, kind, cmd) ==
    /\ kind \in {"service", "request", "response"} /\ cmd \in PingCmds \cup {NoCmd}
    /\ kind = "service" => cmd = NoCmd
    /\ kind = "response" => v = TopWindow
    /\ cmd # NoCmd =>
          /\ \E p \in DOMAIN st.pings : st.pings[p].cmd = cmd
          /\ \A p \in DOMAIN st.pings : Asks(st.pings[p]) /\ st.pings[p].cmd = cmd =>
                /\ kind = "request" => v = st.pings[p].target
                /\ kind = "response" => w = st.pings[p].target

(* Sending a service message keeps the invariant, whether it is posted, queued or, after  *)
(* the flush of the queue, sent at once (sendServiceMsg).                                 *)
LEMMA SendServiceMsgSound ==
    ASSUME NEW st, Sound(docs, st), EachWaits(docs, st.messages), DocsOk(docs),
           NEW w \in PageWindows, NEW v \in PageWindows, NEW kind, NEW cmd, MaySend(st, w, v, kind, cmd),
           NEW t, t = SendServiceMsg(st, w, v, kind, cmd)
    PROVE  Sound(docs, t) /\ EachWaits(docs, t.messages)
<1> DEFINE n == Message(kind, w, v, cmd, <<>>)
           direct == CanSendDirectly(w, v)
           m == [n EXCEPT !.direct = direct]
           q == Queued(m)
           i == Len(st.messages) + 1
           sent == Added(st, m)
<1>1. /\ st \in States /\ st.messages \in Seq(MessageSet) /\ IsState(st) /\ Len(st.messages) \in Nat
      /\ DOMAIN st.messages = 1..Len(st.messages)
  BY StatesAre DEF Sound, States
<1>2. /\ n \in MessageSet /\ n.kind = kind /\ n.from = w /\ n.to = v /\ n.cmd = cmd
      /\ n.at = "posted" /\ n.calls = 0 /\ ~n.direct /\ ~n.timer
      /\ n.number = docs[v].number /\ n.heard = Listens(v) /\ n.origin = docs[w].origin
      /\ ~n.shown /\ ~n.due
  <2>1. kind \in {"user", "service", "request", "response"} /\ cmd \in PingCmds \cup {NoCmd}
    BY DEF MaySend
  <2> DEFINE none == <<>>
  <2>2. none \in Seq([originUrl : Origins, targetUrl : Targets])
    OBVIOUS
  <2>3. n = Message(kind, w, v, cmd, none)
    OBVIOUS
  <2> HIDE DEF n, none
  <2>4. Made(n, kind, w, v, cmd, none)
    BY <2>1, <2>2, <2>3, MessageIsNew
  <2> QED
    BY <2>4 DEF Made
<1>3. direct \in BOOLEAN
  BY DEF CanSendDirectly, SameDomain
<1> HIDE DEF n, direct
<1>4. /\ m \in MessageSet /\ m.kind = kind /\ m.from = w /\ m.to = v /\ m.cmd = cmd
      /\ m.at = "posted" /\ m.calls = 0 /\ m.direct = direct /\ ~m.timer
      /\ m.number = docs[v].number /\ m.heard = Listens(v) /\ m.origin = docs[w].origin
      /\ ~m.shown /\ ~m.due
  BY <1>2, <1>3, DirectType
<1> HIDE DEF m
<1>5. /\ q \in MessageSet /\ q.kind = kind /\ q.from = w /\ q.to = v /\ q.cmd = cmd
      /\ q.at = "queued" /\ q.calls = 0 /\ q.direct = direct /\ q.timer
      /\ q.number = docs[v].number /\ q.heard = Listens(v) /\ q.origin = docs[w].origin
      /\ ~q.shown /\ ~q.due
  <2>1. q = Queued(m)
    OBVIOUS
  <2> HIDE DEF q
  <2>2. /\ q \in MessageSet /\ q.kind = m.kind /\ q.from = m.from /\ q.to = m.to /\ q.cmd = m.cmd
        /\ q.wrappers = m.wrappers /\ q.at = "queued" /\ q.calls = m.calls /\ q.direct = m.direct
        /\ q.timer /\ q.number = m.number /\ q.heard = m.heard /\ q.origin = m.origin
        /\ q.shown = m.shown /\ q.due = m.due
    BY <2>1, <1>4, QueuedType
  <2> QED
    BY <2>2, <1>4
<1> HIDE DEF q
<1>6. ASSUME NEW x \in {m, q} PROVE NewMessage(st, x)
  <2>1. /\ x \in MessageSet /\ x.kind = kind /\ x.from = w /\ x.to = v /\ x.cmd = cmd /\ x.calls = 0
        /\ x.at # "done" /\ ~x.shown /\ ~x.due
    BY <1>4, <1>5
  <2>2. Shows(x)
    BY <2>1 DEF Shows, MaySend, MessageSet
  <2> QED
    BY <2>1, <2>2 DEF NewMessage, MaySend, OfPing
<1>7. /\ docs[v].number \in Nat
      /\ direct => Listens(v) /\ docs[v].origin = docs[w].origin
      /\ Listens(v) => docs[v].attached
  BY DEF DocsOk, direct, CanSendDirectly, SameDomain, Listens
<1>8. Arrives(docs, m)
  BY <1>4, <1>7, <1>3 DEF Arrives
<1>9. direct => Arrives(docs, q)
  BY <1>5, <1>7, <1>3 DEF Arrives
<1>10. Sound(docs, sent)
  BY <1>4, <1>6, <1>8, AddedSound
<1>11. /\ sent.messages = Append(st.messages, m) /\ sent = Of(Append(st.messages, m), st.received, st.pings, st.ping)
       /\ IsState(sent)
  <2>1. sent = Of(Append(st.messages, m), st.received, st.pings, st.ping)
    BY <1>1, NewMessages DEF Added
  <2>2. sent.messages = Append(st.messages, m)
    BY <2>1 DEF Of
  <2> HIDE DEF sent
  <2> QED
    BY <2>1, <2>2, Parts
<1>12. t = IF direct THEN Delayed(sent, w, i) ELSE sent
  BY DEF SendServiceMsg, Added, m, n, direct
<1> HIDE DEF sent
<1>13. /\ DOMAIN sent.messages = 1..i /\ sent.messages[i] = m /\ i \in DOMAIN sent.messages
       /\ \A j \in DOMAIN st.messages : sent.messages[j] = st.messages[j]
       /\ \A j \in DOMAIN sent.messages : j \in DOMAIN st.messages \/ j = i
  BY <1>1, <1>4, <1>11, Appended
<1>14. CASE ~direct
  <2>1. Waits(docs, m)
    BY <1>4, <1>14 DEF Waits
  <2> QED
    BY <2>1, <1>10, <1>12, <1>13, <1>14 DEF EachWaits
<1>15. CASE direct /\ docs[w].unloaded
  <2>1. t = SendFunc(sent, i)
    BY <1>12, <1>15 DEF Delayed
  <2>2. ASSUME NEW j \in DOMAIN sent.messages, sent.messages[j].at # "done",
               SameWay(sent.messages[i], sent.messages[j])
        PROVE  i <= j
    <3>1. CASE j = i
      BY <3>1, <1>1
    <3>2. CASE j # i
      <4>1. j \in DOMAIN st.messages /\ sent.messages[j] = st.messages[j] /\ st.messages[j] \in MessageSet
        BY <3>2, <1>1, <1>13
      <4>2. st.messages[j].direct /\ st.messages[j].from = w
        BY <4>1, <2>2, <1>4, <1>13, <1>15 DEF SameWay
      <4>3. st.messages[j].at = "queued"
        BY <4>1, <4>2, <2>2 DEF EachWaits, Waits, MessageSet
      <4> QED
        BY <4>1, <4>2, <4>3, <1>15 DEF EachWaits, Waits
    <3> QED
      BY <3>1, <3>2
  <2>3. Sound(docs, t) /\ Only(sent.messages, t.messages, i)
    <3>1. First(sent.messages, i)
      BY <2>2 DEF First
    <3> HIDE DEF i
    <3> QED
      BY <3>1, <2>1, <1>4, <1>10, <1>13, <1>15, SendFuncSound
  <2>4. ASSUME NEW j \in DOMAIN t.messages PROVE Waits(docs, t.messages[j])
    <3>1. CASE j = i
      BY <3>1, <2>3 DEF Only, Waits
    <3>2. CASE j # i
      BY <3>2, <2>3, <1>13 DEF Only, EachWaits
    <3> QED
      BY <3>1, <3>2
  <2> QED
    BY <2>3, <2>4 DEF EachWaits
<1>16. CASE direct /\ ~docs[w].unloaded
  <2>1. t = QueuedIn(sent, i)
    BY <1>12, <1>16 DEF Delayed, QueuedIn
  <2>2. t = [sent EXCEPT !.messages = [sent.messages EXCEPT ![i] = Queued(sent.messages[i])]]
    BY <2>1, QueuedIs
  <2>3. [sent.messages EXCEPT ![i] = Queued(sent.messages[i])] = Append(st.messages, q)
    <3>2. [Append(st.messages, m) EXCEPT ![Len(st.messages) + 1] = q] = Append(st.messages, q)
      BY <1>1, <1>4, <1>5, AppendReplaced
    <3>1. [sent.messages EXCEPT ![i] = q] = Append(st.messages, q)
      BY <3>2, <1>11
    <3> QED
      BY <3>1, <1>13 DEF q
  <2>4. t = [sent EXCEPT !.messages = Append(st.messages, q)]
    BY <2>2, <2>3
  <2>5. t = Of(Append(st.messages, q), sent.received, sent.pings, sent.ping)
    BY <2>4, <1>11, NewMessages
  <2>6. t = Of(Append(st.messages, q), st.received, st.pings, st.ping)
    BY <2>5, <1>11, Parts
  <2>7. t = Added(st, q)
    BY <2>6, <1>1, NewMessages DEF Added
  <2>8. Sound(docs, t)
    BY <2>7, <1>5, <1>6, <1>9, <1>16, AddedSound
  <2>9. Waits(docs, q)
    BY <1>5, <1>16 DEF Waits
  <2>10. t.messages = Append(st.messages, q)
    BY <2>6 DEF Of
  <2>11. /\ \A j \in DOMAIN st.messages : t.messages[j] = st.messages[j]
         /\ \A j \in DOMAIN t.messages : j \in DOMAIN st.messages \/ t.messages[j] = q
    BY <2>10, <1>1, <1>5, Appended
  <2> QED
    BY <2>8, <2>9, <2>11 DEF EachWaits
<1> QED
  BY <1>3, <1>14, <1>15, <1>16

-----------------------------------------------------------------------------
(* Documents and timers *)

(* What a step may do to the documents: a window's document is the same, with what it has *)
(* attached, or another one.                                                              *)
Moved(d, e) ==
    /\ DocsOk(d) /\ DocsOk(e)
    /\ \A w \in PageWindows :
          /\ d[w].number <= e[w].number /\ (e[w].present => d[w].present)
          /\ d[w].number = e[w].number =>
                e[w].origin = d[w].origin /\ (d[w].attached => e[w].attached \/ ~e[w].present)

(* What is said of a message is still true when documents come and go. *)
LEMMA ArrivesMoved ==
    ASSUME NEW d, NEW e, Moved(d, e), NEW m \in MessageSet, Arrives(d, m)
    PROVE  Arrives(e, m)
<1>1. /\ m.to \in PageWindows /\ m.from \in PageWindows /\ m.number \in {1, 2}
  BY DEF MessageSet
<1>2. /\ d[m.to].number \in {1, 2} /\ e[m.to].number \in {1, 2}
  BY <1>1 DEF Moved, DocsOk
<1>3. /\ d[m.to].number <= e[m.to].number /\ (e[m.to].present => d[m.to].present)
      /\ (e[m.from].present => d[m.from].present)
      /\ d[m.to].number = e[m.to].number =>
            e[m.to].origin = d[m.to].origin /\ (d[m.to].attached => e[m.to].attached \/ ~e[m.to].present)
  BY <1>1 DEF Moved
<1>4. m.number <= e[m.to].number /\ (m.number = e[m.to].number => m.number = d[m.to].number)
  BY <1>1, <1>2, <1>3 DEF Arrives
<1>5. m.number = e[m.to].number /\ m.heard => e[m.to].attached \/ ~e[m.to].present
  BY <1>1, <1>2, <1>3, <1>4 DEF Arrives
<1>6. m.number = e[m.to].number /\ m.direct => e[m.to].origin = m.origin
  BY <1>1, <1>2, <1>3, <1>4 DEF Arrives
<1>7. m.at = "done" /\ m.calls = 0 /\ m.kind # "user" =>
          \/ ~m.heard \/ m.number # e[m.to].number \/ ~e[m.to].present
          \/ ~m.direct /\ ~e[m.from].present
  BY <1>1, <1>2, <1>3, <1>4 DEF Arrives
<1> QED
  BY <1>4, <1>5, <1>6, <1>7 DEF Arrives

(* A state that is sound stays so when documents come and go. *)
LEMMA SoundMoved ==
    ASSUME NEW d, NEW e, Moved(d, e), NEW st, Sound(d, st)
    PROVE  Sound(e, st)
<1>1. \A i \in DOMAIN st.messages : st.messages[i] \in MessageSet
  BY DEF Sound, States
<1>2. EachArrives(e, st.messages)
  BY <1>1, ArrivesMoved DEF Sound, EachArrives
<1> QED
  BY <1>2 DEF Sound

(* Messages that differ in their timers and in what was seen of them. *)
Alike(n, m) ==
    /\ m.kind = n.kind /\ m.from = n.from /\ m.to = n.to /\ m.cmd = n.cmd /\ m.wrappers = n.wrappers
    /\ m.direct = n.direct /\ m.number = n.number /\ m.heard = n.heard
    /\ m.asked = n.asked /\ m.twice = n.twice /\ m.origin = n.origin
    /\ m.at = n.at /\ m.calls = n.calls

(* All messages are as they were but for that. *)
Retouched(ms, ns) ==
    /\ ns \in Seq(MessageSet) /\ DOMAIN ns = DOMAIN ms
    /\ \A i \in DOMAIN ms : Alike(ns[i], ms[i]) /\ Shows(ns[i]) /\ (ns[i].timer => ms[i].timer)

(* The fields of a message that loses its timer. *)
LEMMA TimerType ==
    ASSUME NEW n \in MessageSet, NEW m, m = [n EXCEPT !.timer = FALSE]
    PROVE  m \in MessageSet /\ Alike(m, n) /\ (Shows(n) => Shows(m)) /\ ~m.timer
<1>1. m \in MessageSet
  BY DEF MessageSet
<1>2. ~m.timer
  BY DEF MessageSet
<1>3. Alike(m, n)
  BY DEF MessageSet, Alike
<1>4. m.shown = n.shown /\ m.due = n.due
  BY DEF MessageSet
<1> QED
  BY <1>1, <1>2, <1>3, <1>4 DEF Shows, AsPosted, Alike

(* A state stays sound when its messages are retouched. *)
LEMMA RetouchedSound ==
    ASSUME NEW d, NEW st, Sound(d, st), NEW ns, Retouched(st.messages, ns)
    PROVE  Sound(d, Of(ns, st.received, st.pings, st.ping))
<1> DEFINE ms == st.messages
           t == Of(ns, st.received, st.pings, st.ping)
<1>1. st \in States /\ st.received \in Seq(Nat) /\ st.pings \in Seq(PingSet)
      /\ st.ping \in [callback : Nat, cmd : PingCmds \cup {NoCmd}]
  BY DEF Sound, States
<1>2. /\ ns \in Seq(MessageSet) /\ DOMAIN ns = DOMAIN ms
      /\ \A i \in DOMAIN ms : Alike(ns[i], ms[i]) /\ Shows(ns[i]) /\ (ns[i].timer => ms[i].timer)
  BY DEF Retouched
<1>3. t \in States
  BY <1>1, <1>2 DEF States, Of
<1>4. t.messages = ns /\ t.received = st.received /\ t.pings = st.pings /\ t.ping = st.ping
  BY DEF Of
<1>5. EachArrives(d, ns)
  <2> SUFFICES ASSUME NEW i \in DOMAIN ms PROVE Shows(ns[i]) /\ Arrives(d, ns[i])
    BY <1>2 DEF EachArrives
  <2>1. Arrives(d, ms[i]) /\ Alike(ns[i], ms[i]) /\ (ns[i].timer => ms[i].timer)
    BY <1>2 DEF Sound, EachArrives
  <2>2. Shows(ns[i])
    BY <1>2
  <2>3. Arrives(d, ns[i])
    BY <2>1 DEF Arrives, Alike
  <2> QED
    BY <2>2, <2>3
<1>6. InOrder(ns, st.received)
  <2>1. InOrder(ms, st.received)
    BY DEF Sound
  <2>2. \A i, j \in DOMAIN ms : SameWay(ns[i], ns[j]) => SameWay(ms[i], ms[j])
    BY <1>2 DEF SameWay, Alike
  <2>3. \A i \in DOMAIN ms : ns[i].at = ms[i].at
    BY <1>2 DEF Alike
  <2> QED
    BY <2>1, <2>2, <2>3, <1>2 DEF InOrder
<1>7. Truthful(ns, st.pings)
  <2>1. Truthful(ms, st.pings)
    BY DEF Sound
  <2>2. \A i \in DOMAIN ms : ns[i].cmd = ms[i].cmd
    BY <1>2 DEF Alike
  <2>3. \A p : \A i \in DOMAIN ms : OfPing(ms[i], p) => OfPing(ns[i], p)
    BY <1>2 DEF Alike, OfPing
  <2>4. \A p : Answered(ms, p) => Answered(ns, p)
    BY <1>2 DEF Alike, Answered
  <2> QED
    BY <2>1, <2>2, <2>3, <2>4, <1>2 DEF Truthful
<1> HIDE DEF t
<1>8. Sound(d, t)
  BY <1>3, <1>4, <1>5, <1>6, <1>7 DEF Sound
<1> QED
  BY <1>8 DEF t

-----------------------------------------------------------------------------
(* The invariant *)

(* The inductive invariant. *)
Inv == DocsOk(docs) /\ Sound(docs, State) /\ EachWaits(docs, messages)

(* What the invariant says, part by part. *)
LEMMA InvParts ==
    ASSUME Inv
    PROVE  /\ State = Of(messages, received, pings, ping) /\ IsState(State)
           /\ State.messages = messages /\ State.received = received
           /\ State.pings = pings /\ State.ping = ping
           /\ State \in States
           /\ messages \in Seq(MessageSet) /\ received \in Seq(Nat) /\ pings \in Seq(PingSet)
           /\ Len(messages) \in Nat /\ DOMAIN messages = 1..Len(messages)
           /\ Len(pings) \in Nat /\ DOMAIN pings = 1..Len(pings)
           /\ \A i \in DOMAIN messages : messages[i] \in MessageSet /\ i \in Nat
           /\ EachArrives(docs, messages) /\ InOrder(messages, received)
           /\ Pinging(pings, ping) /\ Truthful(messages, pings)
<1>1. State = Of(messages, received, pings, ping)
  BY DEF State, Of
<1>2. /\ State.messages = messages /\ State.received = received
      /\ State.pings = pings /\ State.ping = ping /\ IsState(State)
  BY <1>1, Parts
<1>3. State \in States
  BY DEF Inv, Sound
<1>4. messages \in Seq(MessageSet) /\ received \in Seq(Nat) /\ pings \in Seq(PingSet)
  BY <1>2, <1>3 DEF States
<1>5. /\ EachArrives(docs, messages) /\ InOrder(messages, received)
      /\ Pinging(pings, ping) /\ Truthful(messages, pings)
  BY <1>2 DEF Inv, Sound
<1>6. /\ Len(messages) \in Nat /\ DOMAIN messages = 1..Len(messages)
      /\ \A i \in DOMAIN messages : messages[i] \in MessageSet /\ i \in Nat
      /\ Len(pings) \in Nat /\ DOMAIN pings = 1..Len(pings)
  BY <1>4
<1> QED
  BY <1>1, <1>2, <1>3, <1>4, <1>5, <1>6

(* A step to a state that is sound keeps the invariant. *)
LEMMA Becoming ==
    ASSUME NEW st, Becomes(st), DocsOk(docs'), Sound(docs', st), EachWaits(docs', st.messages)
    PROVE  Inv'
<1>1. IsState(st)
  BY StatesAre DEF Sound
<1>2. messages' = st.messages /\ received' = st.received /\ pings' = st.pings /\ ping' = st.ping
  BY DEF Becomes
<1>3. State' = st
  BY <1>1, <1>2 DEF State, IsState, Of
<1>4. Sound(docs', State') /\ EachWaits(docs', messages')
  BY <1>2, <1>3
<1> QED
  BY <1>4 DEF Inv

(* It holds when there are no messages. *)
LEMMA InitInv ==
    ASSUME WindowsInit PROVE Inv
<1>1. DocsOk(docs)
  BY DEF WindowsInit, DocsOk, Documents, PageWindows, Frames, TopWindow, Origins
<1>2. messages = <<>> /\ received = <<>> /\ pings = <<>> /\ ping = [callback |-> NoPing, cmd |-> NoCmd]
  BY DEF WindowsInit
<1>3. State \in States
  BY <1>2, NamesAre DEF State, States, Names
<1>4. DOMAIN messages = {} /\ DOMAIN received = {} /\ DOMAIN pings = {}
  BY <1>2
<1>5. /\ State.messages = messages /\ State.received = received
      /\ State.pings = pings /\ State.ping = ping
  BY DEF State
<1>6. EachArrives(docs, messages) /\ EachWaits(docs, messages) /\ InOrder(messages, received)
      /\ Truthful(messages, pings)
  BY <1>4 DEF EachArrives, EachWaits, InOrder, Truthful
<1>7. Pinging(pings, ping)
  BY <1>2, <1>4 DEF Pinging
<1> QED
  BY <1>1, <1>3, <1>5, <1>6, <1>7 DEF Inv, Sound

-----------------------------------------------------------------------------
(* Steps of the pages *)

(* A message of a page. *)
Asking(n, asked, twice) == [n EXCEPT !.asked = asked, !.twice = twice]

(* Its fields. *)
LEMMA AskedType ==
    ASSUME NEW n \in MessageSet, NEW asked \in Targets, NEW twice \in BOOLEAN,
           NEW m, m = Asking(n, asked, twice)
    PROVE  /\ m \in MessageSet /\ m.kind = n.kind /\ m.from = n.from /\ m.to = n.to /\ m.cmd = n.cmd
           /\ m.wrappers = n.wrappers /\ m.at = n.at /\ m.calls = n.calls /\ m.direct = n.direct
           /\ m.timer = n.timer /\ m.number = n.number /\ m.heard = n.heard /\ m.origin = n.origin
           /\ m.shown = n.shown /\ m.due = n.due /\ m.asked = asked /\ m.twice = twice
<1>1. m \in MessageSet
  BY DEF MessageSet, Asking
<1> QED
  BY <1>1 DEF MessageSet, Asking

(* The module's Wrappers are one wrapper or two. *)
LEMMA WrappersType ==
    ASSUME DocsOk(docs), NEW w \in PageWindows, NEW target \in Targets, NEW twice \in BOOLEAN,
           NEW x, x = Wrappers(w, target, twice)
    PROVE  LET last == Wrapper(w, TargetUrl(w, target)) IN
           /\ x \in Seq([originUrl : Origins, targetUrl : Targets])
           /\ x = IF twice THEN <<Wrapper(w, "*"), last>> ELSE <<last>>
<1> DEFINE a == Wrapper(w, "*")
           b == Wrapper(w, TargetUrl(w, target))
           S == [originUrl : Origins, targetUrl : Targets]
<1>1. docs[w].origin \in Origins /\ Origins \subseteq Targets /\ "*" \in Targets
  BY DEF DocsOk, Documents, Targets
<1>2. a \in S /\ b \in S
  BY <1>1 DEF Wrapper, TargetUrl
<1>3. x = (IF twice THEN <<a>> ELSE <<>>) \o <<b>>
  BY DEF Wrappers
<1> HIDE DEF a, b, S
<1>4. x \in Seq(S) /\ x = IF twice THEN <<a, b>> ELSE <<b>>
  <2>1. <<a>> \in Seq(S) /\ <<b>> \in Seq(S)
    BY <1>2
  <2>2. x \in Seq(S)
    BY <1>3, <2>1
  <2>3. CASE twice
    <3>1. x = <<a>> \o <<b>>
      BY <1>3, <2>3
    <3>2. <<a>> \o <<b>> = <<a, b>>
      <4> DEFINE c == <<a>> \o <<b>>
      <4>1. c \in Seq(S) /\ Len(c) = 2 /\ c[1] = a /\ c[2] = b
        BY <2>1
      <4> HIDE DEF c
      <4>2. <<a, b>> \in Seq(S) /\ Len(<<a, b>>) = 2
        BY <1>2
      <4>3. c = <<a, b>>
        BY <4>1, <4>2, SeqEqual
      <4> QED
        BY <4>3 DEF c
    <3> QED
      BY <2>2, <2>3, <3>1, <3>2
  <2>4. CASE ~twice
    <3>1. x = <<>> \o <<b>>
      BY <1>3, <2>4
    <3>2. <<>> \o <<b>> = <<b>>
      BY <1>2
    <3> QED
      BY <2>2, <2>4, <3>1, <3>2
  <2> QED
    BY <2>3, <2>4
<1> QED
  BY <1>4 DEF a, b, S

(* A step that adds a message keeps the invariant. *)
LEMMA AddedIs ==
    ASSUME Inv, NEW m, messages' = Append(messages, m), UNCHANGED <<docs, received, pings, ping>>,
           NewMessage(State, m), Arrives(docs, m), Waits(docs, m)
    PROVE  Inv'
<1> DEFINE t == Added(State, m)
<1>1. t = Of(Append(messages, m), received, pings, ping)
  BY InvParts, NewMessages DEF Added
<1>0. t = Added(State, m)
  OBVIOUS
<1> HIDE DEF t
<1>2. t.messages = Append(messages, m) /\ t.received = received /\ t.pings = pings /\ t.ping = ping
  BY <1>1 DEF Of
<1>3. Sound(docs, t)
  BY <1>0, AddedSound DEF Inv
<1>4. EachWaits(docs, t.messages)
  BY <1>2, InvParts, Appended DEF Inv, EachWaits, NewMessage
<1>5. Becomes(t)
  BY <1>2 DEF Becomes
<1>6. DocsOk(docs') /\ Sound(docs', t) /\ EachWaits(docs', t.messages)
  BY <1>3, <1>4 DEF Inv
<1> QED
  BY <1>5, <1>6, Becoming

(* What a page posts keeps the invariant (postMessage). *)
LEMMA PostMessageStep ==
    ASSUME Inv, NEW w \in PageWindows, NEW v \in PageWindows, NEW target \in Targets, NEW twice \in BOOLEAN,
           PostMessage(w, v, target, twice)
    PROVE  Inv'
<1> DEFINE x == Wrappers(w, target, twice)
           n == Message("user", w, v, NoCmd, x)
           m == [n EXCEPT !.asked = target, !.twice = twice]
           last == Wrapper(w, TargetUrl(w, target))
<1>1. DocsOk(docs)
  BY DEF Inv
<1>2. messages' = Append(messages, m) /\ UNCHANGED <<docs, received, pings, ping>>
  BY DEF PostMessage
<1>3. /\ x \in Seq([originUrl : Origins, targetUrl : Targets])
      /\ x = IF twice THEN <<Wrapper(w, "*"), last>> ELSE <<last>>
  BY <1>1, WrappersType
<1> HIDE DEF x
<1>4. Made(n, "user", w, v, NoCmd, x)
  <2>1. "user" \in {"user", "service", "request", "response"} /\ NoCmd \in PingCmds \cup {NoCmd}
    OBVIOUS
  <2> QED
    BY <1>1, <1>3, <2>1, MessageIsNew
<1>m. m = Asking(n, target, twice)
  BY DEF Asking
<1> HIDE DEF n, m
<1>5. /\ m \in MessageSet /\ m.kind = "user" /\ m.from = w /\ m.to = v /\ m.cmd = NoCmd
      /\ m.wrappers = x /\ m.at = "posted" /\ m.calls = 0 /\ ~m.direct
      /\ ~m.timer /\ m.number = docs[v].number /\ m.heard = Listens(v) /\ m.origin = docs[w].origin
      /\ ~m.shown /\ ~m.due /\ m.asked = target /\ m.twice = twice
  <2>1. n \in MessageSet
    BY <1>4 DEF Made
  <2>2. /\ m \in MessageSet /\ m.kind = n.kind /\ m.from = n.from /\ m.to = n.to /\ m.cmd = n.cmd
        /\ m.wrappers = n.wrappers /\ m.at = n.at /\ m.calls = n.calls /\ m.direct = n.direct
        /\ m.timer = n.timer /\ m.number = n.number /\ m.heard = n.heard /\ m.origin = n.origin
        /\ m.shown = n.shown /\ m.due = n.due /\ m.asked = target /\ m.twice = twice
    BY <2>1, <1>m, AskedType
  <2> QED
    BY <2>2, <1>4 DEF Made
<1>6. AsPosted(m)
  BY <1>3, <1>5 DEF AsPosted, Wrapper, TargetUrl
<1>7. NewMessage(State, m)
  <2>1. Shows(m)
    BY <1>5, <1>6 DEF Shows, MessageSet
  <2> QED
    BY <1>5, <2>1 DEF NewMessage
<1>8. Arrives(docs, m)
  <2>1. docs[v].number \in Nat /\ (Listens(v) => docs[v].attached)
    BY <1>1 DEF DocsOk, Listens
  <2> QED
    BY <1>5, <2>1 DEF Arrives
<1>9. Waits(docs, m)
  BY <1>5 DEF Waits
<1> QED
  BY <1>2, <1>7, <1>8, <1>9, AddedIs

(* So does a step that sends a service message. *)
LEMMA ServiceStep ==
    ASSUME Inv, NEW st, Sound(docs, st), EachWaits(docs, st.messages),
           NEW w \in PageWindows, NEW v \in PageWindows, NEW kind, NEW cmd, MaySend(st, w, v, kind, cmd),
           Becomes(SendServiceMsg(st, w, v, kind, cmd)), UNCHANGED docs
    PROVE  Inv'
<1> DEFINE t == SendServiceMsg(st, w, v, kind, cmd)
<1>0. t = SendServiceMsg(st, w, v, kind, cmd) /\ Becomes(t)
  OBVIOUS
<1> HIDE DEF t
<1>1. DocsOk(docs)
  BY DEF Inv
<1>2. Sound(docs, t) /\ EachWaits(docs, t.messages)
  BY <1>0, <1>1, SendServiceMsgSound
<1>3. DocsOk(docs') /\ Sound(docs', t) /\ EachWaits(docs', t.messages)
  BY <1>1, <1>2
<1> QED
  BY <1>0, <1>3, Becoming

(* A service message that is of no ping. *)
LEMMA SendStep ==
    ASSUME Inv, NEW w \in PageWindows, NEW v \in PageWindows, Send(w, v)
    PROVE  Inv'
<1>1. MaySend(State, w, v, "service", NoCmd)
  BY DEF MaySend
<1>2. Sound(docs, State) /\ EachWaits(docs, State.messages)
  BY InvParts DEF Inv
<1>3. Becomes(SendServiceMsg(State, w, v, "service", NoCmd)) /\ UNCHANGED docs
  BY DEF Send
<1> QED
  BY <1>1, <1>2, <1>3, ServiceStep

-----------------------------------------------------------------------------
(* Steps of the pings *)

(* An answer of a frame to a request: the frame is that of the request's ping, if only    *)
(* that one can be answered.                                                              *)
LEMMA AnswerPingStep ==
    ASSUME Inv, NEW i \in DOMAIN messages, AnswerPing(i)
    PROVE  Inv'
<1> DEFINE n == messages[i]
<1>1. n \in MessageSet /\ n.kind = "request"
  BY InvParts DEF AnswerPing
<1>2. n.to \in PageWindows /\ TopWindow \in PageWindows /\ n.cmd \in PingCmds \cup {NoCmd}
  BY <1>1 DEF MessageSet, PageWindows
<1>3. MaySend(State, n.to, TopWindow, "response", n.cmd)
  <2>1. Truthful(messages, pings) /\ State.pings = pings
    BY InvParts
  <2>2. n.cmd # NoCmd => \E p \in DOMAIN pings : pings[p].cmd = n.cmd
    BY <2>1 DEF Truthful
  <2>3. \A p \in DOMAIN pings : Asks(pings[p]) /\ pings[p].cmd = n.cmd => n.to = pings[p].target
    BY <2>1, <1>1 DEF Truthful, OfPing
  <2> QED
    BY <2>1, <2>2, <2>3, <1>2 DEF MaySend
<1>4. Sound(docs, State) /\ EachWaits(docs, State.messages)
  BY InvParts DEF Inv
<1>5. Becomes(SendServiceMsg(State, n.to, TopWindow, "response", n.cmd)) /\ UNCHANGED docs
  BY DEF AnswerPing
<1> HIDE DEF n
<1> QED
  BY <1>2, <1>3, <1>4, <1>5, ServiceStep

(* A request to the frame of a pending ping, with the command of the last one. *)
LEMMA SendPingRequestStep ==
    ASSUME Inv, NEW st, Sound(docs, st), EachWaits(docs, st.messages), NEW p \in DOMAIN st.pings,
           st.pings[p].state = "pending", Becomes(SendPingRequest(st, p)), UNCHANGED docs
    PROVE  Inv'
<1> DEFINE f == st.pings[p].target
<1>1. st.pings \in Seq(PingSet) /\ st.ping.cmd \in PingCmds \cup {NoCmd} /\ Pinging(st.pings, st.ping)
  BY DEF Sound, States
<1>2. f \in PageWindows /\ TopWindow \in PageWindows
  <2>1. st.pings[p] \in PingSet
    BY <1>1
  <2> QED
    BY <2>1 DEF PingSet, PageWindows
<1>3. MaySend(st, TopWindow, f, "request", st.ping.cmd)
  <2>1. st.ping.cmd # NoCmd => \E q \in DOMAIN st.pings : st.pings[q].cmd = st.ping.cmd
    BY <1>1 DEF Pinging
  <2>2. \A q \in DOMAIN st.pings : Asks(st.pings[q]) => p = q
    BY <1>1 DEF Pinging, Asks
  <2> QED
    BY <2>1, <2>2, <1>1 DEF MaySend
<1>4. CASE docs[f].present
  <2>1. Becomes(SendServiceMsg(st, TopWindow, f, "request", st.ping.cmd))
    BY <1>4 DEF SendPingRequest
  <2> HIDE DEF f
  <2> QED
    BY <1>2, <1>3, <2>1, ServiceStep
<1>5. CASE ~docs[f].present
  <2>1. Becomes(st)
    BY <1>5 DEF SendPingRequest
  <2>2. DocsOk(docs') /\ Sound(docs', st) /\ EachWaits(docs', st.messages)
    BY DEF Inv
  <2> QED
    BY <2>1, <2>2, Becoming
<1> QED
  BY <1>4, <1>5

(* The interval of a ping sends its requests. *)
LEMMA PingAgainStep ==
    ASSUME Inv, NEW p \in DOMAIN pings, PingAgain(p)
    PROVE  Inv'
<1>1. State.pings = pings /\ pings[p].state = "pending"
  BY InvParts DEF PingAgain, Pinging
<1>2. Sound(docs, State) /\ EachWaits(docs, State.messages)
  BY InvParts DEF Inv
<1>3. Becomes(SendPingRequest(State, p)) /\ UNCHANGED docs
  BY DEF PingAgain
<1>4. p \in DOMAIN State.pings /\ State.pings[p].state = "pending"
  BY <1>1
<1> QED
  BY <1>2, <1>3, <1>4, SendPingRequestStep

(* The timeout of a ping rejects it. *)
LEMMA PingTimeoutStep ==
    ASSUME Inv, NEW p \in DOMAIN pings, PingTimeout(p)
    PROVE  Inv'
<1> DEFINE qs == [pings EXCEPT ![p] = SettledPing(pings[p], "rejected")]
           t == Of(messages, received, qs, NoCallback)
<1>1. pings[p].state = "pending"
  BY InvParts DEF PingTimeout, Pinging
<1>2. Settled(State, p, "rejected") = t
  <2>1. Settled(State, p, "rejected") =
          Of(State.messages, State.received,
             [State.pings EXCEPT ![p] = SettledPing(State.pings[p], "rejected")], NoCallback)
    BY InvParts, SettledIs
  <2> QED
    BY <2>1, InvParts
<1>3. /\ qs \in Seq(PingSet) /\ DOMAIN qs = DOMAIN pings
      /\ \A q \in DOMAIN pings : q # p => qs[q] = pings[q]
      /\ qs[p].state = "rejected" /\ qs[p].cmd = pings[p].cmd
      /\ Pinging(qs, NoCallback)
  <2>1. pings \in Seq(PingSet) /\ Pinging(pings, ping)
    BY InvParts
  <2>2. qs = SettledIn(pings, p, "rejected") /\ "rejected" \in {"resolved", "rejected"}
    BY DEF SettledIn
  <2> HIDE DEF qs
  <2> QED
    BY <2>1, <2>2, <1>1, SettledPings
<1> HIDE DEF qs
<1>4. t.messages = messages /\ t.received = received /\ t.pings = qs /\ t.ping = NoCallback /\ IsState(t)
  BY Parts
<1>5. t \in States
  <2>1. NoCallback \in [callback : Nat, cmd : PingCmds \cup {NoCmd}]
    BY NamesAre DEF NoCallback, Names
  <2> QED
    BY <1>3, <2>1, InvParts DEF States, Of
<1>6. Truthful(messages, qs)
  <2>1. Truthful(messages, pings)
    BY InvParts
  <2>2. \A i \in DOMAIN messages : messages[i].cmd # NoCmd => \E q \in DOMAIN qs : qs[q].cmd = messages[i].cmd
    BY <2>1, <1>3 DEF Truthful
  <2>3. \A q \in DOMAIN qs : Asks(qs[q]) \/ qs[q].state = "resolved" => qs[q] = pings[q]
    BY <1>3 DEF Asks
  <2> QED
    BY <2>1, <2>2, <2>3, <1>3 DEF Truthful
<1> HIDE DEF t
<1>7. Sound(docs, t) /\ EachWaits(docs, t.messages) /\ DocsOk(docs)
  BY <1>3, <1>4, <1>5, <1>6, InvParts DEF Inv, Sound
<1>8. Becomes(t) /\ UNCHANGED docs
  BY <1>2 DEF PingTimeout
<1>9. DocsOk(docs') /\ Sound(docs', t) /\ EachWaits(docs', t.messages)
  BY <1>7, <1>8
<1> QED
  BY <1>8, <1>9, Becoming

(* A ping that is found not to be alone. *)
NotAlone(p) == [p EXCEPT !.alone = FALSE]

(* Its fields. *)
LEMMA NotAloneType ==
    ASSUME NEW p \in PingSet, NEW q, q = NotAlone(p)
    PROVE  /\ q \in PingSet /\ q.target = p.target /\ q.cmd = p.cmd /\ q.state = p.state
           /\ q.interval = p.interval /\ q.timeout = p.timeout /\ ~q.alone /\ q.used = p.used
<1>1. q \in PingSet
  BY DEF PingSet, NotAlone
<1> QED
  BY <1>1 DEF PingSet, NotAlone

(* A ping that has not begun and those that then are no longer alone. *)
Joined(ps, qs) ==
    /\ qs \in Seq(PingSet) /\ DOMAIN ps \subseteq DOMAIN qs
    /\ \A p \in DOMAIN ps : /\ qs[p].target = ps[p].target /\ qs[p].cmd = ps[p].cmd /\ qs[p].state = ps[p].state
                            /\ qs[p].interval = ps[p].interval /\ qs[p].timeout = ps[p].timeout
                            /\ qs[p].used = ps[p].used /\ (qs[p].alone => ps[p].alone)
                            /\ ps[p].state = "pending" => ~qs[p].alone

(* The pings when another one begins. *)
LEMMA PingsJoin ==
    ASSUME Inv, NEW begun \in PingSet,
           NEW others, others = [p \in DOMAIN pings |->
               IF pings[p].state = "pending" THEN [pings[p] EXCEPT !.alone = FALSE] ELSE pings[p]],
           NEW qs, qs = Append(others, begun)
    PROVE  /\ Joined(pings, qs)
           /\ DOMAIN qs = 1..(Len(pings) + 1) /\ qs[Len(pings) + 1] = begun
<1>1. pings \in Seq(PingSet) /\ Len(pings) \in Nat /\ DOMAIN pings = 1..Len(pings)
  BY InvParts
<1>2. ASSUME NEW p \in DOMAIN pings
      PROVE  /\ others[p] \in PingSet /\ others[p].target = pings[p].target /\ others[p].cmd = pings[p].cmd
             /\ others[p].state = pings[p].state /\ others[p].interval = pings[p].interval
             /\ others[p].timeout = pings[p].timeout /\ others[p].used = pings[p].used
             /\ (others[p].alone => pings[p].alone) /\ (pings[p].state = "pending" => ~others[p].alone)
  <2>1. pings[p] \in PingSet
    BY <1>1
  <2>2. CASE pings[p].state = "pending"
    <3>1. others[p] = NotAlone(pings[p])
      BY <2>2 DEF NotAlone
    <3> QED
      BY <2>1, <3>1, NotAloneType
  <2>3. CASE pings[p].state # "pending"
    BY <2>1, <2>3
  <2> QED
    BY <2>2, <2>3
<1>3. DOMAIN others = DOMAIN pings /\ others = [p \in DOMAIN pings |-> others[p]]
  OBVIOUS
<1>4. others \in Seq(PingSet) /\ Len(others) = Len(pings)
  BY <1>1, <1>2, <1>3
<1>5. /\ qs \in Seq(PingSet) /\ DOMAIN qs = 1..(Len(pings) + 1) /\ qs[Len(pings) + 1] = begun
      /\ \A p \in DOMAIN pings : p \in DOMAIN qs /\ qs[p] = others[p]
  BY <1>3, <1>4, Appended
<1> QED
  BY <1>2, <1>5 DEF Joined

(* A ping begins: if it is alone and its command is new, no message has that command      *)
(* (pingIframe).                                                                          *)
LEMMA PingIframeStep ==
    ASSUME Inv, NEW f \in Frames, NEW cmd \in PingCmds, PingIframe(f, cmd)
    PROVE  Inv'
<1> DEFINE N == Len(pings) + 1
           alone == \A p \in DOMAIN pings : pings[p].state # "pending"
           used == \E p \in DOMAIN pings : pings[p].cmd = cmd
           begun == [target |-> f, cmd |-> cmd, state |-> "pending", interval |-> TRUE, timeout |-> TRUE,
                     alone |-> alone, used |-> used]
           others == [p \in DOMAIN pings |-> IF pings[p].state = "pending" THEN [pings[p] EXCEPT !.alone = FALSE]
                                             ELSE pings[p]]
           qs == Append(others, begun)
           g == [callback |-> N, cmd |-> cmd]
           st == [State EXCEPT !.pings = qs, !.ping = g]
<1>1. Becomes(SendPingRequest(st, N)) /\ UNCHANGED docs
  BY DEF PingIframe
<1>2. N \in Nat /\ DOMAIN pings = 1..Len(pings) /\ N \notin DOMAIN pings
      /\ \A x \in 1..N : x \in DOMAIN pings \/ x = N
  <2>1. Len(pings) \in Nat /\ DOMAIN pings = 1..Len(pings)
    BY InvParts
  <2> QED
    BY <2>1
<1>3. st = Of(messages, received, qs, g)
  <2> HIDE DEF qs, g
  <2>1. st = WithPings(State, qs, g)
    BY DEF WithPings
  <2> HIDE DEF st
  <2>2. IsState(State)
    BY InvParts
  <2>3. st = Of(State.messages, State.received, qs, g)
    BY <2>1, <2>2, NewPings
  <2> QED
    BY <2>3, InvParts
<1>4. begun \in PingSet /\ begun.cmd = cmd /\ begun.state = "pending" /\ begun.interval /\ begun.timeout
      /\ begun.alone = alone /\ begun.used = used
  <2>1. alone \in BOOLEAN /\ used \in BOOLEAN
    OBVIOUS
  <2> HIDE DEF alone, used
  <2> QED
    BY <2>1 DEF PingSet
<1>5. Joined(pings, qs) /\ DOMAIN qs = 1..N /\ qs[N] = begun
  <2> HIDE DEF begun
  <2>1. others = [p \in DOMAIN pings |->
            IF pings[p].state = "pending" THEN [pings[p] EXCEPT !.alone = FALSE] ELSE pings[p]]
    OBVIOUS
  <2> HIDE DEF others
  <2> QED
    BY <2>1, <1>4, PingsJoin
<1>6. g \in [callback : Nat, cmd : PingCmds \cup {NoCmd}] /\ g.callback = N /\ g.cmd = cmd
  BY <1>2
<1> HIDE DEF begun, qs, g, st
<1>7. st.messages = messages /\ st.received = received /\ st.pings = qs /\ st.ping = g
  BY <1>3 DEF Of
<1>8. st \in States
  BY <1>3, <1>5, <1>6, InvParts DEF States, Of, Joined
<1>9. Pinging(qs, g)
  <2>1. /\ Pinging(pings, ping)
        /\ \A p \in DOMAIN pings : /\ qs[p].state = pings[p].state /\ qs[p].interval = pings[p].interval
                                   /\ qs[p].timeout = pings[p].timeout
                                   /\ pings[p].state = "pending" => ~qs[p].alone
    BY <1>5, InvParts DEF Joined
  <2>2. \A p \in DOMAIN qs : p \in DOMAIN pings \/ p = N
    BY <1>2, <1>5
  <2>3. N \in DOMAIN qs /\ N # NoPing
    BY <1>2, <1>5, NamesAre, InvParts DEF Names
  <2>4. ASSUME NEW p \in DOMAIN qs
        PROVE  /\ qs[p].state = "pending" => qs[p].interval /\ qs[p].timeout
               /\ qs[p].state # "pending" => ~qs[p].interval /\ ~qs[p].timeout
    BY <2>1, <2>2, <1>4, <1>5 DEF Pinging
  <2>5. ASSUME NEW p \in DOMAIN qs, qs[p].state = "pending", qs[p].alone
        PROVE  g.callback = p /\ \A q \in DOMAIN qs : qs[q].state = "pending" => q = p
    <3>1. p = N
      BY <2>1, <2>2, <2>5
    <3>2. alone
      BY <3>1, <2>5, <1>4, <1>5
    <3> QED
      BY <3>1, <3>2, <2>1, <2>2, <1>6
  <2> QED
    BY <2>3, <2>4, <2>5, <1>4, <1>5, <1>6 DEF Pinging
<1>10. Truthful(messages, qs)
  <2>1. Truthful(messages, pings)
    BY InvParts
  <2>2. \A i \in DOMAIN messages : messages[i].cmd # NoCmd => \E p \in DOMAIN qs : qs[p].cmd = messages[i].cmd
    BY <2>1, <1>5 DEF Truthful, Joined
  <2>3. ASSUME NEW p \in DOMAIN qs, Asks(qs[p]), NEW i \in DOMAIN messages, messages[i].cmd = qs[p].cmd
        PROVE  FALSE
    <3>1. CASE p \in DOMAIN pings
      BY <3>1, <2>3, <1>5 DEF Asks, Joined
    <3>2. CASE p = N
      <4>1. messages[i].cmd = cmd /\ ~used
        BY <3>2, <2>3, <1>4, <1>5 DEF Asks
      <4>2. cmd # NoCmd
        BY NamesAre DEF Names
      <4> QED
        BY <4>1, <4>2, <2>1 DEF Truthful
    <3> QED
      BY <3>1, <3>2, <1>2, <1>5
  <2>4. ASSUME NEW p \in DOMAIN qs, qs[p].state = "resolved", qs[p].alone, ~qs[p].used
        PROVE  Answered(messages, qs[p])
    <3>1. p \in DOMAIN pings
      BY <2>4, <1>2, <1>4, <1>5
    <3>2. Answered(messages, pings[p])
      BY <3>1, <2>1, <2>4, <1>5 DEF Truthful, Joined
    <3> QED
      BY <3>1, <3>2, <1>5 DEF Answered, Joined
  <2> QED
    BY <2>2, <2>3, <2>4 DEF Truthful
<1>11. Sound(docs, st) /\ EachWaits(docs, st.messages)
  BY <1>7, <1>8, <1>9, <1>10, InvParts DEF Inv, Sound
<1>12. N \in DOMAIN st.pings /\ st.pings[N].state = "pending"
  BY <1>2, <1>4, <1>5, <1>7, InvParts
<1> HIDE DEF N
<1> QED
  BY <1>1, <1>11, <1>12, SendPingRequestStep

-----------------------------------------------------------------------------
(* Steps of the messages *)

(* A message without its timer. *)
NoTimer(n) == [n EXCEPT !.timer = FALSE]

(* If all but one message wait as they should, and that one is done, all do. *)
LEMMA OnlyWaits ==
    ASSUME NEW ms, NEW ns, NEW i \in DOMAIN ms, Only(ms, ns, i),
           \A j \in DOMAIN ms : j # i => Waits(docs, ms[j])
    PROVE  EachWaits(docs, ns)
<1> SUFFICES ASSUME NEW j \in DOMAIN ns PROVE Waits(docs, ns[j])
  BY DEF EachWaits
<1>1. CASE j = i
  BY <1>1 DEF Only, Waits
<1>2. CASE j # i
  BY <1>2 DEF Only
<1> QED
  BY <1>1, <1>2

(* A timer sends its message, if it is still in the queue: as timers fire in order, it is *)
(* the first that goes its way.                                                           *)
LEMMA TimerFiresStep ==
    ASSUME Inv, NEW i \in DOMAIN messages, TimerFires(i)
    PROVE  Inv'
<1> DEFINE n == messages[i]
           m == NoTimer(n)
           ns == [messages EXCEPT ![i] = m]
           s == [State EXCEPT !.messages[i].timer = FALSE]
           t == RemoveInternalMsgFromQueue(s, i)
<1>1. Becomes(t) /\ UNCHANGED docs
  BY DEF TimerFires
<1>2. /\ messages \in Seq(MessageSet) /\ i \in Nat /\ n \in MessageSet /\ DocsOk(docs) /\ Sound(docs, State)
      /\ State.messages = messages
      /\ \A j \in DOMAIN messages : messages[j] \in MessageSet /\ Waits(docs, messages[j]) /\ Arrives(docs, messages[j])
                                     /\ Shows(messages[j])
  BY InvParts DEF Inv, EachWaits, EachArrives
<1>3. m \in MessageSet /\ Alike(m, n) /\ Shows(m) /\ ~m.timer
  BY <1>2, TimerType DEF NoTimer
<1>4. s = Of(ns, received, pings, ping)
  <2>1. s = [State EXCEPT !.messages = [State.messages EXCEPT ![i] = NoTimer(State.messages[i])]]
    BY DEF NoTimer
  <2>2. s = [State EXCEPT !.messages = ns]
    BY <2>1, <1>2
  <2> HIDE DEF s, ns
  <2> QED
    BY <2>2, InvParts, NewMessages
<1> HIDE DEF m
<1>5. /\ ns \in Seq(MessageSet) /\ DOMAIN ns = DOMAIN messages
      /\ \A j \in DOMAIN messages : ns[j] = IF j = i THEN m ELSE messages[j]
  BY <1>2, <1>3, Replaced
<1> HIDE DEF ns, s, t
<1>6. Retouched(messages, ns)
  BY <1>2, <1>3, <1>5 DEF Retouched, Alike
<1>7. s.messages = ns /\ IsState(s)
  BY <1>4, Parts
<1>8. Sound(docs, s)
  BY <1>2, <1>4, <1>6, InvParts, RetouchedSound
<1>9. t = IF m.at = "queued" THEN SendFunc(s, i) ELSE s
  BY <1>5, <1>7 DEF t, RemoveInternalMsgFromQueue
<1>10. CASE m.at # "queued"
  <2>1. Waits(docs, m)
    BY <1>2, <1>3, <1>10 DEF Waits, Alike
  <2>2. EachWaits(docs, ns)
    BY <2>1, <1>2, <1>5 DEF EachWaits
  <2>3. Sound(docs, t) /\ EachWaits(docs, t.messages)
    BY <2>2, <1>7, <1>8, <1>9, <1>10
  <2> QED
    BY <2>3, <1>1, <1>2, Becoming
<1>11. CASE m.at = "queued"
  <2>1. ns[i] = m /\ m.direct /\ m.from = n.from
    BY <1>2, <1>3, <1>5, <1>11 DEF Arrives, Alike
  <2>2. ASSUME NEW j \in DOMAIN ns, ns[j].at # "done", SameWay(ns[i], ns[j])
        PROVE  i <= j
    <3>1. CASE j = i
      BY <3>1, <1>2
    <3>2. CASE j # i
      <4>1. /\ j \in DOMAIN messages /\ ns[j] = messages[j] /\ messages[j] \in MessageSet /\ j \in Nat
        BY <3>2, <1>2, <1>5
      <4>2. messages[j].direct /\ messages[j].from = n.from
        BY <4>1, <2>1, <2>2 DEF SameWay
      <4>3. messages[j].at = "queued"
        BY <4>1, <4>2, <2>2, <1>2 DEF Waits, MessageSet
      <4>4. messages[j].timer
        BY <4>1, <4>3, <1>2 DEF Waits
      <4>5. ~(j \in 1..(i - 1))
        BY <4>2, <4>4 DEF TimerFires, FirstTimer
      <4>6. j >= 1
        BY <4>1, <1>2
      <4> QED
        BY <4>1, <4>5, <4>6, <1>2
    <3> QED
      BY <3>1, <3>2
  <2>3. First(s.messages, i)
    BY <2>2, <1>7 DEF First
  <2>4. i \in DOMAIN s.messages /\ s.messages[i].at # "done" /\ s.messages[i].direct
    BY <2>1, <1>5, <1>7, <1>11
  <2>5. Sound(docs, t) /\ Only(ns, t.messages, i)
    BY <2>3, <2>4, <1>2, <1>7, <1>8, <1>9, <1>11, SendFuncSound
  <2>6. EachWaits(docs, t.messages)
    BY <2>5, <1>2, <1>5, OnlyWaits
  <2> QED
    BY <2>5, <2>6, <1>1, <1>2, Becoming
<1> QED
  BY <1>10, <1>11

(* A message that its target's page was or was not shown. *)
Seen(n, shown, due) == [n EXCEPT !.shown = shown, !.due = due]

(* Its fields. *)
LEMMA SeenType ==
    ASSUME NEW n \in MessageSet, NEW shown \in BOOLEAN, NEW due \in BOOLEAN, NEW m, m = Seen(n, shown, due)
    PROVE  /\ m \in MessageSet /\ SameMessage(m, n) /\ m.at = n.at /\ m.calls = n.calls
           /\ m.shown = shown /\ m.due = due
<1>1. m \in MessageSet
  BY DEF MessageSet, Seen
<1>2. m.at = n.at /\ m.calls = n.calls /\ m.shown = shown /\ m.due = due
  BY DEF MessageSet, Seen
<1>3. SameMessage(m, n)
  BY DEF MessageSet, Seen, SameMessage
<1> QED
  BY <1>1, <1>2, <1>3

(* The page is shown what it should be: the wrapper has the target origin that was asked  *)
(* for (_onWindowMessage).                                                                *)
LEMMA ShownAsDue ==
    ASSUME DocsOk(docs), NEW n \in MessageSet, Shows(n), NEW m, m = Seen(n, OnWindowMessage(n), Due(n))
    PROVE  /\ m \in MessageSet /\ SameMessage(m, n) /\ m.at = n.at /\ m.calls = n.calls /\ Shows(m)
<1> DEFINE shown == OnWindowMessage(n)
           due   == Due(n)
<1>1. shown \in BOOLEAN /\ due \in BOOLEAN
  BY DEF OnWindowMessage, Due
<1>2. shown => n.kind = "user"
  BY DEF OnWindowMessage
<1>3. ASSUME n.asked # "/", ~n.twice PROVE shown <=> due
  <2>1. n.to \in PageWindows /\ n.asked \in Targets /\ n.origin \in Origins
    BY DEF MessageSet
  <2>2. docs[n.to].origin \in Origins
    BY <2>1 DEF DocsOk, Documents
  <2>3. CASE n.kind = "user"
    <3> DEFINE last == [originUrl |-> n.origin, targetUrl |-> IF n.asked = "none" THEN n.origin ELSE n.asked]
    <3>1. n.wrappers = <<last>>
      BY <2>3, <1>3 DEF Shows, AsPosted
    <3>2. Head(n.wrappers).targetUrl = IF n.asked = "none" THEN n.origin ELSE n.asked
      BY <3>1
    <3>3. shown <=> Head(n.wrappers).targetUrl = "*" \/ Head(n.wrappers).targetUrl \in {"/", docs[n.to].origin}
      BY <2>3 DEF OnWindowMessage, SameOriginCheck
    <3>4. due <=> n.asked = "*" \/ docs[n.to].origin = (IF n.asked \in {"/", "none"} THEN n.origin ELSE n.asked)
      BY <2>3 DEF Due
    <3> HIDE DEF shown, due
    <3> QED
      BY <3>2, <3>3, <3>4, <2>1, <2>2, <1>3, NamesAre DEF Names
  <2>4. CASE n.kind # "user"
    BY <2>4 DEF OnWindowMessage, Due
  <2> QED
    BY <2>3, <2>4
<1> HIDE DEF shown, due
<1>4. /\ m \in MessageSet /\ SameMessage(m, n) /\ m.at = n.at /\ m.calls = n.calls /\ m.shown = shown /\ m.due = due
  BY <1>1, SeenType DEF shown, due
<1>5. m.shown # m.due => m.asked = "/" \/ m.twice
  <2>1. n.twice \in BOOLEAN
    BY DEF MessageSet
  <2> QED
    BY <2>1, <1>1, <1>3, <1>4 DEF SameMessage
<1>6. Shows(m)
  BY <1>2, <1>4, <1>5 DEF Shows, SameMessage, AsPosted
<1> QED
  BY <1>4, <1>6

(* A state in which a message was seen. *)
SeenIn(st, i, a, b) == [st EXCEPT !.messages[i].shown = a, !.messages[i].due = b]

(* It differs in that message only. *)
LEMMA SeenIs ==
    ASSUME NEW st, NEW i, NEW a, NEW b
    PROVE  SeenIn(st, i, a, b) = [st EXCEPT !.messages = [st.messages EXCEPT ![i] = Seen(st.messages[i], a, b)]]
BY DEF SeenIn, Seen

(* A message that is seen leaves the state sound. *)
LEMMA SeenSound ==
    ASSUME NEW d, NEW st, Sound(d, st), NEW i \in DOMAIN st.messages,
           NEW m \in MessageSet, SameMessage(m, st.messages[i]), m.at = st.messages[i].at,
           m.calls = st.messages[i].calls, Shows(m), NEW ns, ns = [st.messages EXCEPT ![i] = m]
    PROVE  Sound(d, Of(ns, st.received, st.pings, st.ping))
<1>1. st.messages \in Seq(MessageSet)
  BY DEF Sound, States
<1>2. /\ ns \in Seq(MessageSet) /\ DOMAIN ns = DOMAIN st.messages
      /\ \A j \in DOMAIN st.messages : ns[j] = IF j = i THEN m ELSE st.messages[j]
  BY <1>1, Replaced
<1>3. Retouched(st.messages, ns)
  BY <1>2 DEF Retouched, Alike, SameMessage, Sound, EachArrives
<1> QED
  BY <1>3, RetouchedSound

(* A native message is delivered, or lost: it is the first of those posted that goes its  *)
(* way (_onMessage).                                                                      *)
LEMMA MessageArrivesStep ==
    ASSUME Inv, NEW i \in DOMAIN messages, MessageArrives(i)
    PROVE  Inv'
<1> DEFINE n == messages[i]
           t == [Delivered(State, i) EXCEPT !.messages[i].at = "done"]
<1>1. Becomes(t) /\ UNCHANGED docs
  BY DEF MessageArrives
<1>2. /\ messages \in Seq(MessageSet) /\ i \in Nat /\ n \in MessageSet /\ DocsOk(docs) /\ Sound(docs, State)
      /\ State.messages = messages /\ IsState(State) /\ State \in States
      /\ \A j \in DOMAIN messages : messages[j] \in MessageSet /\ Waits(docs, messages[j]) /\ Arrives(docs, messages[j])
                                     /\ Shows(messages[j]) /\ j \in Nat
  BY InvParts DEF Inv, EachWaits, EachArrives
<1>3. n.at = "posted" /\ ~n.direct /\ n.calls = 0
  BY <1>2 DEF MessageArrives, FirstPosted, Waits, Arrives
<1>4. ASSUME NEW j \in DOMAIN messages, messages[j].at # "done", SameWay(n, messages[j])
      PROVE  i <= j
  <2>1. messages[j].at = "posted"
    BY <1>2, <1>3, <1>4 DEF Arrives, SameWay, MessageSet
  <2>2. ~(j \in 1..(i - 1))
    BY <2>1, <1>4 DEF MessageArrives, FirstPosted, SameWay
  <2>3. j >= 1 /\ j \in Nat
    BY <1>2
  <2> QED
    BY <2>2, <2>3, <1>2
<1>5. n.to \in PageWindows /\ n.from \in PageWindows
  BY <1>2 DEF MessageSet
<1>6. ASSUME NEW s, Sound(docs, s), DOMAIN s.messages = DOMAIN messages, NEW m \in MessageSet, NEW called \in BOOLEAN,
             \A j \in DOMAIN messages : j # i => s.messages[j] = messages[j],
             SameMessage(s.messages[i], n), s.messages[i].at = n.at,
             SameMessage(m, n), m.at = "done", m.calls = IF called THEN 1 ELSE 0, Shows(m), Arrives(docs, m),
             t = Finished(s, i, m, called)
      PROVE  Inv'
  <2>1. SameMessage(m, s.messages[i])
    BY <1>6 DEF SameMessage
  <2>2. s.messages[i].at # "done" /\ i \in DOMAIN s.messages
    BY <1>3, <1>6
  <2>3. ASSUME NEW j \in DOMAIN s.messages, s.messages[j].at # "done", SameWay(s.messages[i], s.messages[j])
        PROVE  i <= j
    <3>1. CASE j = i
      BY <3>1, <1>2
    <3>2. CASE j # i
      <4>1. j \in DOMAIN messages /\ s.messages[j] = messages[j]
        BY <3>2, <1>6
      <4>2. SameWay(n, s.messages[i])
        BY <1>6 DEF SameWay, SameMessage
      <4>3. SameWay(n, messages[j]) /\ messages[j].at # "done"
        BY <4>1, <4>2, <2>3 DEF SameWay
      <4> HIDE DEF n, t
      <4> QED
        BY <4>1, <4>3, <1>4
    <3> QED
      BY <3>1, <3>2
  <2>4. Sound(docs, t)
    <3>1. /\ m.kind = s.messages[i].kind /\ m.from = s.messages[i].from /\ m.to = s.messages[i].to
          /\ m.cmd = s.messages[i].cmd /\ m.direct = s.messages[i].direct
      BY <2>1 DEF SameMessage
    <3> QED
      BY <3>1, <2>2, <2>3, <1>6, FinishedSound
  <2>5. s \in States
    BY <1>6 DEF Sound
  <2>6. Only(s.messages, t.messages, i)
    BY <2>1, <2>2, <2>5, <1>6, FinishedOnly
  <2>7. EachWaits(docs, t.messages)
    <3>1. \A j \in DOMAIN s.messages : j # i => Waits(docs, s.messages[j])
      BY <1>2, <1>6
    <3> QED
      BY <3>1, <2>2, <2>6, OnlyWaits
  <2> HIDE DEF t
  <2>8. DocsOk(docs') /\ Sound(docs', t) /\ EachWaits(docs', t.messages)
    BY <2>4, <2>7, <1>1, <1>2
  <2> QED
    BY <2>8, <1>1, Becoming
<1> DEFINE Absent == n.kind = "user" \/ ~Listens(n.to) \/ ~docs[n.from].present
<1>7. ASSUME NEW m, SameMessage(m, n), m.at = "done", m.calls = IF Absent THEN 0 ELSE 1
      PROVE  Arrives(docs, m)
  <2>1. /\ m.kind = n.kind /\ m.from = n.from /\ m.to = n.to /\ m.direct = n.direct /\ m.timer = n.timer
        /\ m.number = n.number /\ m.heard = n.heard /\ m.origin = n.origin
    BY <1>7 DEF SameMessage
  <2>2. Arrives(docs, n)
    BY <1>2
  <2>3. CASE Absent
    <3>1. m.calls = 0
      BY <1>7, <2>3
    <3>2. n.kind # "user" => ~n.heard \/ n.number # docs[n.to].number \/ ~docs[n.to].present \/ ~docs[n.from].present
      BY <2>2, <2>3 DEF Arrives, Listens
    <3> HIDE DEF Absent
    <3> QED
      BY <3>1, <3>2, <2>1, <2>2, <1>3, <1>7 DEF Arrives
  <2>4. CASE ~Absent
    <3>1. m.calls = 1 /\ n.kind # "user"
      BY <1>7, <2>4
    <3> HIDE DEF Absent
    <3> QED
      BY <3>1, <2>1, <2>2, <1>3, <1>7 DEF Arrives
  <2> QED
    BY <2>3, <2>4
<1>8. CASE ~Listens(n.to)
  <2> DEFINE m == [n EXCEPT !.at = "done"]
  <2>1. Delivered(State, i) = State
    BY <1>2, <1>8 DEF Delivered
  <2>2. t = [State EXCEPT !.messages[i].at = "done"] /\ m = [State.messages[i] EXCEPT !.at = "done"]
    BY <2>1, <1>2
  <2>3. /\ m \in MessageSet /\ SameMessage(m, n)
        /\ m.at = "done" /\ m.calls = n.calls /\ m.shown = n.shown /\ m.due = n.due
    BY <1>2, DoneType
  <2> HIDE DEF t, m
  <2>4. t = Finished(State, i, m, FALSE)
    BY <2>2, <1>2, NotCalledFinishes
  <2>5. Shows(m)
    <3>1. Shows(n)
      BY <1>2
    <3> QED
      BY <2>3, <3>1 DEF Shows, SameMessage, AsPosted
  <2>6. Absent
    BY <1>8
  <2>7. Arrives(docs, m)
    BY <2>3, <2>6, <1>3, <1>7
  <2>8. SameMessage(n, n)
    BY DEF SameMessage
  <2>9. m.calls = IF FALSE THEN 1 ELSE 0
    BY <2>3, <1>3
  <2> QED
    BY <2>3, <2>4, <2>5, <2>7, <2>8, <2>9, <1>2, <1>6
<1>9. CASE Listens(n.to)
  <2> DEFINE v == Seen(n, OnWindowMessage(n), Due(n))
             ns == [messages EXCEPT ![i] = v]
             s == [State EXCEPT !.messages[i].shown = OnWindowMessage(n), !.messages[i].due = Due(n)]
  <2>1. Delivered(State, i) = IF n.kind # "user" /\ docs[n.from].present THEN OnMessage(s, i) ELSE s
    BY <1>2, <1>9 DEF Delivered
  <2>2. v \in MessageSet /\ SameMessage(v, n) /\ v.at = n.at /\ v.calls = n.calls /\ Shows(v)
    BY <1>2, ShownAsDue
  <2>3. s = Of(ns, received, pings, ping)
    <3> DEFINE a == OnWindowMessage(n)
               b == Due(n)
    <3>1. s = [State EXCEPT !.messages[i].shown = a, !.messages[i].due = b] /\ v = Seen(n, a, b)
      OBVIOUS
    <3> HIDE DEF a, b
    <3>4. s = SeenIn(State, i, a, b)
      BY <3>1 DEF SeenIn
    <3> HIDE DEF s
    <3>2. s = [State EXCEPT !.messages = [State.messages EXCEPT ![i] = Seen(State.messages[i], a, b)]]
      BY <3>4, SeenIs
    <3> HIDE DEF v
    <3>3. s = [State EXCEPT !.messages = ns]
      BY <3>1, <3>2, <1>2
    <3> HIDE DEF s, ns
    <3> QED
      BY <3>3, InvParts, NewMessages
  <2> HIDE DEF v
  <2>4. /\ ns \in Seq(MessageSet) /\ DOMAIN ns = DOMAIN messages
        /\ \A j \in DOMAIN messages : ns[j] = IF j = i THEN v ELSE messages[j]
    BY <1>2, <2>2, Replaced
  <2>5. Sound(docs, s)
    <3>1. ns = [State.messages EXCEPT ![i] = v]
      BY <1>2
    <3> HIDE DEF ns, s
    <3> QED
      BY <3>1, <2>2, <2>3, <1>2, InvParts, SeenSound
  <2> HIDE DEF s, ns
  <2>6. /\ s.messages = ns /\ IsState(s) /\ s.messages[i] = v
        /\ i \in DOMAIN s.messages /\ DOMAIN s.messages = DOMAIN messages
    BY <2>3, <2>4, Parts
  <2>7. \A j \in DOMAIN messages : j # i => s.messages[j] = messages[j]
    BY <2>4, <2>6
  <2>8. CASE n.kind # "user" /\ docs[n.from].present
    <3> DEFINE m == [v EXCEPT !.calls = v.calls + 1, !.at = "done"]
    <3>1. /\ m \in MessageSet /\ SameMessage(m, v)
          /\ m.at = "done" /\ m.calls = v.calls + 1 /\ m.shown = v.shown /\ m.due = v.due
      BY <2>2, CalledType
    <3>2. t = [OnMessage(s, i) EXCEPT !.messages[i].at = "done"]
      BY <2>1, <2>8
    <3>3. m = [s.messages[i] EXCEPT !.calls = @ + 1, !.at = "done"]
      BY <2>6
    <3> HIDE DEF m, t
    <3>4. m.to = s.messages[i].to /\ (IsPingResponse(s, m) <=> IsPingResponse(s, s.messages[i]))
      BY <3>1, <2>6 DEF SameMessage, IsPingResponse
    <3>5. t = Finished(s, i, m, TRUE)
      BY <3>2, <3>3, <3>4, <2>6, OnMessageFinishes
    <3>6. SameMessage(m, n) /\ m.calls = 1
      BY <3>1, <2>2, <1>3 DEF SameMessage
    <3>7. Shows(m)
      BY <3>1, <2>2 DEF Shows, SameMessage, AsPosted
    <3>8. ~Absent
      BY <2>8, <1>9
    <3>9. Arrives(docs, m)
      BY <3>1, <3>6, <3>8, <1>7
    <3>10. m.calls = IF TRUE THEN 1 ELSE 0
      BY <3>6
    <3> QED
      BY <3>1, <3>5, <3>6, <3>7, <3>9, <3>10, <2>2, <2>5, <2>6, <2>7, <1>6
  <2>9. CASE ~(n.kind # "user" /\ docs[n.from].present)
    <3> DEFINE m == [v EXCEPT !.at = "done"]
    <3>1. /\ m \in MessageSet /\ SameMessage(m, v)
          /\ m.at = "done" /\ m.calls = v.calls /\ m.shown = v.shown /\ m.due = v.due
      BY <2>2, DoneType
    <3>2. t = [s EXCEPT !.messages[i].at = "done"] /\ m = [s.messages[i] EXCEPT !.at = "done"]
      BY <2>1, <2>6, <2>9
    <3> HIDE DEF m, t
    <3>3. t = Finished(s, i, m, FALSE)
      BY <3>2, <2>6, NotCalledFinishes
    <3>4. SameMessage(m, n) /\ m.calls = 0
      BY <3>1, <2>2, <1>3 DEF SameMessage
    <3>5. Shows(m)
      BY <3>1, <2>2 DEF Shows, SameMessage, AsPosted
    <3>6. Absent
      BY <2>9
    <3>7. Arrives(docs, m)
      BY <3>1, <3>4, <3>6, <1>7
    <3>8. m.calls = IF FALSE THEN 1 ELSE 0
      BY <3>4
    <3> QED
      BY <3>1, <3>3, <3>4, <3>5, <3>7, <3>8, <2>2, <2>5, <2>6, <2>7, <1>6
  <2> QED
    BY <2>8, <2>9
<1> QED
  BY <1>8, <1>9

-----------------------------------------------------------------------------
(* Steps of the documents *)

(* What may come after a document in its window, and the documents then. *)
Follows(e, c) ==
    /\ e \in Documents /\ e.number \in {1, 2} /\ c.number <= e.number /\ (e.present => c.present)
    /\ c.number = e.number => e.origin = c.origin /\ (c.attached => e.attached \/ ~e.present)

(* The documents with another one in a window. *)
DocsWith(w, e) == [docs EXCEPT ![w] = e]

(* Then the documents have moved. *)
LEMMA DocsMove ==
    ASSUME DocsOk(docs), NEW w \in Frames, NEW e, Follows(e, docs[w]), NEW d, d = DocsWith(w, e)
    PROVE  Moved(docs, d) /\ \A v \in PageWindows : d[v] = IF v = w THEN e ELSE docs[v]
<1>1. TopWindow \in PageWindows /\ w \in PageWindows /\ w # TopWindow
  BY NamesAre DEF Names
<1>2. docs \in [PageWindows -> Documents]
  BY DEF DocsOk
<1>3. d \in [PageWindows -> Documents] /\ \A v \in PageWindows : d[v] = IF v = w THEN e ELSE docs[v]
  BY <1>1, <1>2 DEF Follows, DocsWith
<1>4. DocsOk(d)
  BY <1>1, <1>3 DEF DocsOk, Follows
<1>5. ASSUME NEW v \in PageWindows
      PROVE  /\ docs[v].number <= d[v].number /\ (d[v].present => docs[v].present)
             /\ docs[v].number = d[v].number =>
                   d[v].origin = docs[v].origin /\ (docs[v].attached => d[v].attached \/ ~d[v].present)
  <2>1. CASE v = w
    BY <2>1, <1>3 DEF Follows
  <2>2. CASE v # w
    <3>1. d[v] = docs[v] /\ docs[v].number \in {1, 2}
      BY <2>2, <1>3 DEF DocsOk
    <3> QED
      BY <3>1
  <2> QED
    BY <2>1, <2>2
<1> QED
  BY <1>3, <1>4, <1>5 DEF Moved

(* When a window that has unloaded loses its timers nothing that waits loses its own: its *)
(* queue was flushed.                                                                     *)
LEMMA LosesTimers ==
    ASSUME Inv, NEW w \in Frames, docs[w].unloaded, NEW d,
           \A v \in PageWindows : v # w => d[v] = docs[v], NEW ns, ns = LoseTimers(w)
    PROVE  Sound(docs, Of(ns, received, pings, ping)) /\ EachWaits(d, ns)
<1>1. /\ messages \in Seq(MessageSet) /\ Sound(docs, State) /\ State.messages = messages
      /\ \A i \in DOMAIN messages : /\ messages[i] \in MessageSet /\ Waits(docs, messages[i])
                                    /\ Shows(messages[i]) /\ messages[i].from \in PageWindows
  BY InvParts DEF Inv, EachWaits, EachArrives, MessageSet
<1>2. ASSUME NEW i \in DOMAIN messages
      PROVE  /\ ns[i] \in MessageSet /\ Alike(ns[i], messages[i]) /\ Shows(ns[i])
             /\ ns[i].timer => messages[i].timer
             /\ messages[i].from # w => ns[i] = messages[i]
  <2>1. CASE messages[i].from = w /\ ~SameDomain(w, TopWindow)
    <3>1. ns[i] = [messages[i] EXCEPT !.timer = FALSE]
      BY <2>1 DEF LoseTimers
    <3> HIDE DEF Inv
    <3>2. ns[i] \in MessageSet /\ Alike(ns[i], messages[i]) /\ (Shows(messages[i]) => Shows(ns[i])) /\ ~ns[i].timer
      BY <3>1, <1>1, TimerType
    <3> QED
      BY <3>2, <2>1, <1>1
  <2>2. CASE ~(messages[i].from = w /\ ~SameDomain(w, TopWindow))
    <3>1. ns[i] = messages[i]
      BY <2>2 DEF LoseTimers
    <3> QED
      BY <3>1, <1>1 DEF Alike
  <2> QED
    BY <2>1, <2>2
<1>3. DOMAIN ns = DOMAIN messages /\ ns = [i \in DOMAIN messages |-> ns[i]]
  BY DEF LoseTimers
<1>4. ns \in Seq(MessageSet)
  BY <1>1, <1>2, <1>3
<1>5. Retouched(messages, ns)
  BY <1>2, <1>3, <1>4 DEF Retouched
<1>6. Sound(docs, Of(ns, received, pings, ping))
  BY <1>1, <1>5, InvParts, RetouchedSound
<1>7. ASSUME NEW i \in DOMAIN ns PROVE Waits(d, ns[i])
  <2>1. i \in DOMAIN messages /\ Waits(docs, messages[i]) /\ Alike(ns[i], messages[i])
    BY <1>1, <1>2, <1>3
  <2>2. CASE messages[i].at = "queued"
    <3>1. messages[i].from # w
      BY <2>1, <2>2 DEF Waits
    <3> QED
      BY <2>1, <3>1, <1>1, <1>2 DEF Waits
  <2>3. CASE messages[i].at # "queued"
    BY <2>1, <2>3 DEF Waits, Alike
  <2> QED
    BY <2>2, <2>3
<1> QED
  BY <1>6, <1>7 DEF EachWaits

(* A window that has unloaded may lose its timers and its document. *)
LEMMA LeavingStep ==
    ASSUME Inv, NEW w \in Frames, docs[w].unloaded, NEW e, Follows(e, docs[w]),
           docs' = DocsWith(w, e), messages' = LoseTimers(w), UNCHANGED <<received, pings, ping>>
    PROVE  Inv'
<1> DEFINE d == docs'
           ns == messages'
           t == Of(ns, received, pings, ping)
<1>1. d = DocsWith(w, e) /\ ns = LoseTimers(w)
  OBVIOUS
<1>2. Becomes(t)
  BY DEF Becomes, Of
<1> HIDE DEF d, ns
<1>3. Moved(docs, d) /\ \A v \in PageWindows : v # w => d[v] = docs[v]
  BY <1>1, DocsMove DEF Inv
<1>4. Sound(docs, t) /\ EachWaits(d, ns)
  BY <1>1, <1>3, LosesTimers
<1>5. t.messages = ns
  BY Parts
<1> HIDE DEF t
<1>6. DocsOk(d) /\ Sound(d, t) /\ EachWaits(d, t.messages)
  BY <1>3, <1>4, <1>5, SoundMoved DEF Moved
<1> QED
  BY <1>2, <1>6, Becoming DEF d

(* The documents that the steps make. *)
LEMMA DocumentType ==
    ASSUME NEW c \in Documents, NEW origin \in Origins
    PROVE  LET gone == [c EXCEPT !.present = FALSE, !.attached = FALSE]
               next == [c EXCEPT !.number = 2, !.attached = FALSE, !.unloaded = FALSE, !.origin = origin]
               attached == [c EXCEPT !.attached = TRUE]
               unloaded == [c EXCEPT !.unloaded = TRUE]
           IN /\ gone \in Documents /\ gone.number = c.number /\ gone.origin = c.origin /\ ~gone.present
              /\ next \in Documents /\ next.number = 2 /\ next.present = c.present
              /\ attached \in Documents /\ attached.number = c.number /\ attached.origin = c.origin
              /\ attached.present = c.present /\ attached.attached /\ attached.unloaded = c.unloaded
              /\ unloaded \in Documents /\ unloaded.number = c.number /\ unloaded.origin = c.origin
              /\ unloaded.present = c.present /\ unloaded.attached = c.attached
BY DEF Documents

(* A frame that is removed. *)
LEMMA RemoveFrameStep ==
    ASSUME Inv, NEW w \in Frames, RemoveFrame(w)
    PROVE  Inv'
<1> DEFINE e == [docs[w] EXCEPT !.present = FALSE, !.attached = FALSE]
<1>1. docs[w] \in Documents /\ docs[w].number \in {1, 2} /\ docs[w].origin \in Origins
  BY DEF Inv, DocsOk, PageWindows, Documents
<1>2. e \in Documents /\ e.number = docs[w].number /\ e.origin = docs[w].origin /\ ~e.present
  BY <1>1, DocumentType
<1>3. /\ docs[w].unloaded /\ docs' = DocsWith(w, e) /\ messages' = LoseTimers(w)
      /\ UNCHANGED <<received, pings, ping>>
  BY DEF RemoveFrame, DocsWith
<1> HIDE DEF e
<1>4. Follows(e, docs[w])
  BY <1>1, <1>2 DEF Follows
<1> QED
  BY <1>3, <1>4, LeavingStep

(* A frame that comes back as another document. *)
LEMMA NavigateStep ==
    ASSUME Inv, NEW w \in Frames, NEW origin \in Origins, Navigate(w, origin)
    PROVE  Inv'
<1> DEFINE e == [docs[w] EXCEPT !.number = 2, !.attached = FALSE, !.unloaded = FALSE, !.origin = origin]
<1>1. docs[w] \in Documents /\ docs[w].number = 1
  BY DEF Inv, DocsOk, PageWindows, Navigate
<1>2. e \in Documents /\ e.number = 2 /\ e.present = docs[w].present
  <2> DEFINE c == docs[w]
  <2>1. c \in Documents /\ e = [c EXCEPT !.number = 2, !.attached = FALSE, !.unloaded = FALSE, !.origin = origin]
    BY <1>1
  <2> HIDE DEF c
  <2>2. e \in Documents /\ e.number = 2 /\ e.present = c.present
    BY <2>1 DEF Documents
  <2> QED
    BY <2>2 DEF c
<1>3. /\ docs[w].unloaded /\ docs' = DocsWith(w, e) /\ messages' = LoseTimers(w)
      /\ UNCHANGED <<received, pings, ping>>
  BY DEF Navigate, DocsWith
<1> HIDE DEF e
<1>4. Follows(e, docs[w])
  BY <1>1, <1>2 DEF Follows
<1> QED
  BY <1>3, <1>4, LeavingStep

(* A document that is attached. *)
LEMMA AttachStep ==
    ASSUME Inv, NEW w \in Frames, Attach(w)
    PROVE  Inv'
<1> DEFINE e == [docs[w] EXCEPT !.attached = TRUE]
           d == docs'
<1>1. docs[w] \in Documents /\ docs[w].number \in {1, 2} /\ docs[w].origin \in Origins
  BY DEF Inv, DocsOk, PageWindows, Documents
<1>2. /\ e \in Documents /\ e.number = docs[w].number /\ e.origin = docs[w].origin
      /\ e.present = docs[w].present /\ e.attached /\ e.unloaded = docs[w].unloaded
  BY <1>1, DocumentType
<1>3. d = DocsWith(w, e) /\ UNCHANGED <<messages, received, pings, ping>>
  BY DEF Attach, DocsWith
<1> HIDE DEF e, d
<1>4. Follows(e, docs[w])
  BY <1>1, <1>2 DEF Follows
<1>5. Moved(docs, d) /\ \A v \in PageWindows : d[v] = IF v = w THEN e ELSE docs[v]
  BY <1>3, <1>4, DocsMove DEF Inv
<1>6. \A v \in PageWindows : d[v].unloaded = docs[v].unloaded
  BY <1>2, <1>5
<1>7. EachWaits(d, messages)
  BY <1>6, InvParts DEF Inv, EachWaits, Waits, MessageSet
<1>8. Becomes(State)
  BY <1>3 DEF Becomes, State
<1>9. DocsOk(d) /\ Sound(d, State) /\ EachWaits(d, State.messages)
  BY <1>5, <1>7, SoundMoved, InvParts DEF Inv, Moved
<1> QED
  BY <1>8, <1>9, Becoming DEF d

(* A window that unloads, after which nothing of it is in its queue. *)
LEMMA UnloadStep ==
    ASSUME Inv, NEW w \in Frames, Unload(w)
    PROVE  Inv'
<1> DEFINE e == [docs[w] EXCEPT !.unloaded = TRUE]
           d == docs'
           t == Flushed(State, w)
<1>1. docs[w] \in Documents /\ docs[w].number \in {1, 2} /\ docs[w].origin \in Origins
  BY DEF Inv, DocsOk, PageWindows, Documents
<1>2. /\ e \in Documents /\ e.number = docs[w].number /\ e.origin = docs[w].origin
      /\ e.present = docs[w].present /\ e.attached = docs[w].attached
  BY <1>1, DocumentType
<1>3. d = DocsWith(w, e) /\ Becomes(t)
  BY DEF Unload, DocsWith
<1>4. Flushing(State, w, Len(messages), t)
  BY FlushedSound, InvParts DEF Inv
<1> HIDE DEF e, d, t
<1>5. Follows(e, docs[w])
  BY <1>1, <1>2 DEF Follows
<1>6. Moved(docs, d) /\ \A v \in PageWindows : v # w => d[v] = docs[v]
  BY <1>3, <1>5, DocsMove DEF Inv
<1>7. /\ Sound(docs, t) /\ DOMAIN t.messages = DOMAIN messages
      /\ \A j \in DOMAIN messages :
            /\ t.messages[j] = messages[j] \/ t.messages[j].at = "done"
            /\ messages[j].from = w /\ t.messages[j].at = "queued" => j > Len(messages)
  BY <1>4, InvParts DEF Flushing
<1>8. ASSUME NEW j \in DOMAIN t.messages PROVE Waits(d, t.messages[j])
  <2>1. CASE t.messages[j].at = "done"
    BY <2>1 DEF Waits
  <2>2. CASE t.messages[j].at # "done"
    <3>1. t.messages[j] = messages[j] /\ j \in DOMAIN messages /\ Waits(docs, messages[j]) /\ j \in Nat
          /\ messages[j].from \in PageWindows /\ ~(j > Len(messages))
      <4>1. j \in DOMAIN messages /\ DOMAIN messages = 1..Len(messages) /\ Len(messages) \in Nat
        BY <1>7, InvParts
      <4>2. t.messages[j] = messages[j] /\ Waits(docs, messages[j]) /\ messages[j].from \in PageWindows
        BY <2>2, <4>1, <1>7, InvParts DEF Inv, EachWaits, MessageSet
      <4> QED
        BY <4>1, <4>2
    <3>2. messages[j].at = "queued" => messages[j].from # w
      BY <3>1, <1>7
    <3> QED
      BY <3>1, <3>2, <1>6 DEF Waits
  <2> QED
    BY <2>1, <2>2
<1>9. DocsOk(d) /\ Sound(d, t) /\ EachWaits(d, t.messages)
  BY <1>6, <1>7, <1>8, SoundMoved DEF Moved, EachWaits
<1> QED
  BY <1>3, <1>9, Becoming DEF d

-----------------------------------------------------------------------------
(* The theorems *)

(* Every step keeps the invariant. *)
LEMMA InvStep ==
    ASSUME Inv, [WindowsNext]_(windowsVars) PROVE Inv'
<1>1. CASE UNCHANGED windowsVars
  BY <1>1 DEF windowsVars, Inv, DocsOk, EachWaits, State
<1>2. CASE WindowsNext
  <2>1. CASE \E v, w \in PageWindows, target \in Targets, twice \in BOOLEAN : PostMessage(w, v, target, twice)
    BY <2>1, PostMessageStep
  <2>2. CASE \E v, w \in PageWindows : Send(w, v)
    BY <2>2, SendStep
  <2>3. CASE \E i \in DOMAIN messages : TimerFires(i)
    BY <2>3, TimerFiresStep
  <2>4. CASE \E i \in DOMAIN messages : MessageArrives(i)
    BY <2>4, MessageArrivesStep
  <2>5. CASE \E i \in DOMAIN messages : AnswerPing(i)
    BY <2>5, AnswerPingStep
  <2>6. CASE \E w \in Frames : Unload(w)
    BY <2>6, UnloadStep
  <2>7. CASE \E w \in Frames : RemoveFrame(w)
    BY <2>7, RemoveFrameStep
  <2>8. CASE \E w \in Frames : Attach(w)
    BY <2>8, AttachStep
  <2>9. CASE \E w \in Frames, o \in Origins : Navigate(w, o)
    BY <2>9, NavigateStep
  <2>10. CASE \E f \in Frames, cmd \in PingCmds : PingIframe(f, cmd)
    BY <2>10, PingIframeStep
  <2>11. CASE \E p \in DOMAIN pings : PingAgain(p)
    BY <2>11, PingAgainStep
  <2>12. CASE \E p \in DOMAIN pings : PingTimeout(p)
    BY <2>12, PingTimeoutStep
  <2> QED
    BY <1>2, <2>1, <2>2, <2>3, <2>4, <2>5, <2>6, <2>7, <2>8, <2>9, <2>10, <2>11, <2>12 DEF WindowsNext
<1> QED
  BY <1>1, <1>2

(* The invariant holds in every behaviour, whatever the bounds are. *)
THEOREM WindowMessagesInvariant == WindowsSpec => []Inv
<1>1. WindowsInit => Inv
  BY InitInv
<1>2. Inv /\ [WindowsNext]_(windowsVars) => Inv'
  BY InvStep
<1> QED
  BY <1>1, <1>2, PTL DEF WindowsSpec

(* It implies the types of the module's variables. *)
LEMMA InvTypes == ASSUME Inv PROVE WindowsTypeOK
<1>1. docs \in [PageWindows -> Documents]
  BY DEF Inv, DocsOk
<1>2. \A i \in DOMAIN messages : messages[i] \in MessageSet /\ Arrives(docs, messages[i])
  BY InvParts DEF EachArrives
<1>3. received \in Seq(DOMAIN messages)
  <2>1. received \in Seq(Nat) /\ \A a \in DOMAIN received : received[a] \in DOMAIN messages
    BY InvParts DEF InOrder
  <2> QED
    BY <2>1
<1>4. \A p \in DOMAIN pings : pings[p].state \in {"pending", "resolved", "rejected"} /\ pings[p].target \in Frames
  <2>1. pings \in Seq(PingSet)
    BY InvParts
  <2>2. \A p \in DOMAIN pings : pings[p] \in PingSet
    BY <2>1
  <2> QED
    BY <2>2 DEF PingSet
<1>5. ping.callback \in {NoPing} \cup DOMAIN pings /\ ping.cmd \in PingCmds \cup {NoCmd}
  <2>1. Pinging(pings, ping) /\ State \in States /\ State.ping = ping
    BY InvParts
  <2>2. ping.cmd \in PingCmds \cup {NoCmd}
    BY <2>1 DEF States
  <2> QED
    BY <2>1, <2>2 DEF Pinging
<1> QED
  BY <1>1, <1>2, <1>3, <1>4, <1>5 DEF WindowsTypeOK, MessageSet, Arrives

(* A page reads the data that was posted and the origin of its sender, out of one wrapper *)
(* or two.                                                                                *)
LEMMA UnwrappedIs ==
    ASSUME NEW m \in MessageSet, AsPosted(m)
    PROVE  OriginMessageData(m.wrappers) = <<>> /\ OriginOf(m.wrappers) = m.origin
<1> DEFINE last == [originUrl |-> m.origin, targetUrl |-> IF m.asked = "none" THEN m.origin ELSE m.asked]
           outer == [originUrl |-> m.origin, targetUrl |-> "*"]
<1>1. m.wrappers = IF m.twice THEN <<outer, last>> ELSE <<last>>
  BY DEF AsPosted
<1>2. last.originUrl = m.origin /\ outer.originUrl = m.origin
  OBVIOUS
<1> HIDE DEF last, outer
<1>3. CASE m.twice
  <2>1. m.wrappers = <<outer, last>>
    BY <1>1, <1>3
  <2>2. Len(m.wrappers) = 2 /\ Head(m.wrappers) = outer /\ Tail(m.wrappers) = <<last>> /\ Tail(<<last>>) = <<>>
    BY <2>1
  <2> QED
    BY <2>2, <1>2 DEF OriginMessageData, OriginOf
<1>4. CASE ~m.twice
  <2>1. m.wrappers = <<last>>
    BY <1>1, <1>4
  <2>2. Len(m.wrappers) = 1 /\ Head(m.wrappers) = last /\ Tail(m.wrappers) = <<>>
    BY <2>1
  <2> QED
    BY <2>2, <1>2 DEF OriginMessageData, OriginOf
<1> QED
  BY <1>3, <1>4

(* It implies what the module says of the messages. *)
LEMMA InvArrives == ASSUME Inv PROVE WindowMessagesArrive
<1>1. \A i \in DOMAIN messages : messages[i] \in MessageSet /\ Shows(messages[i]) /\ Arrives(docs, messages[i])
  BY InvParts DEF EachArrives
<1>2. PagesGetWhatIsPosted
  <2> SUFFICES ASSUME NEW i \in DOMAIN messages
               PROVE  /\ messages[i].shown # messages[i].due => messages[i].asked = "/" \/ messages[i].twice
                      /\ messages[i].shown =>
                             /\ messages[i].kind = "user" /\ OriginMessageData(messages[i].wrappers) = <<>>
                             /\ OriginOf(messages[i].wrappers) = messages[i].origin
    BY DEF PagesGetWhatIsPosted, Numbers
  <2>1. messages[i] \in MessageSet /\ Shows(messages[i])
    BY <1>1
  <2>2. messages[i].shown => messages[i].kind = "user" /\ AsPosted(messages[i])
    BY <2>1 DEF Shows
  <2> QED
    BY <2>1, <2>2, UnwrappedIs DEF Shows
<1>3. NoMessageIsLostOrDoubled
  <2> SUFFICES ASSUME NEW i \in DOMAIN messages, messages[i].kind # "user"
               PROVE  LET m == messages[i] IN
                      /\ m.calls <= 1
                      /\ m.at = "done" /\ m.calls = 0 =>
                            \/ ~m.heard \/ docs[m.to].number # m.number \/ ~Listens(m.to)
                            \/ ~m.direct /\ ~docs[m.from].present
    BY DEF NoMessageIsLostOrDoubled, Service, Numbers
  <2> QED
    BY <1>1 DEF Arrives, Listens
<1>4. MessagesAreInOrder
  BY InvParts DEF InOrder, SameWay, MessagesAreInOrder
<1>5. PingsTellTheTruth
  <2>1. pings \in Seq(PingSet) /\ Pinging(pings, ping) /\ Truthful(messages, pings)
    BY InvParts
  <2> SUFFICES ASSUME NEW p \in DOMAIN pings
               PROVE  /\ pings[p].state # "pending" <=> ~pings[p].interval /\ ~pings[p].timeout
                      /\ pings[p].alone /\ ~pings[p].used =>
                           LET answers == {i \in Service : messages[i].kind = "response" /\ messages[i].calls > 0
                                                              /\ messages[i].cmd = pings[p].cmd}
                           IN /\ pings[p].state = "resolved" => \E i \in answers : messages[i].from = pings[p].target
                              /\ pings[p].state = "pending" => answers = {}
    BY DEF PingsTellTheTruth
  <2> DEFINE answers == {i \in Service : messages[i].kind = "response" /\ messages[i].calls > 0
                                            /\ messages[i].cmd = pings[p].cmd}
  <2>2. pings[p].state # "pending" <=> ~pings[p].interval /\ ~pings[p].timeout
    BY <2>1 DEF Pinging
  <2>3. ASSUME pings[p].alone, ~pings[p].used, pings[p].state = "resolved"
        PROVE  \E i \in answers : messages[i].from = pings[p].target
    <3>1. Answered(messages, pings[p])
      BY <2>1, <2>3 DEF Truthful
    <3> QED
      BY <3>1 DEF Answered, Service, Numbers
  <2>4. ASSUME pings[p].alone, ~pings[p].used, pings[p].state = "pending"
        PROVE  answers = {}
    <3>1. \A i \in DOMAIN messages : messages[i].cmd = pings[p].cmd => OfPing(messages[i], pings[p])
      BY <2>1, <2>4 DEF Truthful, Asks
    <3> QED
      BY <3>1 DEF OfPing, Service, Numbers
  <2> QED
    BY <2>2, <2>3, <2>4
<1> QED
  BY <1>2, <1>3, <1>4, <1>5 DEF WindowMessagesArrive

(* The variables of the module keep their types, for any number of messages, pings and    *)
(* unloads.                                                                               *)
THEOREM WindowMessagesTypeCorrect == WindowsSpec => []WindowsTypeOK
<1>1. Inv => WindowsTypeOK
  BY InvTypes
<1> QED
  BY <1>1, WindowMessagesInvariant, PTL

(* For any number of messages, pings and unloads, a page gets what was posted to its      *)
(* origin and nothing else, no service message is lost or received twice, those that go   *)
(* the same way are received in their order, and a ping tells whether its frame has       *)
(* answered (message.ts:93-311).                                                          *)
THEOREM WindowMessagesAreSound == WindowsSpec => []WindowMessagesArrive
<1>1. Inv => WindowMessagesArrive
  BY InvArrives
<1> QED
  BY <1>1, WindowMessagesInvariant, PTL
=============================================================================
