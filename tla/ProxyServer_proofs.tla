--------------------------- MODULE ProxyServer_proofs ---------------------------
(***************************************************************************)
(* That the state of a session is switched cleanly, and that a page learns *)
(* what the runner did to cookies, for any snapshots and cookies and any   *)
(* number of requests and calls.                                           *)
(*                                                                         *)
(* InTurn says of every page request under way that what it brings is of   *)
(* the state applied last, with its storages; there is at most one.        *)
(* Telling says that whoever reads all that is still to be read about      *)
(* cookies in its order, from the browser, from the one answer on its way  *)
(* and from the session, ends up with the cookies of the session: a page   *)
(* that runs, and a task script that is still to start one.                *)
(***************************************************************************)
EXTENDS ProxyServer, TLAPS, SequenceTheorems, FiniteSetTheorems

-----------------------------------------------------------------------------
(* Reading sync cookies *)

(* Who reads nothing knows what he knew. *)
LEMMA KnownUnread ==
    ASSUME NEW api
    PROVE  Known(api, <<>>) = api
BY DEF Known, Mentioned, SetAtLast

(* Who reads one cookie knows of its change. *)
LEMMA KnownOfOne ==
    ASSUME NEW api, NEW s \in Syncs
    PROVE  Known(api, <<s>>) = IF s.set THEN api \cup {s.key} ELSE api \ {s.key}
<1>1. DOMAIN <<s>> = {1} /\ <<s>>[1] = s
  OBVIOUS
<1>2. Mentioned(<<s>>) = {s.key}
  BY <1>1 DEF Mentioned
<1>3. Decides(<<s>>, 1)
  BY <1>1 DEF Decides
<1>4. SetAtLast(<<s>>) = IF s.set THEN {s.key} ELSE {}
  BY <1>1, <1>3 DEF SetAtLast
<1> QED
  BY <1>2, <1>4 DEF Known

(* Only cookies are known. *)
LEMMA KnownType ==
    ASSUME NEW api \in SUBSET Cookies, NEW s \in Seq(Syncs)
    PROVE  Known(api, s) \in SUBSET Cookies
<1>1. \A i \in DOMAIN s : s[i] \in Syncs
  BY ElementOfSeq, LenProperties
<1>2. \A i \in DOMAIN s : s[i].key \in Cookies
  BY <1>1 DEF Syncs
<1> QED
  BY <1>2 DEF Known, SetAtLast

(* A cookie is mentioned in two sequences together if it is in one of them, and set at last  *)
(* if it is in the second, or in the first and not mentioned any more.                       *)
LEMMA MentionedInBoth ==
    ASSUME NEW s \in Seq(Syncs), NEW t \in Seq(Syncs)
    PROVE  /\ Mentioned(s \o t) = Mentioned(s) \cup Mentioned(t)
           /\ SetAtLast(s \o t) = (SetAtLast(s) \ Mentioned(t)) \cup SetAtLast(t)
<1> DEFINE u == s \o t
<1>1. /\ Len(s) \in Nat /\ Len(t) \in Nat /\ DOMAIN s = 1..Len(s) /\ DOMAIN t = 1..Len(t)
      /\ DOMAIN u = 1..(Len(s) + Len(t))
      /\ \A i \in 1..(Len(s) + Len(t)) : u[i] = IF i <= Len(s) THEN s[i] ELSE t[i - Len(s)]
  BY ConcatProperties, LenProperties
<1>2. \A i \in DOMAIN s : i \in DOMAIN u /\ u[i] = s[i]
  BY <1>1
<1>3. \A j \in DOMAIN t : Len(s) + j \in DOMAIN u /\ u[Len(s) + j] = t[j] /\ Len(s) + j > Len(s)
  BY <1>1
<1>4. ASSUME NEW i \in DOMAIN u, i \notin DOMAIN s
      PROVE  \E j \in DOMAIN t : i = Len(s) + j
  <2>1. i - Len(s) \in DOMAIN t /\ i = Len(s) + (i - Len(s))
    BY <1>1, <1>4
  <2> QED
    BY <2>1
<1> HIDE DEF u
<1>5. Mentioned(u) = Mentioned(s) \cup Mentioned(t)
  <2>1. Mentioned(u) \subseteq Mentioned(s) \cup Mentioned(t)
    BY <1>2, <1>3, <1>4 DEF Mentioned
  <2>2. Mentioned(s) \subseteq Mentioned(u)
    BY <1>2 DEF Mentioned
  <2>3. Mentioned(t) \subseteq Mentioned(u)
    BY <1>3 DEF Mentioned
  <2> QED
    BY <2>1, <2>2, <2>3
<1>6. ASSUME NEW j \in DOMAIN t
      PROVE  Decides(u, Len(s) + j) <=> Decides(t, j)
  <2>1. ASSUME Decides(t, j), NEW i \in DOMAIN u, i > Len(s) + j PROVE u[i].key # u[Len(s) + j].key
    <3>1. PICK k \in DOMAIN t : i = Len(s) + k
      BY <1>1, <1>4, <2>1
    <3>2. k > j
      BY <1>1, <2>1, <3>1
    <3>3. t[k].key # t[j].key
      BY <2>1, <3>2 DEF Decides
    <3> QED
      BY <1>3, <3>1, <3>3
  <2>2. ASSUME Decides(u, Len(s) + j), NEW k \in DOMAIN t, k > j PROVE t[k].key # t[j].key
    <3>1. Len(s) + k \in DOMAIN u /\ Len(s) + k > Len(s) + j
      BY <1>1, <2>2, <1>3
    <3>2. u[Len(s) + k].key # u[Len(s) + j].key
      BY <2>2, <3>1 DEF Decides
    <3> QED
      BY <1>3, <3>2
  <2> QED
    BY <2>1, <2>2 DEF Decides
<1>7. ASSUME NEW i \in DOMAIN s
      PROVE  Decides(u, i) <=> Decides(s, i) /\ s[i].key \notin Mentioned(t)
  <2>1. ASSUME Decides(s, i), s[i].key \notin Mentioned(t), NEW k \in DOMAIN u, k > i
        PROVE  u[k].key # u[i].key
    <3>1. CASE k \in DOMAIN s
      BY <1>2, <2>1, <3>1 DEF Decides
    <3>2. CASE k \notin DOMAIN s
      <4>1. PICK j \in DOMAIN t : k = Len(s) + j
        BY <1>4, <3>2
      <4>2. t[j].key # s[i].key
        BY <2>1 DEF Mentioned
      <4> QED
        BY <1>2, <1>3, <4>1, <4>2
    <3> QED
      BY <3>1, <3>2
  <2>2. ASSUME Decides(u, i), NEW k \in DOMAIN s, k > i PROVE s[k].key # s[i].key
    BY <1>2, <2>2 DEF Decides
  <2>3. ASSUME Decides(u, i), NEW j \in DOMAIN t PROVE t[j].key # s[i].key
    <3>1. Len(s) + j \in DOMAIN u /\ Len(s) + j > i
      BY <1>1, <1>3
    <3>2. u[Len(s) + j].key # u[i].key
      BY <2>3, <3>1 DEF Decides
    <3> QED
      BY <1>2, <1>3, <3>2
  <2>4. Decides(u, i) => s[i].key \notin Mentioned(t)
    BY <2>3 DEF Mentioned
  <2> QED
    BY <2>1, <2>2, <2>4 DEF Decides
<1>8. SetAtLast(u) = (SetAtLast(s) \ Mentioned(t)) \cup SetAtLast(t)
  <2>1. ASSUME NEW c \in SetAtLast(u) PROVE c \in (SetAtLast(s) \ Mentioned(t)) \cup SetAtLast(t)
    <3>1. PICK i \in DOMAIN u : u[i].key = c /\ u[i].set /\ Decides(u, i)
      BY DEF SetAtLast
    <3>2. CASE i \in DOMAIN s
      BY <3>1, <3>2, <1>2, <1>7 DEF SetAtLast
    <3>3. CASE i \notin DOMAIN s
      <4>1. PICK j \in DOMAIN t : i = Len(s) + j
        BY <3>3, <1>4
      <4> QED
        BY <3>1, <4>1, <1>3, <1>6 DEF SetAtLast
    <3> QED
      BY <3>2, <3>3
  <2>2. ASSUME NEW c \in SetAtLast(s), c \notin Mentioned(t) PROVE c \in SetAtLast(u)
    <3>1. PICK i \in DOMAIN s : s[i].key = c /\ s[i].set /\ Decides(s, i)
      BY DEF SetAtLast
    <3>2. i \in DOMAIN u /\ u[i] = s[i] /\ Decides(u, i)
      BY <3>1, <1>2, <1>7, <2>2
    <3> QED
      BY <3>1, <3>2 DEF SetAtLast
  <2>3. ASSUME NEW c \in SetAtLast(t) PROVE c \in SetAtLast(u)
    <3>1. PICK j \in DOMAIN t : t[j].key = c /\ t[j].set /\ Decides(t, j)
      BY DEF SetAtLast
    <3>2. Len(s) + j \in DOMAIN u /\ u[Len(s) + j] = t[j] /\ Decides(u, Len(s) + j)
      BY <3>1, <1>3, <1>6
    <3> QED
      BY <3>1, <3>2 DEF SetAtLast
  <2> QED
    BY <2>1, <2>2, <2>3
<1> QED
  BY <1>5, <1>8 DEF u

(* What is set at last is mentioned. *)
LEMMA SetIsMentioned ==
    ASSUME NEW s
    PROVE  SetAtLast(s) \subseteq Mentioned(s)
BY DEF SetAtLast, Mentioned

(* Reading one sequence after another is reading both together. *)
LEMMA KnownInTurn ==
    ASSUME NEW api, NEW s \in Seq(Syncs), NEW t \in Seq(Syncs)
    PROVE  Known(Known(api, s), t) = Known(api, s \o t)
BY MentionedInBoth, SetIsMentioned DEF Known

-----------------------------------------------------------------------------
(* The requests under way *)

(* The place of a request before another one, r, ended. *)
Before(r, q) == IF q < r THEN q ELSE q + 1

(* Without one of a sequence the others keep their order. *)
LEMMA RemovalKeepsOrder ==
    ASSUME NEW S, NEW c \in Seq(S), NEW r \in 1..Len(c)
    PROVE  /\ RemoveAt(c, r) \in Seq(S)
           /\ \A q \in DOMAIN RemoveAt(c, r) :
                 Before(r, q) \in DOMAIN c \ {r} /\ RemoveAt(c, r)[q] = c[Before(r, q)]
           /\ \A k \in DOMAIN c \ {r} : \E q \in DOMAIN RemoveAt(c, r) : Before(r, q) = k
           /\ \A q, p \in DOMAIN RemoveAt(c, r) : Before(r, q) = Before(r, p) => q = p
<1> DEFINE a == SubSeq(c, 1, r - 1)
           b == SubSeq(c, r + 1, Len(c))
<1>1. Len(c) \in Nat /\ \A j \in 1..Len(c) : c[j] \in S
  BY LenProperties, ElementOfSeq
<1>2. a \in Seq(S) /\ Len(a) = r - 1 /\ \A j \in 1..(r - 1) : a[j] = c[j]
  BY <1>1
<1>3. /\ b \in Seq(S) /\ Len(b) = Len(c) - r
      /\ \A j \in 1..(Len(c) - r) : b[j] = c[r + j]
  BY <1>1
<1>4. RemoveAt(c, r) = a \o b
  BY DEF RemoveAt
<1> HIDE DEF a, b
<1>5. /\ a \o b \in Seq(S) /\ Len(a \o b) = Len(c) - 1
      /\ \A j \in 1..(Len(c) - 1) : (a \o b)[j] = IF j <= r - 1 THEN a[j] ELSE b[j - (r - 1)]
  <2>1. /\ a \o b \in Seq(S) /\ Len(a \o b) = Len(a) + Len(b)
        /\ \A j \in 1..(Len(a) + Len(b)) : (a \o b)[j] = IF j <= Len(a) THEN a[j] ELSE b[j - Len(a)]
    BY <1>2, <1>3, ConcatProperties
  <2>2. Len(a) + Len(b) = Len(c) - 1
    BY <1>1, <1>2, <1>3
  <2> QED
    BY <1>2, <2>1, <2>2
<1>10. DOMAIN c = 1..Len(c)
  BY LenProperties
<1>6. DOMAIN (a \o b) = 1..(Len(c) - 1)
  BY <1>5, LenProperties
<1>7. ASSUME NEW q \in 1..(Len(c) - 1)
      PROVE  Before(r, q) \in 1..Len(c) \ {r} /\ (a \o b)[q] = c[Before(r, q)]
  <2>1. CASE q < r
    BY <1>1, <1>2, <1>5, <2>1 DEF Before
  <2>2. CASE ~(q < r)
    <3>1. /\ q - (r - 1) \in 1..(Len(c) - r) /\ r + (q - (r - 1)) = q + 1
          /\ Before(r, q) = q + 1 /\ q + 1 \in 1..Len(c) \ {r}
      BY <1>1, <2>2 DEF Before
    <3>2. (a \o b)[q] = b[q - (r - 1)]
      BY <1>1, <1>5, <2>2
    <3>3. b[q - (r - 1)] = c[r + (q - (r - 1))]
      BY <3>1, <1>3
    <3> QED
      BY <3>1, <3>2, <3>3
  <2> QED
    BY <2>1, <2>2
<1>8. ASSUME NEW k \in 1..Len(c) \ {r}
      PROVE  \E q \in 1..(Len(c) - 1) : Before(r, q) = k
  <2>1. CASE k < r
    <3>1. k \in 1..(Len(c) - 1) /\ Before(r, k) = k
      BY <1>1, <2>1 DEF Before
    <3> QED
      BY <3>1
  <2>2. CASE ~(k < r)
    <3>1. k - 1 \in 1..(Len(c) - 1) /\ Before(r, k - 1) = k
      BY <1>1, <2>2 DEF Before
    <3> QED
      BY <3>1
  <2> QED
    BY <2>1, <2>2
<1>9. \A q, p \in 1..(Len(c) - 1) : Before(r, q) = Before(r, p) => q = p
  BY <1>1 DEF Before
<1> QED
  BY <1>1, <1>10, <1>4, <1>5, <1>6, <1>7, <1>8, <1>9

(* When a request ends the others stay, in their order. *)
LEMMA OthersStay ==
    ASSUME NEW S, requests \in Seq(S), NEW r \in DOMAIN requests
    PROVE  /\ Others(r) \in Seq(S)
           /\ \A q \in DOMAIN Others(r) :
                 Before(r, q) \in DOMAIN requests \ {r} /\ Others(r)[q] = requests[Before(r, q)]
           /\ \A k \in DOMAIN requests \ {r} : \E q \in DOMAIN Others(r) : Before(r, q) = k
           /\ \A q, p \in DOMAIN Others(r) : Before(r, q) = Before(r, p) => q = p
BY RemovalKeepsOrder, LenProperties DEF Others

(* A new request is the last one. *)
LEMMA AppendFacts ==
    ASSUME NEW S, NEW q \in Seq(S), NEW x \in S
    PROVE  /\ Append(q, x) \in Seq(S)
           /\ DOMAIN Append(q, x) = DOMAIN q \cup {Len(q) + 1} /\ Len(q) + 1 \notin DOMAIN q
           /\ \A i \in DOMAIN q : Append(q, x)[i] = q[i]
           /\ Append(q, x)[Len(q) + 1] = x
<1>1. Len(q) \in Nat /\ DOMAIN q = 1..Len(q)
  BY LenProperties
<1>2. /\ Append(q, x) \in Seq(S) /\ DOMAIN Append(q, x) = 1..(Len(q) + 1)
      /\ \A i \in 1..Len(q) : Append(q, x)[i] = q[i]
      /\ Append(q, x)[Len(q) + 1] = x
  BY <1>1, AppendProperties, LenProperties
<1> QED
  BY <1>1, <1>2

(* A sequence with other elements at its places. *)
LEMMA SameLength ==
    ASSUME NEW S, NEW T, NEW q \in Seq(S), NEW p, DOMAIN p = DOMAIN q,
           p = [i \in DOMAIN p |-> p[i]], \A i \in DOMAIN p : p[i] \in T
    PROVE  p \in Seq(T)
<1>1. Len(q) \in Nat /\ DOMAIN q = 1..Len(q)
  BY LenProperties
<1>2. p \in [1..Len(q) -> T]
  BY <1>1
<1> QED
  BY <1>1, <1>2, SeqDef

-----------------------------------------------------------------------------
(* Types *)

AllAreTold(cookies) == SetToSeq({[key |-> c, set |-> TRUE] : c \in cookies})

(* deleteCookies tells of every cookie, and of nothing when there is none. *)
LEMMA AllAreToldType ==
    ASSUME NEW api \in SUBSET Cookies, IsFiniteSet(api)
    PROVE  AllAreTold(api) \in Seq(Syncs) /\ (api = {} => AllAreTold(api) = <<>>)
<1> DEFINE T == {[key |-> c, set |-> TRUE] : c \in api}
           f == [c \in api |-> [key |-> c, set |-> TRUE]]
<1>1. f \in Surjection(api, T)
  <2>1. f \in [api -> T]
    OBVIOUS
  <2>2. \A t \in T : \E c \in api : f[c] = t
    OBVIOUS
  <2> QED
    BY <2>1, <2>2 DEF Surjection
<1>2. T \subseteq Syncs
  <2>1. \A c \in api : [key |-> c, set |-> TRUE] \in Syncs
    BY DEF Syncs
  <2> QED
    BY <2>1
<1>3. api = {} => T = {}
  OBVIOUS
<1> HIDE DEF T, f
<1>4. IsFiniteSet(T)
  BY <1>1, FS_Surjection
<1>5. Cardinality(T) \in Nat /\ ExistsBijection(1..Cardinality(T), T)
  BY <1>4, FS_CardinalityType
<1>6. PICK g : g \in Bijection(1..Cardinality(T), T)
  BY <1>5 DEF ExistsBijection
<1>7. g \in [1..Cardinality(T) -> T] /\ IsInjective(g)
  BY <1>6 DEF Bijection, Injection
<1>8. SetToSeq(T) \in [1..Cardinality(T) -> T]
  BY <1>7 DEF SetToSeq
<1>9. SetToSeq(T) \in Seq(Syncs)
  BY <1>5, <1>8, <1>2
<1>10. ASSUME api = {} PROVE SetToSeq(T) = <<>>
  <2>1. T = {} /\ Cardinality(T) = 0
    BY <1>10, <1>3, FS_EmptySet
  <2>2. SetToSeq(T) \in [1..0 -> {}]
    BY <1>8, <2>1
  <2>3. Len(SetToSeq(T)) = 0
    BY <2>2, <1>9
  <2> QED
    BY <2>3, <1>9, EmptySeq
<1> QED
  BY <1>9, <1>10 DEF AllAreTold, T

TypeInv == ProxyTypeOK /\ IsFiniteSet(session.api)

(* A call of the runner counts, and otherwise changes what it says. *)
SameSession(s, t) ==
    t.jar = s.jar /\ t.api = s.api /\ t.current = s.current /\ t.pending = s.pending
    /\ t.toTell = s.toTell

(* What the call makes of a session. *)
LEMMA CallFacts ==
    ASSUME NEW s \in Sessions, Call(s)
    PROVE  session' \in Sessions /\ SameSession(s, session')
<1>1. session' = [s EXCEPT !.calls = @ + 1]
  BY DEF Call
<1>2. s.calls \in Nat /\ s.calls + 1 \in Nat
  BY DEF Sessions
<1>3. session' \in Sessions
  BY <1>1, <1>2 DEF Sessions
<1>4. SameSession(s, session')
  BY <1>1 DEF Sessions, SameSession
<1> QED
  BY <1>3, <1>4

(* A request counts, and is the last one. *)
Asked(kind, s, restoring) ==
    [kind |-> kind, of |-> IF kind = "page" THEN s.current ELSE page.of,
     restoring |-> restoring, api |-> IF kind = "task" THEN s.api ELSE {},
     told |-> <<>>, live |-> TRUE, step |-> "asked"]

(* What the request makes of the session and of the requests under way. *)
LEMMA AskFacts ==
    ASSUME ProxyTypeOK, NEW s \in Sessions, NEW kind \in {"page", "asset", "message", "socket", "task"},
           NEW restoring \in States \cup {NoState}, NEW earlier \in Seq(RequestStates),
           AskAfter(earlier, kind, s, restoring)
    PROVE  /\ session' \in Sessions /\ SameSession(s, session')
           /\ Asked(kind, s, restoring) \in RequestStates
           /\ requests' = Append(earlier, Asked(kind, s, restoring)) /\ requests' \in Seq(RequestStates)
           /\ proxy' = proxy /\ page' = page /\ proxy.servers = "started"
<1>1. session' = [s EXCEPT !.sent = @ + 1]
  BY DEF AskAfter
<1>2. session' \in Sessions /\ SameSession(s, session')
  BY <1>1 DEF Sessions, SameSession
<1>3. page.of \in States
  BY DEF ProxyTypeOK, PageStates
<1>4. s.current \in States /\ s.api \in SUBSET Cookies
  BY DEF Sessions
<1>5. Asked(kind, s, restoring) \in RequestStates
  BY <1>3, <1>4, EmptySeq DEF Asked, RequestStates
<1>6. requests' = Append(earlier, Asked(kind, s, restoring))
  BY DEF AskAfter, Asked
<1>7. requests' \in Seq(RequestStates)
  BY <1>5, <1>6, AppendFacts
<1> QED
  BY <1>2, <1>5, <1>6, <1>7 DEF AskAfter

(* Cookies of a page, or of a server, can only add to the jar. *)
SameButJar(s, t, of) ==
    /\ t.jar \in {s.jar, s.jar \cup {of}} /\ t.api = s.api /\ t.current = s.current
    /\ t.pending = s.pending /\ t.toTell = s.toTell

(* What dispatch makes of a session. *)
LEMMA DispatchedFacts ==
    ASSUME ProxyTypeOK, NEW s \in Dispatched
    PROVE  s \in Sessions /\ SameButJar(session, s, page.of)
<1>1. session \in Sessions /\ page.of \in States
  BY DEF ProxyTypeOK, PageStates
<1>2. CASE s = session
  BY <1>1, <1>2 DEF SameButJar
<1>3. CASE s = [session EXCEPT !.jar = @ \cup {page.of}]
  BY <1>1, <1>3 DEF SameButJar, Sessions
<1> QED
  BY <1>2, <1>3 DEF Dispatched

(* What an answer makes of a session. *)
LEMMA SetByServerFacts ==
    ASSUME ProxyTypeOK, NEW r \in DOMAIN requests, NEW s \in SetByServer(r)
    PROVE  s \in Sessions /\ SameButJar(session, s, requests[r].of)
<1>1. session \in Sessions
  BY DEF ProxyTypeOK
<1>2. requests[r] \in RequestStates
  BY ElementOfSeq, LenProperties DEF ProxyTypeOK
<1>3. requests[r].of \in States
  BY <1>2 DEF RequestStates
<1>4. CASE s = session
  BY <1>1, <1>4 DEF SameButJar
<1>5. CASE s = [session EXCEPT !.jar = @ \cup {requests[r].of}]
  BY <1>1, <1>3, <1>5 DEF SameButJar, Sessions
<1> QED
  BY <1>4, <1>5 DEF SetByServer

(* A page request applies the pending snapshot. *)
LEMMA OnPageRequestFacts ==
    ASSUME NEW s \in Sessions
    PROVE  /\ OnPageRequest(s) \in Sessions
           /\ s.pending = NoState => OnPageRequest(s) = s
           /\ s.pending # NoState =>
                 /\ OnPageRequest(s).jar = {s.pending} /\ OnPageRequest(s).api = {}
                 /\ OnPageRequest(s).current = s.pending /\ OnPageRequest(s).pending = NoState
                 /\ OnPageRequest(s).toTell = s.toTell /\ s.pending \in States
<1>1. CASE s.pending = NoState
  BY <1>1 DEF OnPageRequest
<1>2. CASE s.pending # NoState
  <2>1. s.pending \in States
    BY <1>2 DEF Sessions
  <2> QED
    BY <2>1, <1>2 DEF OnPageRequest, Sessions
<1> QED
  BY <1>1, <1>2

(* The request that is answered. *)
LEMMA RequestType ==
    ASSUME ProxyTypeOK, NEW r \in DOMAIN requests
    PROVE  requests[r] \in RequestStates
BY ElementOfSeq, LenProperties DEF ProxyTypeOK

(* What becomes of the requests keeps their types. *)
LEMMA RequestsType ==
    ASSUME ProxyTypeOK, NEW r \in DOMAIN requests
    PROVE  /\ Others(r) \in Seq(RequestStates)
           /\ [q \in DOMAIN Others(r) |-> [Others(r)[q] EXCEPT !.live = FALSE]] \in Seq(RequestStates)
           /\ [requests EXCEPT ![r].step = "redirected"] \in Seq(RequestStates)
           /\ [requests EXCEPT ![r].step = "answered", ![r].told = session.toTell] \in Seq(RequestStates)
<1>1. requests \in Seq(RequestStates) /\ Others(r) \in Seq(RequestStates)
  BY OthersStay DEF ProxyTypeOK
<1>2. \A q \in DOMAIN requests : requests[q] \in RequestStates
  BY RequestType
<1>3. session.toTell \in Seq(Syncs)
  BY DEF ProxyTypeOK, Sessions
<1>4. [requests EXCEPT ![r].step = "redirected"] \in Seq(RequestStates)
  <2> DEFINE p == [requests EXCEPT ![r].step = "redirected"]
  <2>1. [requests[r] EXCEPT !.step = "redirected"] \in RequestStates
    BY <1>2 DEF RequestStates
  <2>2. \A q \in DOMAIN requests : p[q] \in RequestStates
    BY <1>2, <2>1
  <2>3. DOMAIN p = DOMAIN requests /\ p = [q \in DOMAIN p |-> p[q]]
    OBVIOUS
  <2> HIDE DEF p
  <2>4. p \in Seq(RequestStates)
    BY <1>1, <2>2, <2>3, SameLength
  <2> QED
    BY <2>4 DEF p
<1>5. [requests EXCEPT ![r].step = "answered", ![r].told = session.toTell] \in Seq(RequestStates)
  <2> DEFINE p == [requests EXCEPT ![r].step = "answered", ![r].told = session.toTell]
  <2>1. [requests[r] EXCEPT !.step = "answered", !.told = session.toTell] \in RequestStates
    BY <1>2, <1>3 DEF RequestStates
  <2>2. \A q \in DOMAIN requests : p[q] \in RequestStates
    BY <1>2, <2>1
  <2>3. DOMAIN p = DOMAIN requests /\ p = [q \in DOMAIN p |-> p[q]]
    OBVIOUS
  <2> HIDE DEF p
  <2>4. p \in Seq(RequestStates)
    BY <1>1, <2>2, <2>3, SameLength
  <2> QED
    BY <2>4 DEF p
<1>6. [q \in DOMAIN Others(r) |-> [Others(r)[q] EXCEPT !.live = FALSE]] \in Seq(RequestStates)
  <2> DEFINE p == [q \in DOMAIN Others(r) |-> [Others(r)[q] EXCEPT !.live = FALSE]]
  <2>1. \A q \in DOMAIN Others(r) : Others(r)[q] \in RequestStates
    BY <1>1, ElementOfSeq, LenProperties
  <2>2. \A q \in DOMAIN Others(r) : p[q] \in RequestStates
    BY <2>1 DEF RequestStates
  <2>3. DOMAIN p = DOMAIN Others(r) /\ p = [q \in DOMAIN p |-> p[q]]
    OBVIOUS
  <2> HIDE DEF p
  <2>4. p \in Seq(RequestStates)
    BY <1>1, <2>2, <2>3, SameLength
  <2> QED
    BY <2>4 DEF p
<1> QED
  BY <1>1, <1>4, <1>5, <1>6

(* The calls of the runner keep the types. *)
LEMMA CallsKeepTypes ==
    ASSUME TypeInv,
           \/ \E s \in Snapshots : UseStateSnapshot(s)
           \/ \E c \in Cookies : SetCookie(c) \/ DeleteCookie(c)
           \/ DeleteAllCookies
    PROVE  TypeInv'
<1>1. session \in Sessions /\ IsFiniteSet(session.api)
  BY DEF TypeInv, ProxyTypeOK
<1>2. ASSUME NEW s \in Sessions, Call(s), UNCHANGED <<proxy, requests, page>>, troubles' \subseteq Troubles,
             IsFiniteSet(s.api)
      PROVE  TypeInv'
  <2>1. session' \in Sessions /\ session'.api = s.api
    BY <1>2, CallFacts DEF SameSession
  <2> QED
    BY <1>2, <2>1 DEF TypeInv, ProxyTypeOK
<1>3. troubles \subseteq Troubles
  BY DEF TypeInv, ProxyTypeOK
<1>4. ASSUME NEW s \in Snapshots, UseStateSnapshot(s) PROVE TypeInv'
  <2>1. PICK t : t = [session EXCEPT !.pending = s]
    OBVIOUS
  <2>2. t \in Sessions /\ t.api = session.api
    BY <1>1, <2>1 DEF Sessions, States
  <2>3. Call(t)
    BY <1>4, <2>1 DEF UseStateSnapshot
  <2> QED
    BY <1>1, <1>2, <1>3, <1>4, <2>2, <2>3 DEF UseStateSnapshot
<1>5. ASSUME NEW c \in Cookies, SetCookie(c) PROVE TypeInv'
  <2>1. PICK t : t = [session EXCEPT !.api = @ \cup {c},
                                     !.toTell = Append(@, [key |-> c, set |-> TRUE])]
    OBVIOUS
  <2>2. Append(session.toTell, [key |-> c, set |-> TRUE]) \in Seq(Syncs)
    BY <1>1, AppendProperties DEF Sessions, Syncs
  <2>3. t \in Sessions /\ t.api = session.api \cup {c}
    BY <1>1, <2>1, <2>2 DEF Sessions
  <2>4. IsFiniteSet(t.api)
    BY <1>1, <2>3, FS_AddElement
  <2>5. Call(t)
    BY <1>5, <2>1 DEF SetCookie
  <2> QED
    BY <1>2, <1>3, <1>5, <2>3, <2>4, <2>5 DEF SetCookie
<1>6. ASSUME NEW c \in Cookies, DeleteCookie(c) PROVE TypeInv'
  <2>1. PICK t : t = [session EXCEPT !.api = @ \ {c},
                                     !.toTell = Append(@, [key |-> c, set |-> FALSE])]
    OBVIOUS
  <2>2. Append(session.toTell, [key |-> c, set |-> FALSE]) \in Seq(Syncs)
    BY <1>1, AppendProperties DEF Sessions, Syncs
  <2>3. t \in Sessions /\ t.api = session.api \ {c}
    BY <1>1, <2>1, <2>2 DEF Sessions
  <2>4. IsFiniteSet(t.api)
    BY <1>1, <2>3, FS_RemoveElement
  <2>5. Call(t)
    BY <1>6, <2>1 DEF DeleteCookie
  <2> QED
    BY <1>2, <1>3, <1>6, <2>3, <2>4, <2>5 DEF DeleteCookie
<1>7. ASSUME DeleteAllCookies PROVE TypeInv'
  <2>1. PICK t : t = [session EXCEPT !.jar = {}, !.api = {},
                                     !.toTell = @ \o AllAreTold(session.api)]
    OBVIOUS
  <2>2. session.toTell \o AllAreTold(session.api) \in Seq(Syncs)
    BY <1>1, AllAreToldType, ConcatProperties DEF Sessions
  <2>3. t \in Sessions /\ t.api = {}
    BY <1>1, <2>1, <2>2 DEF Sessions
  <2>4. IsFiniteSet(t.api)
    BY <2>3, FS_EmptySet
  <2>5. Call(t)
    BY <1>7, <2>1 DEF DeleteAllCookies, AllAreTold
  <2>6. troubles' \subseteq Troubles /\ UNCHANGED <<proxy, requests, page>>
    BY <1>3, <1>7 DEF DeleteAllCookies, Trouble, Troubles
  <2> QED
    BY <1>2, <2>3, <2>4, <2>5, <2>6
<1> QED
  BY <1>4, <1>5, <1>6, <1>7

(* A page request keeps the types, whatever requests are left. *)
LEMMA NavigationKeepsTypes ==
    ASSUME TypeInv, NEW earlier \in Seq(RequestStates), NEW s \in Dispatched, Navigate(earlier, s),
           troubles' \subseteq Troubles
    PROVE  TypeInv'
<1>1. /\ ProxyTypeOK /\ session \in Sessions /\ IsFiniteSet(session.api)
      /\ page \in PageStates /\ proxy \in [servers : {"new", "started", "closed"}, open : BOOLEAN]
  BY DEF TypeInv, ProxyTypeOK
<1>2. s \in Sessions /\ s.api = session.api
  BY <1>1, DispatchedFacts DEF SameButJar
<1>3. OnPageRequest(s) \in Sessions /\ OnPageRequest(s).api \in {session.api, {}}
  BY <1>2, OnPageRequestFacts
<1>4. (IF s.pending.storages THEN s.pending ELSE NoState) \in States \cup {NoState}
  BY <1>2 DEF Sessions
<1>5. IsFiniteSet(OnPageRequest(s).api)
  BY <1>1, <1>3, FS_EmptySet
<1>6. /\ session' \in Sessions /\ session'.api = OnPageRequest(s).api
      /\ requests' \in Seq(RequestStates) /\ proxy' = proxy /\ page' = page
  BY <1>1, <1>3, <1>4, AskFacts DEF Navigate, SameSession
<1> QED
  BY <1>1, <1>5, <1>6 DEF TypeInv, ProxyTypeOK

(* Requests keep the types. *)
LEMMA RequestsKeepTypes ==
    ASSUME TypeInv,
           \/ AskForPage \/ AskForAsset \/ AskForTaskScript
           \/ \E kind \in {"message", "socket"} : SendMessage(kind)
    PROVE  TypeInv'
<1>1. /\ ProxyTypeOK /\ session \in Sessions /\ IsFiniteSet(session.api) /\ troubles \subseteq Troubles
      /\ page \in PageStates /\ proxy \in [servers : {"new", "started", "closed"}, open : BOOLEAN]
  BY DEF TypeInv, ProxyTypeOK
<1>2. ASSUME NEW s \in Sessions, NEW kind \in {"page", "asset", "message", "socket", "task"},
             Ask(kind, s), troubles' \subseteq Troubles, IsFiniteSet(s.api)
      PROVE  TypeInv'
  <2>1. /\ session' \in Sessions /\ session'.api = s.api /\ requests' \in Seq(RequestStates)
        /\ proxy' = proxy /\ page' = page
    BY <1>1, <1>2, AskFacts DEF SameSession, Ask, ProxyTypeOK
  <2> QED
    BY <1>1, <1>2, <2>1 DEF TypeInv, ProxyTypeOK
<1>3. ASSUME AskForPage PROVE TypeInv'
  <2>1. PICK s \in Dispatched :
           /\ Navigate(requests, s)
           /\ troubles' = troubles \cup Unfinished(requests, s) \cup Trouble("late", BringsOldCookies(s))
    BY <1>3 DEF AskForPage
  <2>2. troubles' \subseteq Troubles
    BY <1>1, <2>1 DEF Unfinished, Trouble, Troubles
  <2> QED
    BY <1>1, <2>1, <2>2, NavigationKeepsTypes DEF ProxyTypeOK
<1>4. ASSUME AskForAsset PROVE TypeInv'
  <2>1. PICK s \in Dispatched : Ask("asset", s)
    BY <1>4 DEF AskForAsset
  <2>2. s \in Sessions /\ s.api = session.api
    BY <1>1, DispatchedFacts DEF SameButJar
  <2>3. troubles' \subseteq Troubles
    BY <1>1, <1>4 DEF AskForAsset, Trouble, Troubles
  <2> QED
    BY <1>1, <1>2, <2>1, <2>2, <2>3
<1>5. ASSUME AskForTaskScript PROVE TypeInv'
  BY <1>1, <1>2, <1>5 DEF AskForTaskScript
<1>6. ASSUME NEW kind \in {"message", "socket"}, SendMessage(kind) PROVE TypeInv'
  BY <1>1, <1>2, <1>6 DEF SendMessage
<1> QED
  BY <1>3, <1>4, <1>5, <1>6

(* Answers keep the types. *)
LEMMA AnswersKeepTypes ==
    ASSUME TypeInv, Answer
    PROVE  TypeInv'
<1>1. /\ ProxyTypeOK /\ session \in Sessions /\ IsFiniteSet(session.api) /\ troubles \subseteq Troubles
      /\ page \in PageStates /\ proxy \in [servers : {"new", "started", "closed"}, open : BOOLEAN]
      /\ page.api \in SUBSET Cookies /\ page.unread \in Seq(Syncs)
  BY DEF TypeInv, ProxyTypeOK, PageStates
<1> SUFFICES ASSUME NEW r \in DOMAIN requests,
                    \/ PageArrives(r) \/ PageIsRedirected(r) \/ RedirectIsFollowed(r)
                    \/ PageFails(r) \/ AssetArrives(r) \/ MessageIsHandled(r) \/ MessageTakesNoCookies(r)
                    \/ MessageIsAnswered(r) \/ AnswerIsLost(r) \/ TaskScriptArrives(r)
             PROVE  TypeInv'
  BY DEF Answer
<1>2. /\ requests[r] \in RequestStates /\ requests[r].of \in States /\ requests[r].told \in Seq(Syncs)
      /\ requests[r].api \in SUBSET Cookies /\ requests[r].restoring \in States \cup {NoState}
  BY <1>1, RequestType DEF RequestStates
<1>3. Others(r) \in Seq(RequestStates)
  BY <1>1, RequestsType
<1>4. ASSUME session' \in Sessions, session'.api = session.api, requests' \in Seq(RequestStates),
             page' \in PageStates, troubles' \subseteq Troubles, proxy' = proxy
      PROVE  TypeInv'
  BY <1>1, <1>4 DEF TypeInv, ProxyTypeOK
<1>5. ASSUME NEW s \in SetByServer(r) PROVE s \in Sessions /\ s.api = session.api
  BY <1>1, SetByServerFacts DEF SameButJar
<1>6. CASE PageArrives(r)
  <2>1. requests' \in Seq(RequestStates)
    BY <1>1, <1>6, RequestsType DEF PageArrives
  <2>2. session' \in Sessions /\ session'.api = session.api
    BY <1>5, <1>6 DEF PageArrives
  <2>3. page' \in PageStates
    BY <1>1, <1>2, <1>6 DEF PageArrives, PageStates
  <2>4. troubles' \subseteq Troubles
    BY <1>1, <1>6 DEF PageArrives, Late, Trouble, Troubles
  <2> QED
    BY <1>4, <1>6, <2>1, <2>2, <2>3, <2>4 DEF PageArrives
<1>7. CASE PageIsRedirected(r)
  <2>1. requests' \in Seq(RequestStates)
    BY <1>1, <1>7, RequestsType DEF PageIsRedirected
  <2>2. session' \in Sessions /\ session'.api = session.api
    BY <1>5, <1>7 DEF PageIsRedirected
  <2>3. troubles' \subseteq Troubles
    BY <1>1, <1>7 DEF PageIsRedirected, Late, Trouble, Troubles
  <2> QED
    BY <1>1, <1>4, <1>7, <2>1, <2>2, <2>3 DEF PageIsRedirected
<1>15. CASE RedirectIsFollowed(r)
  <2>1. PICK s \in Dispatched :
           /\ Navigate(Others(r), s)
           /\ troubles' = troubles \cup Unfinished(Others(r), s)
                  \cup Trouble("carried", BringsOldCookies(s))
                  \cup Trouble("unrestored", requests[r].restoring # NoState /\ s.pending = NoState)
    BY <1>15 DEF RedirectIsFollowed
  <2>2. troubles' \subseteq Troubles
    BY <1>1, <2>1 DEF Unfinished, Trouble, Troubles
  <2> QED
    BY <1>3, <2>1, <2>2, NavigationKeepsTypes
<1>8. CASE PageFails(r)
  BY <1>1, <1>3, <1>4, <1>8 DEF PageFails, Ended, Troubles
<1>9. CASE AssetArrives(r)
  <2>1. session' \in Sessions /\ session'.api = session.api
    BY <1>5, <1>9 DEF AssetArrives
  <2>2. troubles' \subseteq Troubles
    BY <1>1, <1>9 DEF AssetArrives, Late, Trouble, Troubles
  <2> QED
    BY <1>1, <1>3, <1>4, <1>9, <2>1, <2>2 DEF AssetArrives, Ended
<1>10. CASE MessageIsHandled(r)
  <2>1. requests' \in Seq(RequestStates)
    BY <1>1, <1>10, RequestsType DEF MessageIsHandled
  <2>2. session' \in Sessions /\ session'.api = session.api
    BY <1>1, <1>10, EmptySeq DEF MessageIsHandled, Sessions
  <2> QED
    BY <1>1, <1>4, <1>10, <2>1, <2>2 DEF MessageIsHandled
<1>11. CASE MessageTakesNoCookies(r)
  BY <1>1, <1>3, <1>4, <1>11 DEF MessageTakesNoCookies, Ended
<1>12. CASE MessageIsAnswered(r)
  <2>1. /\ Known(page.api, requests[r].told) \in SUBSET Cookies
        /\ page.unread \o requests[r].told \in Seq(Syncs)
    BY <1>1, <1>2, KnownType, ConcatProperties
  <2>2. page' \in PageStates
    BY <1>1, <1>12, <2>1 DEF MessageIsAnswered, PageStates
  <2>3. troubles' \subseteq Troubles
    BY <1>1, <1>12 DEF MessageIsAnswered, Trouble, Troubles
  <2> QED
    BY <1>1, <1>3, <1>4, <1>12, <2>2, <2>3 DEF MessageIsAnswered, Ended
<1>13. CASE AnswerIsLost(r)
  <2>1. troubles' \subseteq Troubles
    BY <1>1, <1>13 DEF AnswerIsLost, Trouble, Troubles
  <2> QED
    BY <1>1, <1>3, <1>4, <1>13, <2>1 DEF AnswerIsLost, Ended
<1>14. CASE TaskScriptArrives(r)
  <2>1. Known(requests[r].api, page.unread) \in SUBSET Cookies
    BY <1>1, <1>2, KnownType
  <2>2. page' \in PageStates
    BY <1>1, <1>14, <2>1, EmptySeq DEF TaskScriptArrives, PageStates
  <2> QED
    BY <1>1, <1>3, <1>4, <1>14, <2>2 DEF TaskScriptArrives, Ended
<1> QED
  BY <1>6, <1>7, <1>8, <1>9, <1>10, <1>11, <1>12, <1>13, <1>14, <1>15

(* Every step keeps the types. *)
LEMMA TypeStep ==
    ASSUME TypeInv, [ProxyNext]_proxyVars
    PROVE  TypeInv'
<1>1. CASE Start \/ Close \/ OpenSession \/ CloseSession
  <2>1. <<>> \in Seq(RequestStates)
    BY EmptySeq
  <2> QED
    BY <1>1, <2>1 DEF Start, Close, OpenSession, CloseSession, TypeInv, ProxyTypeOK, Troubles
<1>2. CASE \/ \E s \in Snapshots : UseStateSnapshot(s)
           \/ \E c \in Cookies : SetCookie(c) \/ DeleteCookie(c)
           \/ DeleteAllCookies
  BY <1>2, CallsKeepTypes
<1>3. CASE \/ AskForPage \/ AskForAsset \/ AskForTaskScript
           \/ \E kind \in {"message", "socket"} : SendMessage(kind)
  BY <1>3, RequestsKeepTypes
<1>4. CASE Answer
  BY <1>4, AnswersKeepTypes
<1>5. CASE UNCHANGED proxyVars
  BY <1>5 DEF proxyVars, TypeInv, ProxyTypeOK
<1> QED
  BY <1>1, <1>2, <1>3, <1>4, <1>5 DEF ProxyNext

(* The first states have the types. *)
LEMMA TypeInit ==
    ASSUME ProxyInit
    PROVE  TypeInv
<1>1. InitialSession \in Sessions /\ InitialSession.api = {}
  BY EmptySeq DEF InitialSession, Sessions, States
<1>2. InitialPage \in PageStates
  BY EmptySeq DEF InitialPage, PageStates, States
<1>3. <<>> \in Seq(RequestStates)
  BY EmptySeq
<1>4. IsFiniteSet(InitialSession.api)
  BY <1>1, FS_EmptySet
<1> QED
  BY <1>1, <1>2, <1>3, <1>4 DEF ProxyInit, TypeInv, ProxyTypeOK, Troubles

(* The proxy, the session, the requests and the page always have their types. *)
THEOREM TypeCorrect == ProxySpec => []ProxyTypeOK
<1>1. ProxyInit => TypeInv
  BY TypeInit
<1>2. TypeInv /\ [ProxyNext]_proxyVars => TypeInv'
  BY TypeStep
<1>3. TypeInv => ProxyTypeOK
  BY DEF TypeInv
<1> QED
  BY <1>1, <1>2, <1>3, PTL DEF ProxySpec

-----------------------------------------------------------------------------
(* Steps, as far as the pages and the session are concerned *)

(* The actions that neither ask for a page nor answer such a request. *)
Aside ==
    \/ Start \/ OpenSession \/ CloseSession
    \/ \E s \in Snapshots : UseStateSnapshot(s)
    \/ \E c \in Cookies : SetCookie(c) \/ DeleteCookie(c)
    \/ DeleteAllCookies
    \/ AskForAsset \/ AskForTaskScript
    \/ \E kind \in {"message", "socket"} : SendMessage(kind)
    \/ \E r \in DOMAIN requests :
          \/ AssetArrives(r) \/ MessageIsHandled(r) \/ MessageTakesNoCookies(r)
          \/ MessageIsAnswered(r) \/ AnswerIsLost(r) \/ TaskScriptArrives(r)

AnswerToPage == \E r \in DOMAIN requests :
    PageArrives(r) \/ PageIsRedirected(r) \/ RedirectIsFollowed(r) \/ PageFails(r)

(* Every step is aside, or is about a page. *)
LEMMA Steps ==
    ASSUME [ProxyNext]_proxyVars
    PROVE  Aside \/ Close \/ AskForPage \/ AnswerToPage \/ UNCHANGED proxyVars
BY DEF ProxyNext, Aside, Answer, AnswerToPage

OnePage == \A r, q \in DOMAIN requests : requests[r].kind = "page" /\ requests[q].kind = "page" => r = q

(* The page requests under way are the same. *)
SamePages ==
    /\ \A q \in DOMAIN requests' : requests'[q].kind = "page" =>
          \E k \in DOMAIN requests : /\ requests[k].kind = "page" /\ requests'[q].of = requests[k].of
                                     /\ requests'[q].restoring = requests[k].restoring
    /\ OnePage => OnePage'
    /\ UnderWay("page")' <=> UnderWay("page")

(* They are when another request comes. *)
LEMMA AppendedAside ==
    ASSUME requests \in Seq(RequestStates), NEW x \in RequestStates, x.kind # "page",
           requests' = Append(requests, x)
    PROVE  SamePages
<1>1. /\ DOMAIN requests' = DOMAIN requests \cup {Len(requests) + 1}
      /\ Len(requests) + 1 \notin DOMAIN requests
      /\ \A i \in DOMAIN requests : requests'[i] = requests[i]
      /\ requests'[Len(requests) + 1] = x
  BY AppendFacts
<1> QED
  BY <1>1 DEF SamePages, OnePage, UnderWay, Among

(* They are when another request ends. *)
LEMMA RemovedAside ==
    ASSUME requests \in Seq(RequestStates), NEW r \in DOMAIN requests, requests[r].kind # "page",
           requests' = Others(r)
    PROVE  SamePages
<1>1. /\ \A q \in DOMAIN requests' :
            Before(r, q) \in DOMAIN requests \ {r} /\ requests'[q] = requests[Before(r, q)]
      /\ \A k \in DOMAIN requests \ {r} : \E q \in DOMAIN requests' : Before(r, q) = k
      /\ \A q, p \in DOMAIN requests' : Before(r, q) = Before(r, p) => q = p
  BY OthersStay
<1>2. OnePage => OnePage'
  BY <1>1 DEF OnePage
<1>3. UnderWay("page")' <=> UnderWay("page")
  <2>1. ASSUME UnderWay("page") PROVE UnderWay("page")'
    <3>1. PICK k \in DOMAIN requests : requests[k].kind = "page"
      BY <2>1 DEF UnderWay, Among
    <3>2. PICK q \in DOMAIN requests' : Before(r, q) = k
      BY <1>1, <3>1
    <3> QED
      BY <1>1, <3>1, <3>2 DEF UnderWay, Among
  <2>2. ASSUME UnderWay("page")' PROVE UnderWay("page")
    BY <1>1, <2>2 DEF UnderWay, Among
  <2> QED
    BY <2>1, <2>2
<1> QED
  BY <1>1, <1>2, <1>3 DEF SamePages

(* What the actions aside leave as it is. *)
LEMMA AsideFacts ==
    ASSUME TypeInv, Aside
    PROVE  /\ SamePages /\ session'.current = session.current
           /\ page'.of = page.of /\ page'.storages = page.storages
           /\ troubles \subseteq troubles'
           /\ proxy.servers = "closed" => proxy'.servers = "closed"
           /\ "late" \notin troubles' => session'.jar \subseteq session.jar \cup {session.current}
<1>1. /\ ProxyTypeOK /\ session \in Sessions /\ requests \in Seq(RequestStates) /\ page \in PageStates
      /\ proxy \in [servers : {"new", "started", "closed"}, open : BOOLEAN]
  BY DEF TypeInv, ProxyTypeOK
<1>2. requests' = requests => SamePages
  BY DEF SamePages, OnePage, UnderWay, Among
<1>3. CASE Start \/ OpenSession \/ CloseSession
  BY <1>1, <1>2, <1>3 DEF Start, OpenSession, CloseSession
<1>4. ASSUME NEW s \in Sessions, Call(s), UNCHANGED <<proxy, requests, page>>, troubles \subseteq troubles',
             s.current = session.current, s.jar \subseteq session.jar
      PROVE  /\ SamePages /\ session'.current = session.current
             /\ page'.of = page.of /\ page'.storages = page.storages
             /\ troubles \subseteq troubles'
             /\ proxy.servers = "closed" => proxy'.servers = "closed"
             /\ "late" \notin troubles' => session'.jar \subseteq session.jar \cup {session.current}
  BY <1>2, <1>4, CallFacts DEF SameSession
<1>5. ASSUME NEW s \in Snapshots, UseStateSnapshot(s)
      PROVE  \E t \in Sessions : /\ Call(t) /\ UNCHANGED <<proxy, requests, page>>
                                 /\ troubles \subseteq troubles' /\ t.current = session.current
                                 /\ t.jar \subseteq session.jar
  <2>1. PICK t : t = [session EXCEPT !.pending = s]
    OBVIOUS
  <2>2. t \in Sessions /\ t.current = session.current /\ t.jar = session.jar
    BY <1>1, <2>1 DEF Sessions, States
  <2> QED
    BY <1>5, <2>1, <2>2 DEF UseStateSnapshot
<1>6. ASSUME NEW c \in Cookies, SetCookie(c) \/ DeleteCookie(c)
      PROVE  \E t \in Sessions : /\ Call(t) /\ UNCHANGED <<proxy, requests, page>>
                                 /\ troubles \subseteq troubles' /\ t.current = session.current
                                 /\ t.jar \subseteq session.jar
  <2>1. PICK s : s = [session EXCEPT !.api = @ \cup {c},
                                     !.toTell = Append(@, [key |-> c, set |-> TRUE])]
    OBVIOUS
  <2>2. PICK t : t = [session EXCEPT !.api = @ \ {c},
                                     !.toTell = Append(@, [key |-> c, set |-> FALSE])]
    OBVIOUS
  <2>3. /\ Append(session.toTell, [key |-> c, set |-> TRUE]) \in Seq(Syncs)
        /\ Append(session.toTell, [key |-> c, set |-> FALSE]) \in Seq(Syncs)
    BY <1>1, AppendProperties DEF Sessions, Syncs
  <2>4. s \in Sessions /\ s.current = session.current /\ s.jar = session.jar
    BY <1>1, <2>1, <2>3 DEF Sessions
  <2>5. t \in Sessions /\ t.current = session.current /\ t.jar = session.jar
    BY <1>1, <2>2, <2>3 DEF Sessions
  <2>6. /\ Call(s) \/ Call(t)
        /\ UNCHANGED <<proxy, requests, page, troubles>>
    BY <1>6, <2>1, <2>2 DEF SetCookie, DeleteCookie
  <2> QED
    BY <2>4, <2>5, <2>6
<1>7. ASSUME DeleteAllCookies
      PROVE  \E t \in Sessions : /\ Call(t) /\ UNCHANGED <<proxy, requests, page>>
                                 /\ troubles \subseteq troubles' /\ t.current = session.current
                                 /\ t.jar \subseteq session.jar
  <2>1. PICK t : t = [session EXCEPT !.jar = {}, !.api = {},
                                     !.toTell = @ \o AllAreTold(session.api)]
    OBVIOUS
  <2>2. session.toTell \o AllAreTold(session.api) \in Seq(Syncs)
    BY <1>1, AllAreToldType, ConcatProperties DEF Sessions, TypeInv
  <2>3. t \in Sessions /\ t.current = session.current /\ t.jar = {}
    BY <1>1, <2>1, <2>2 DEF Sessions
  <2>4. Call(t)
    BY <1>7, <2>1 DEF DeleteAllCookies, AllAreTold
  <2> QED
    BY <1>7, <2>3, <2>4 DEF DeleteAllCookies
<1>8. ASSUME NEW s \in Sessions, NEW kind \in {"asset", "task", "message", "socket"},
             Ask(kind, s), troubles \subseteq troubles', SameButJar(session, s, page.of),
             "late" \in troubles' \/ s.jar = session.jar \/ page.of = session.current
      PROVE  /\ SamePages /\ session'.current = session.current
             /\ page'.of = page.of /\ page'.storages = page.storages
             /\ troubles \subseteq troubles'
             /\ proxy.servers = "closed" => proxy'.servers = "closed"
             /\ "late" \notin troubles' => session'.jar \subseteq session.jar \cup {session.current}
  <2>1. /\ SameSession(s, session') /\ Asked(kind, s, NoState) \in RequestStates
        /\ requests' = Append(requests, Asked(kind, s, NoState))
        /\ proxy' = proxy /\ page' = page
    BY <1>1, <1>8, AskFacts DEF Ask
  <2>2. Asked(kind, s, NoState).kind # "page"
    BY <1>8 DEF Asked
  <2>3. SamePages
    BY <1>1, <2>1, <2>2, AppendedAside
  <2> QED
    BY <1>8, <2>1, <2>3 DEF SameSession, SameButJar
<1>9. CASE AskForAsset
  <2>1. PICK s \in Dispatched :
           Ask("asset", s) /\ troubles' = troubles \cup Trouble("late", OldPageAsks)
    BY <1>9 DEF AskForAsset
  <2>2. s \in Sessions /\ SameButJar(session, s, page.of)
    BY <1>1, DispatchedFacts
  <2>3. "late" \in troubles' \/ page.of = session.current
    BY <2>1 DEF Trouble, OldPageAsks
  <2> QED
    BY <1>8, <2>1, <2>2, <2>3
<1>10. CASE AskForTaskScript \/ \E kind \in {"message", "socket"} : SendMessage(kind)
  <2>1. SameButJar(session, session, page.of)
    BY DEF SameButJar
  <2> QED
    BY <1>1, <1>8, <1>10, <2>1 DEF AskForTaskScript, SendMessage
<1>11. ASSUME NEW r \in DOMAIN requests,
              AssetArrives(r) \/ MessageTakesNoCookies(r) \/ MessageIsAnswered(r)
              \/ AnswerIsLost(r) \/ TaskScriptArrives(r)
       PROVE  SamePages
  <2>1. requests[r].kind # "page" /\ requests' = Others(r)
    BY <1>11 DEF AssetArrives, MessageTakesNoCookies, MessageIsAnswered, AnswerIsLost,
                 TaskScriptArrives, Answers, Ended
  <2> QED
    BY <1>1, <2>1, RemovedAside
<1>12. ASSUME NEW r \in DOMAIN requests, AssetArrives(r)
       PROVE  /\ session'.current = session.current /\ UNCHANGED <<proxy, page>>
              /\ troubles \subseteq troubles'
              /\ "late" \notin troubles' => session'.jar \subseteq session.jar \cup {session.current}
  <2>1. SameButJar(session, session', requests[r].of)
    BY <1>1, <1>12, SetByServerFacts DEF AssetArrives
  <2>2. "late" \notin troubles' => requests[r].of = session.current
    BY <1>12 DEF AssetArrives, Late, Trouble
  <2> QED
    BY <1>12, <2>1, <2>2 DEF AssetArrives, SameButJar
<1>13. ASSUME NEW r \in DOMAIN requests, MessageIsHandled(r)
       PROVE  /\ SamePages /\ session'.current = session.current /\ session'.jar = session.jar
              /\ UNCHANGED <<proxy, page, troubles>>
  <2>1. requests' = [requests EXCEPT ![r].step = "answered", ![r].told = session.toTell]
    BY <1>13 DEF MessageIsHandled
  <2>2. \A q \in DOMAIN requests : requests[q] \in RequestStates
    BY <1>1, RequestType
  <2>3. /\ DOMAIN requests' = DOMAIN requests
        /\ \A q \in DOMAIN requests : /\ requests'[q].kind = requests[q].kind
                                      /\ requests'[q].of = requests[q].of
                                      /\ requests'[q].restoring = requests[q].restoring
    BY <2>1, <2>2 DEF RequestStates
  <2>4. SamePages
    BY <2>3 DEF SamePages, OnePage, UnderWay, Among
  <2>5. session' = [session EXCEPT !.toTell = <<>>]
    BY <1>13 DEF MessageIsHandled
  <2> QED
    BY <1>1, <1>13, <2>4, <2>5 DEF MessageIsHandled, Sessions
<1>14. ASSUME NEW r \in DOMAIN requests, MessageIsAnswered(r)
       PROVE  /\ page'.of = page.of /\ page'.storages = page.storages
              /\ UNCHANGED <<proxy, session>> /\ troubles \subseteq troubles'
  BY <1>1, <1>14 DEF MessageIsAnswered, PageStates
<1>15. ASSUME NEW r \in DOMAIN requests, TaskScriptArrives(r)
       PROVE  /\ page'.of = page.of /\ page'.storages = page.storages
              /\ UNCHANGED <<proxy, session, troubles>>
  BY <1>1, <1>15 DEF TaskScriptArrives, PageStates
<1>16. ASSUME NEW r \in DOMAIN requests, MessageTakesNoCookies(r) \/ AnswerIsLost(r)
       PROVE  UNCHANGED <<proxy, session, page>> /\ troubles \subseteq troubles'
  BY <1>16 DEF MessageTakesNoCookies, AnswerIsLost
<1> QED
  BY <1>3, <1>4, <1>5, <1>6, <1>7, <1>9, <1>10, <1>11, <1>12, <1>13, <1>14, <1>15, <1>16 DEF Aside

-----------------------------------------------------------------------------
(* The state of the session *)

(* What a page request brings is of the state applied last: the page, and its storages, or   *)
(* the page in the browser has them already.                                                 *)
Brings(q) ==
    q.kind = "page" =>
        /\ q.of = session.current
        /\ q.of.storages => IF q.restoring = NoState THEN page.storages = q.of
                            ELSE q.restoring = q.of

InTurn ==
    troubles \cap {"unrestored", "failed"} = {} =>
        /\ OnePage
        /\ \A q \in DOMAIN requests : Brings(requests[q])
        /\ ~UnderWay("page") /\ proxy.servers # "closed" => page.of = session.current
        /\ page.of.storages => page.storages = page.of

(* The actions aside touch no page. *)
LEMMA InTurnAside ==
    ASSUME TypeInv, Aside, InTurn
    PROVE  InTurn'
<1>1. /\ SamePages /\ session'.current = session.current
      /\ page'.of = page.of /\ page'.storages = page.storages
      /\ troubles \subseteq troubles'
      /\ proxy.servers = "closed" => proxy'.servers = "closed"
  BY AsideFacts
<1> SUFFICES ASSUME troubles' \cap {"unrestored", "failed"} = {}
             PROVE  /\ OnePage'
                    /\ \A q \in DOMAIN requests' : Brings(requests[q])'
                    /\ ~UnderWay("page")' /\ proxy'.servers # "closed" => page'.of = session'.current
                    /\ page'.of.storages => page'.storages = page'.of
  BY DEF InTurn
<1>2. /\ OnePage
      /\ \A q \in DOMAIN requests : Brings(requests[q])
      /\ ~UnderWay("page") /\ proxy.servers # "closed" => page.of = session.current
      /\ page.of.storages => page.storages = page.of
  BY <1>1 DEF InTurn
<1>3. ASSUME NEW q \in DOMAIN requests' PROVE Brings(requests[q])'
  <2>1. CASE requests'[q].kind # "page"
    BY <2>1 DEF Brings
  <2>2. CASE requests'[q].kind = "page"
    <3>1. PICK k \in DOMAIN requests : /\ requests[k].kind = "page" /\ requests'[q].of = requests[k].of
                                       /\ requests'[q].restoring = requests[k].restoring
      BY <1>1, <2>2 DEF SamePages
    <3>2. Brings(requests[k])
      BY <1>2
    <3> QED
      BY <1>1, <3>1, <3>2 DEF Brings
  <2> QED
    BY <2>1, <2>2
<1> QED
  BY <1>1, <1>2, <1>3 DEF SamePages

(* A page request brings the pending state, or the one applied last. *)
LEMMA InTurnNavigated ==
    ASSUME TypeInv, NEW earlier \in Seq(RequestStates), NEW s \in Dispatched, Navigate(earlier, s),
           troubles \cup Unfinished(earlier, s) \subseteq troubles',
           troubles' \cap {"unrestored", "failed"} = {} =>
              /\ page.of.storages => page.storages = page.of
              /\ s.pending = NoState /\ session.current.storages => page.storages = session.current
    PROVE  InTurn'
<1>1. ProxyTypeOK /\ session \in Sessions
  BY DEF TypeInv, ProxyTypeOK
<1>3. s \in Sessions /\ SameButJar(session, s, page.of)
  BY <1>1, DispatchedFacts
<1>4. PICK t : t = OnPageRequest(s)
  OBVIOUS
<1>5. PICK z : z = IF s.pending.storages THEN s.pending ELSE NoState
  OBVIOUS
<1>6. /\ t \in Sessions
      /\ s.pending = NoState => t = s
      /\ s.pending # NoState => t.current = s.pending
  BY <1>3, <1>4, OnPageRequestFacts
<1>7. z \in States \cup {NoState}
  BY <1>3, <1>5 DEF Sessions
<1>8. PICK x : x = Asked("page", t, z)
  OBVIOUS
<1>9. /\ session'.current = t.current /\ x \in RequestStates /\ requests' = Append(earlier, x)
      /\ page' = page
  <2>1. AskAfter(earlier, "page", t, z)
    BY <1>4, <1>5 DEF Navigate
  <2> QED
    BY <1>1, <1>6, <1>7, <1>8, <2>1, AskFacts DEF SameSession
<1>10. x.kind = "page" /\ x.of = t.current /\ x.restoring = z
  BY <1>8 DEF Asked
<1> SUFFICES ASSUME troubles' \cap {"unrestored", "failed"} = {}
             PROVE  /\ OnePage'
                    /\ \A q \in DOMAIN requests' : Brings(requests[q])'
                    /\ UnderWay("page")'
                    /\ page'.of.storages => page'.storages = page'.of
  BY DEF InTurn
<1>11. ~Among("page", earlier)
  BY DEF Unfinished, Trouble
<1>13. /\ DOMAIN requests' = DOMAIN earlier \cup {Len(earlier) + 1}
       /\ Len(earlier) + 1 \notin DOMAIN earlier
       /\ \A i \in DOMAIN earlier : requests'[i] = earlier[i]
       /\ requests'[Len(earlier) + 1] = x
  BY <1>9, AppendFacts
<1>14. \A i \in DOMAIN earlier : requests'[i].kind # "page"
  BY <1>11, <1>13 DEF Among
<1>15. OnePage' /\ UnderWay("page")'
  BY <1>10, <1>13, <1>14 DEF OnePage, UnderWay, Among
<1>16. ASSUME x.of.storages
       PROVE  IF x.restoring = NoState THEN page.storages = x.of ELSE x.restoring = x.of
  <2>1. CASE s.pending = NoState
    <3>1. x.of = session.current /\ x.restoring = NoState
      <4>1. ~NoState.storages
        BY DEF NoState
      <4> QED
        BY <1>3, <1>5, <1>6, <1>10, <2>1, <4>1 DEF SameButJar
    <3> QED
      BY <1>16, <2>1, <3>1
  <2>2. CASE s.pending # NoState
    <3>1. x.of = s.pending /\ x.restoring = s.pending
      BY <1>5, <1>6, <1>10, <1>16, <2>2
    <3> QED
      BY <2>2, <3>1
  <2> QED
    BY <2>1, <2>2
<1>17. ASSUME NEW q \in DOMAIN requests' PROVE Brings(requests[q])'
  <2>1. CASE q \in DOMAIN earlier
    BY <1>14, <2>1 DEF Brings
  <2>2. CASE q = Len(earlier) + 1
    <3>1. requests'[q] = x /\ page' = page /\ x.of = session'.current
      BY <1>9, <1>10, <1>13, <2>2
    <3> QED
      BY <1>16, <3>1 DEF Brings
  <2> QED
    BY <1>13, <2>1, <2>2
<1> QED
  BY <1>9, <1>15, <1>17

(* What the page asks for comes after a page in turn. *)
LEMMA InTurnAsked ==
    ASSUME TypeInv, AskForPage, InTurn
    PROVE  InTurn'
<1>1. requests \in Seq(RequestStates)
  BY DEF TypeInv, ProxyTypeOK
<1>2. PICK s \in Dispatched :
         /\ Navigate(requests, s)
         /\ troubles' = troubles \cup Unfinished(requests, s) \cup Trouble("late", BringsOldCookies(s))
  BY DEF AskForPage
<1>3. ASSUME troubles' \cap {"unrestored", "failed"} = {}
      PROVE  page.of = session.current /\ (page.of.storages => page.storages = page.of)
  <2>1. troubles \cap {"unrestored", "failed"} = {} /\ ~UnderWay("page") /\ proxy.servers = "started"
    BY <1>2, <1>3 DEF Unfinished, Trouble, UnderWay, Navigate, AskAfter
  <2> QED
    BY <2>1 DEF InTurn
<1> QED
  BY <1>1, <1>2, <1>3, InTurnNavigated

(* A page that arrives is the one that was asked for; what follows a redirect restores       *)
(* nothing, and needs nothing restored.                                                      *)
LEMMA InTurnAnswered ==
    ASSUME TypeInv, AnswerToPage, InTurn
    PROVE  InTurn'
<1>1. ProxyTypeOK /\ session \in Sessions /\ requests \in Seq(RequestStates) /\ page \in PageStates
  BY DEF TypeInv, ProxyTypeOK
<1>2. PICK r \in DOMAIN requests : PageArrives(r) \/ PageIsRedirected(r) \/ RedirectIsFollowed(r) \/ PageFails(r)
  BY DEF AnswerToPage
<1>3. requests[r].kind = "page"
  BY <1>2 DEF PageArrives, PageIsRedirected, RedirectIsFollowed, PageFails, Answers
<1>4. \A q \in DOMAIN requests : requests[q] \in RequestStates
  BY <1>1, RequestType
<1>5. ASSUME NEW s \in SetByServer(r) PROVE s \in Sessions /\ s.current = session.current
  BY <1>1, <1>5, SetByServerFacts DEF SameButJar
<1>12. CASE RedirectIsFollowed(r)
  <2>1. PICK s \in Dispatched :
           /\ Navigate(Others(r), s)
           /\ troubles' = troubles \cup Unfinished(Others(r), s)
                  \cup Trouble("carried", BringsOldCookies(s))
                  \cup Trouble("unrestored", requests[r].restoring # NoState /\ s.pending = NoState)
    BY <1>12 DEF RedirectIsFollowed
  <2>2. ASSUME troubles' \cap {"unrestored", "failed"} = {}
        PROVE  /\ page.of.storages => page.storages = page.of
               /\ s.pending = NoState /\ session.current.storages => page.storages = session.current
    <3>1. troubles \cap {"unrestored", "failed"} = {} /\ (s.pending = NoState => requests[r].restoring = NoState)
      BY <2>1, <2>2 DEF Trouble
    <3>2. Brings(requests[r]) /\ (page.of.storages => page.storages = page.of)
      BY <3>1 DEF InTurn
    <3> QED
      BY <1>3, <3>1, <3>2 DEF Brings
  <2>3. Others(r) \in Seq(RequestStates)
    BY <1>1, OthersStay
  <2> QED
    BY <2>1, <2>2, <2>3, InTurnNavigated
<1> SUFFICES ASSUME ~RedirectIsFollowed(r), troubles' \cap {"unrestored", "failed"} = {}
             PROVE  /\ OnePage'
                    /\ \A q \in DOMAIN requests' : Brings(requests[q])'
                    /\ ~UnderWay("page")' /\ proxy'.servers # "closed" => page'.of = session'.current
                    /\ page'.of.storages => page'.storages = page'.of
  BY <1>12 DEF InTurn
<1>6. troubles \cap {"unrestored", "failed"} = {}
  BY <1>2 DEF PageArrives, PageIsRedirected, RedirectIsFollowed, PageFails
<1>7. /\ OnePage
      /\ Brings(requests[r])
      /\ page.of.storages => page.storages = page.of
  BY <1>6 DEF InTurn
<1>8. \A q \in DOMAIN requests \ {r} : requests[q].kind # "page"
  BY <1>3, <1>7 DEF OnePage
<1>9. CASE PageArrives(r)
  <2>1. session'.current = session.current
    BY <1>5, <1>9 DEF PageArrives
  <2>2. /\ page'.of = requests[r].of
        /\ page'.storages = IF requests[r].restoring = NoState THEN page.storages
                            ELSE requests[r].restoring
    BY <1>1, <1>9 DEF PageArrives, PageStates
  <2>3. \A q \in DOMAIN requests' : requests'[q].kind # "page"
    <3>1. /\ DOMAIN requests' = DOMAIN Others(r)
          /\ \A q \in DOMAIN Others(r) : requests'[q] = [Others(r)[q] EXCEPT !.live = FALSE]
      BY <1>9 DEF PageArrives
    <3>2. \A q \in DOMAIN Others(r) :
             Before(r, q) \in DOMAIN requests \ {r} /\ Others(r)[q] = requests[Before(r, q)]
      BY <1>1, OthersStay
    <3>3. ASSUME NEW q \in DOMAIN Others(r) PROVE requests'[q].kind = requests[Before(r, q)].kind
      <4>1. Others(r)[q] \in RequestStates
        BY <1>4, <3>2
      <4> QED
        BY <3>1, <3>2, <4>1 DEF RequestStates
    <3> QED
      BY <1>8, <3>1, <3>2, <3>3
  <2>4. requests[r].of = session.current
    BY <1>3, <1>7 DEF Brings
  <2>5. page'.of.storages => page'.storages = page'.of
    BY <1>3, <1>7, <2>2 DEF Brings
  <2> QED
    BY <2>1, <2>2, <2>3, <2>4, <2>5 DEF OnePage, Brings
<1>10. CASE PageIsRedirected(r)
  <2>1. session'.current = session.current /\ UNCHANGED <<proxy, page>>
    BY <1>5, <1>10 DEF PageIsRedirected
  <2>2. requests' = [requests EXCEPT ![r].step = "redirected"]
    BY <1>10 DEF PageIsRedirected
  <2>3. /\ DOMAIN requests' = DOMAIN requests
        /\ \A q \in DOMAIN requests : /\ requests'[q].kind = requests[q].kind
                                      /\ requests'[q].of = requests[q].of
                                      /\ requests'[q].restoring = requests[q].restoring
    BY <1>4, <2>2 DEF RequestStates
  <2>4. \A q \in DOMAIN requests' : Brings(requests[q])'
    BY <1>6, <2>1, <2>3 DEF InTurn, Brings
  <2> QED
    BY <1>6, <2>1, <2>3, <2>4 DEF InTurn, OnePage, UnderWay, Among
<1>11. CASE PageFails(r)
  BY <1>11 DEF PageFails
<1> QED
  BY <1>2, <1>9, <1>10, <1>11

(* Every step keeps the pages in turn. *)
LEMMA InTurnStep ==
    ASSUME TypeInv, [ProxyNext]_proxyVars, InTurn
    PROVE  InTurn'
<1>1. CASE Close
  <2>1. /\ requests' = <<>> /\ proxy'.servers = "closed" /\ UNCHANGED <<session, page>>
        /\ troubles \subseteq troubles'
    BY <1>1 DEF Close, TypeInv, ProxyTypeOK
  <2> QED
    BY <2>1 DEF InTurn, OnePage, UnderWay, Among
<1>2. CASE UNCHANGED proxyVars
  BY <1>2 DEF proxyVars, InTurn, OnePage, UnderWay, Among, Brings
<1> QED
  BY <1>1, <1>2, Steps, InTurnAside, InTurnAsked, InTurnAnswered

(* A page request keeps the jar to one state unless it brings cookies of another. *)
LEMMA JarNavigated ==
    ASSUME TypeInv, StatesDoNotMix, NEW earlier \in Seq(RequestStates), NEW s \in Dispatched,
           Navigate(earlier, s), troubles \subseteq troubles',
           BringsOldCookies(s) => troubles' \cap {"late", "carried"} # {}
    PROVE  StatesDoNotMix'
<1>1. ProxyTypeOK
  BY DEF TypeInv
<1>2. s \in Sessions /\ SameButJar(session, s, page.of)
  BY <1>1, DispatchedFacts
<1>3. PICK t : t = OnPageRequest(s)
  OBVIOUS
<1>4. /\ t \in Sessions
      /\ s.pending = NoState => t = s
      /\ s.pending # NoState => t.current = s.pending /\ t.jar = {s.pending}
  BY <1>2, <1>3, OnPageRequestFacts
<1>5. (IF s.pending.storages THEN s.pending ELSE NoState) \in States \cup {NoState}
  BY <1>2 DEF Sessions
<1>6. session'.current = t.current /\ session'.jar = t.jar
  BY <1>1, <1>3, <1>4, <1>5, AskFacts DEF SameSession, Navigate
<1>7. CASE s.pending = NoState
  <2>1. \/ troubles' \cap {"late", "carried"} # {}
        \/ s.jar = session.jar
        \/ page.of = session.current
    BY <1>7 DEF BringsOldCookies, OldPageAsks
  <2> QED
    BY <1>2, <1>4, <1>6, <1>7, <2>1 DEF SameButJar, StatesDoNotMix
<1>8. CASE s.pending # NoState
  BY <1>4, <1>6, <1>8 DEF StatesDoNotMix
<1> QED
  BY <1>7, <1>8

(* Every step keeps the jar to one state. *)
LEMMA StatesDoNotMixStep ==
    ASSUME TypeInv, [ProxyNext]_proxyVars, StatesDoNotMix
    PROVE  StatesDoNotMix'
<1>1. ProxyTypeOK /\ session \in Sessions
  BY DEF TypeInv, ProxyTypeOK
<1>2. ASSUME session'.current = session.current, troubles \subseteq troubles',
             \/ troubles' \cap {"late", "carried"} # {}
             \/ session'.jar \subseteq session.jar \cup {session.current}
      PROVE  StatesDoNotMix'
  BY <1>2 DEF StatesDoNotMix
<1>3. CASE Aside
  BY <1>2, <1>3, AsideFacts
<1>4. CASE AskForPage
  <2>1. PICK s \in Dispatched :
           /\ Navigate(requests, s)
           /\ troubles' = troubles \cup Unfinished(requests, s) \cup Trouble("late", BringsOldCookies(s))
    BY <1>4 DEF AskForPage
  <2>2. BringsOldCookies(s) => troubles' \cap {"late", "carried"} # {}
    BY <2>1 DEF Trouble
  <2> QED
    BY <1>1, <2>1, <2>2, JarNavigated DEF ProxyTypeOK
<1>5. CASE AnswerToPage
  <2>1. PICK r \in DOMAIN requests : PageArrives(r) \/ PageIsRedirected(r) \/ RedirectIsFollowed(r) \/ PageFails(r)
    BY <1>5 DEF AnswerToPage
  <2>2. CASE PageFails(r)
    BY <1>2, <2>2 DEF PageFails
  <2>3. CASE PageArrives(r) \/ PageIsRedirected(r)
    <3>1. SameButJar(session, session', requests[r].of)
      BY <1>1, <2>3, SetByServerFacts DEF PageArrives, PageIsRedirected
    <3>2. troubles \subseteq troubles' /\ ("late" \in troubles' \/ requests[r].of = session.current)
      BY <2>3 DEF PageArrives, PageIsRedirected, Late, Trouble
    <3> QED
      BY <1>2, <3>1, <3>2 DEF SameButJar
  <2>4. CASE RedirectIsFollowed(r)
    <3>1. PICK s \in Dispatched :
             /\ Navigate(Others(r), s)
             /\ troubles' = troubles \cup Unfinished(Others(r), s)
                    \cup Trouble("carried", BringsOldCookies(s))
                    \cup Trouble("unrestored", requests[r].restoring # NoState /\ s.pending = NoState)
      BY <2>4 DEF RedirectIsFollowed
    <3>2. BringsOldCookies(s) => troubles' \cap {"late", "carried"} # {}
      BY <3>1 DEF Trouble
    <3>3. Others(r) \in Seq(RequestStates)
      BY <1>1, RequestsType
    <3> QED
      BY <3>1, <3>2, <3>3, JarNavigated
  <2> QED
    BY <2>1, <2>2, <2>3, <2>4
<1>6. CASE Close \/ UNCHANGED proxyVars
  BY <1>2, <1>6 DEF Close, proxyVars
<1> QED
  BY <1>3, <1>4, <1>5, <1>6, Steps

(* Session.onPageRequest switches the state of a session cleanly: unless a request of the    *)
(* page before gets in between, the jar never holds cookies of two states, and the page of   *)
(* a state with storages has the storages of that state.                                     *)
THEOREM StateSwitchedCleanly == ProxySpec => []StateIsSwitchedCleanly
<1> DEFINE IInv == TypeInv /\ InTurn /\ StatesDoNotMix
<1>1. ProxyInit => IInv
  <2> SUFFICES ASSUME ProxyInit PROVE InTurn /\ StatesDoNotMix
    BY TypeInit
  <2>1. /\ requests = <<>> /\ session.jar = {} /\ session.current = Initial
        /\ page.of = Initial /\ page.storages = Initial
    BY DEF ProxyInit, InitialSession, InitialPage
  <2> QED
    BY <2>1 DEF InTurn, StatesDoNotMix, OnePage
<1>2. IInv /\ [ProxyNext]_proxyVars => IInv'
  BY TypeStep, InTurnStep, StatesDoNotMixStep
<1>3. IInv => StateIsSwitchedCleanly
  BY DEF InTurn, StateIsSwitchedCleanly, StatesDoNotMix, StoragesAreRestored
<1> QED
  BY <1>1, <1>2, <1>3, PTL DEF ProxySpec

-----------------------------------------------------------------------------
(* The cookies of the runner *)

Excused == troubles \cap {"lost", "failed", "overtaken", "cleared", "kept"} # {}

(* t is all that answers under way tell of cookies, and at most one of them does. *)
OnlyToldBy(reqs, t) ==
    \/ \E r \in DOMAIN reqs : reqs[r].told = t /\ \A q \in DOMAIN reqs \ {r} : reqs[q].told = <<>>
    \/ t = <<>> /\ \A q \in DOMAIN reqs : reqs[q].told = <<>>
OnlyTold(t) == OnlyToldBy(requests, t)

Rest(t)     == t \o session.toTell
LiveTask(q) == q.kind = "task" /\ q.live

(* Who reads the rest, and what the browser has before it, knows the cookies of the session. *)
Agreed(t) ==
    /\ Known(session.api, page.unread \o Rest(t)) = session.api
    /\ ~UnderWay("page") /\ page.started => Known(page.api, Rest(t)) = session.api
    /\ ~UnderWay("page") /\ ~page.started =>
          \A r \in DOMAIN requests : LiveTask(requests[r]) =>
             Known(requests[r].api, page.unread \o Rest(t)) = session.api

ReadWhenStarted == page.started => page.unread = <<>>
AnswersTell(reqs) == \A r \in DOMAIN reqs :
                        reqs[r].kind # "message" \/ reqs[r].step = "asked" => reqs[r].told = <<>>
ToldByAnswers   == AnswersTell(requests)
AllAgreed       == Excused \/ \A t \in Seq(Syncs) : OnlyTold(t) => Agreed(t)
Telling         == ReadWhenStarted /\ ToldByAnswers /\ AllAgreed

(* How sequences of sync cookies are grouped says nothing. *)
LEMMA Regroup ==
    ASSUME NEW s \in Seq(Syncs), NEW t \in Seq(Syncs), NEW u \in Seq(Syncs)
    PROVE  (s \o t) \o u = s \o (t \o u)
BY ConcatAssociative

(* Who has read what there was, and reads of further changes, knows of all. *)
LEMMA KnownAgain ==
    ASSUME NEW api, NEW s \in Seq(Syncs), NEW u \in Seq(Syncs), Known(api, s) = api
    PROVE  Known(Known(api, u), s \o u) = Known(api, u)
<1>1. PICK a : a = Known(api, u)
  OBVIOUS
<1>2. Known(a, s \o u) = Known(Known(a, s), u)
  BY KnownInTurn
<1>3. SetAtLast(u) \subseteq Mentioned(u)
  BY SetIsMentioned
<1>4. Known(Known(a, s), u) = Known(Known(api, s), u)
  BY <1>1, <1>3 DEF Known
<1> QED
  BY <1>1, <1>2, <1>4

(* What there is to read is of sync cookies. *)
LEMMA RestType ==
    ASSUME ProxyTypeOK, NEW t \in Seq(Syncs)
    PROVE  /\ session.toTell \in Seq(Syncs) /\ page.unread \in Seq(Syncs)
           /\ Rest(t) \in Seq(Syncs) /\ page.unread \o Rest(t) \in Seq(Syncs)
<1>1. session.toTell \in Seq(Syncs) /\ page.unread \in Seq(Syncs)
  BY DEF ProxyTypeOK, Sessions, PageStates
<1>2. Rest(t) \in Seq(Syncs)
  BY <1>1, ConcatProperties DEF Rest
<1> QED
  BY <1>1, <1>2, ConcatProperties

(* The calls of the runner tell of what they change. *)
LEMMA TellingOfCall ==
    ASSUME ProxyTypeOK, Telling, UNCHANGED <<requests, page>>, troubles \subseteq troubles',
           NEW u \in Seq(Syncs), session'.toTell = session.toTell \o u,
           session'.api = Known(session.api, u)
    PROVE  Telling'
<1>1. ReadWhenStarted' /\ ToldByAnswers'
  BY DEF Telling, ReadWhenStarted, ToldByAnswers, AnswersTell
<1> SUFFICES ASSUME ~Excused', NEW t \in Seq(Syncs), OnlyTold(t)' PROVE Agreed(t)'
  BY <1>1 DEF Telling, AllAgreed
<1>2. Agreed(t)
  <2>1. ~Excused /\ OnlyTold(t)
    BY DEF Excused, OnlyTold, OnlyToldBy
  <2> QED
    BY <2>1 DEF Telling, AllAgreed
<1>3. /\ session.toTell \in Seq(Syncs) /\ page.unread \in Seq(Syncs)
      /\ Rest(t) \in Seq(Syncs) /\ page.unread \o Rest(t) \in Seq(Syncs)
  BY RestType
<1>4. Rest(t)' = Rest(t) \o u
  <2>1. PICK w \in Seq(Syncs) : w = session.toTell
    BY <1>3
  <2>2. (t \o w) \o u = t \o (w \o u)
    BY Regroup
  <2> QED
    BY <2>1, <2>2 DEF Rest
<1>5. (page.unread \o Rest(t))' = (page.unread \o Rest(t)) \o u
  <2>1. PICK w \in Seq(Syncs), v \in Seq(Syncs) : w = page.unread /\ v = Rest(t)
    BY <1>3
  <2>2. (w \o v) \o u = w \o (v \o u)
    BY Regroup
  <2> QED
    BY <1>4, <2>1, <2>2
<1>6. Known(session.api, page.unread \o Rest(t)) = session.api
  BY <1>2 DEF Agreed
<1>7. Known(session'.api, (page.unread \o Rest(t))') = session'.api
  <2>1. Known(Known(session.api, u), (page.unread \o Rest(t)) \o u) = Known(session.api, u)
    BY <1>3, <1>6, KnownAgain
  <2> QED
    BY <1>5, <2>1
<1>8. ASSUME NEW api, NEW s \in Seq(Syncs), Known(api, s) = session.api
      PROVE  Known(api, s \o u) = session'.api
  BY <1>8, KnownInTurn
<1>9. ~UnderWay("page")' /\ page'.started => Known(page'.api, Rest(t)') = session'.api
  <2> SUFFICES ASSUME ~UnderWay("page")', page'.started PROVE Known(page'.api, Rest(t)') = session'.api
    OBVIOUS
  <2>1. Known(page.api, Rest(t)) = session.api
    BY <1>2 DEF Agreed, UnderWay, Among
  <2> QED
    BY <1>3, <1>4, <1>8, <2>1
<1>10. ASSUME ~UnderWay("page")', ~page'.started, NEW r \in DOMAIN requests', LiveTask(requests'[r])
       PROVE  Known(requests'[r].api, (page.unread \o Rest(t))') = session'.api
  <2>1. Known(requests[r].api, page.unread \o Rest(t)) = session.api
    BY <1>2, <1>10 DEF Agreed, UnderWay, Among
  <2> QED
    BY <1>3, <1>5, <1>8, <2>1
<1> QED
  BY <1>7, <1>9, <1>10 DEF Agreed

(* Requests that come and go without cookies, and task scripts that read all of them. *)
LEMMA TellingAside ==
    ASSUME ProxyTypeOK, Telling, UNCHANGED page, troubles \subseteq troubles',
           session'.toTell = session.toTell, session'.api = session.api,
           ToldByAnswers', UnderWay("page")' <=> UnderWay("page"),
           \A t \in Seq(Syncs) : OnlyTold(t)' => OnlyTold(t),
           \A q \in DOMAIN requests' : LiveTask(requests'[q]) =>
              \/ \E k \in DOMAIN requests : LiveTask(requests[k]) /\ requests'[q].api = requests[k].api
              \/ requests'[q].api = session.api
    PROVE  Telling'
<1>1. ReadWhenStarted'
  BY DEF Telling, ReadWhenStarted
<1> SUFFICES ASSUME ~Excused', NEW t \in Seq(Syncs), OnlyTold(t)' PROVE Agreed(t)'
  BY <1>1 DEF Telling, AllAgreed
<1>2. Agreed(t)
  <2>1. ~Excused /\ OnlyTold(t)
    BY DEF Excused
  <2> QED
    BY <2>1 DEF Telling, AllAgreed
<1>3. Rest(t)' = Rest(t)
  BY DEF Rest
<1>4. ASSUME ~UnderWay("page")', ~page'.started, NEW q \in DOMAIN requests', LiveTask(requests'[q])
      PROVE  Known(requests'[q].api, (page.unread \o Rest(t))') = session'.api
  <2>1. CASE requests'[q].api = session.api
    BY <1>2, <1>3, <2>1 DEF Agreed
  <2>2. CASE \E k \in DOMAIN requests : LiveTask(requests[k]) /\ requests'[q].api = requests[k].api
    BY <1>2, <1>3, <1>4, <2>2 DEF Agreed
  <2> QED
    BY <1>4, <2>1, <2>2
<1>5. Known(session'.api, (page.unread \o Rest(t))') = session'.api
  BY <1>2, <1>3 DEF Agreed
<1>6. ~UnderWay("page")' /\ page'.started => Known(page'.api, Rest(t)') = session'.api
  BY <1>2, <1>3 DEF Agreed
<1> QED
  BY <1>4, <1>5, <1>6 DEF Agreed

(* A request that tells nothing changes nothing of what is told, when it comes. *)
LEMMA ToldAppended ==
    ASSUME NEW earlier \in Seq(RequestStates), NEW x \in RequestStates, x.told = <<>>,
           NEW after, after = Append(earlier, x)
    PROVE  /\ AnswersTell(earlier) => AnswersTell(after)
           /\ \A t \in Seq(Syncs) : OnlyToldBy(after, t) => OnlyToldBy(earlier, t)
<1>1. /\ DOMAIN after = DOMAIN earlier \cup {Len(earlier) + 1}
      /\ Len(earlier) + 1 \notin DOMAIN earlier
      /\ \A i \in DOMAIN earlier : after[i] = earlier[i]
      /\ after[Len(earlier) + 1] = x
  BY AppendFacts
<1>2. AnswersTell(earlier) => AnswersTell(after)
  BY <1>1 DEF AnswersTell
<1>3. ASSUME NEW t \in Seq(Syncs), OnlyToldBy(after, t) PROVE OnlyToldBy(earlier, t)
  <2>1. CASE t = <<>> /\ \A q \in DOMAIN after : after[q].told = <<>>
    BY <1>1, <2>1 DEF OnlyToldBy
  <2>2. CASE \E r \in DOMAIN after : after[r].told = t /\ \A q \in DOMAIN after \ {r} : after[q].told = <<>>
    <3>1. PICK r \in DOMAIN after : after[r].told = t /\ \A q \in DOMAIN after \ {r} : after[q].told = <<>>
      BY <2>2
    <3>2. CASE r \in DOMAIN earlier
      <4>1. earlier[r].told = t /\ \A q \in DOMAIN earlier \ {r} : earlier[q].told = <<>>
        BY <1>1, <3>1, <3>2
      <4> QED
        BY <3>2, <4>1 DEF OnlyToldBy
    <3>3. CASE r = Len(earlier) + 1
      <4>1. t = <<>> /\ \A q \in DOMAIN earlier : earlier[q].told = <<>>
        BY <1>1, <3>1, <3>3
      <4> QED
        BY <4>1 DEF OnlyToldBy
    <3> QED
      BY <1>1, <3>1, <3>2, <3>3
  <2> QED
    BY <1>3, <2>1, <2>2 DEF OnlyToldBy
<1> QED
  BY <1>2, <1>3

(* Nor when it ends. *)
LEMMA ToldRemoved ==
    ASSUME requests \in Seq(RequestStates), NEW r \in DOMAIN requests, requests[r].told = <<>>,
           NEW after, DOMAIN after = DOMAIN Others(r),
           \A q \in DOMAIN Others(r) : /\ after[q].told = Others(r)[q].told
                                       /\ after[q].step = Others(r)[q].step
                                       /\ after[q].kind = Others(r)[q].kind
    PROVE  /\ ToldByAnswers => AnswersTell(after)
           /\ \A t \in Seq(Syncs) : OnlyToldBy(after, t) => OnlyTold(t)
<1>1. /\ \A q \in DOMAIN after :
            /\ Before(r, q) \in DOMAIN requests \ {r}
            /\ after[q].told = requests[Before(r, q)].told
            /\ after[q].step = requests[Before(r, q)].step
            /\ after[q].kind = requests[Before(r, q)].kind
      /\ \A k \in DOMAIN requests \ {r} : \E q \in DOMAIN after : Before(r, q) = k
  BY OthersStay
<1>2. ToldByAnswers => AnswersTell(after)
  BY <1>1 DEF ToldByAnswers, AnswersTell
<1>3. ASSUME NEW t \in Seq(Syncs), OnlyToldBy(after, t) PROVE OnlyTold(t)
  <2>1. CASE t = <<>> /\ \A q \in DOMAIN after : after[q].told = <<>>
    <3>1. \A k \in DOMAIN requests : requests[k].told = <<>>
      BY <1>1, <2>1
    <3> QED
      BY <2>1, <3>1 DEF OnlyTold, OnlyToldBy
  <2>2. CASE \E p \in DOMAIN after : after[p].told = t /\ \A q \in DOMAIN after \ {p} : after[q].told = <<>>
    <3>1. PICK p \in DOMAIN after : after[p].told = t /\ \A q \in DOMAIN after \ {p} : after[q].told = <<>>
      BY <2>2
    <3>2. Before(r, p) \in DOMAIN requests /\ requests[Before(r, p)].told = t
      BY <1>1, <3>1
    <3>3. ASSUME NEW k \in DOMAIN requests \ {Before(r, p)} PROVE requests[k].told = <<>>
      <4>1. CASE k = r
        BY <4>1
      <4>2. CASE k # r
        <5>1. PICK q \in DOMAIN after : Before(r, q) = k
          BY <1>1, <4>2
        <5> QED
          BY <1>1, <3>1, <3>3, <5>1
      <4> QED
        BY <4>1, <4>2
    <3> QED
      BY <3>2, <3>3 DEF OnlyTold, OnlyToldBy
  <2> QED
    BY <1>3, <2>1, <2>2 DEF OnlyToldBy
<1> QED
  BY <1>2, <1>3

(* What is excused stays so; only what reads and answers do is to be seen to. *)
LEMMA TellingExcused ==
    ASSUME Telling, troubles' \cap {"lost", "failed", "overtaken", "cleared", "kept"} # {},
           ReadWhenStarted', ToldByAnswers'
    PROVE  Telling'
BY DEF Telling, AllAgreed, Excused

(* Every call of the runner does, or deletes all cookies at once. *)
LEMMA TellingCalls ==
    ASSUME TypeInv, Telling,
           \/ \E s \in Snapshots : UseStateSnapshot(s)
           \/ \E c \in Cookies : SetCookie(c) \/ DeleteCookie(c)
           \/ DeleteAllCookies
    PROVE  Telling'
<1>1. /\ ProxyTypeOK /\ session \in Sessions /\ session.toTell \in Seq(Syncs)
      /\ session.api \in SUBSET Cookies /\ IsFiniteSet(session.api)
  BY DEF TypeInv, ProxyTypeOK, Sessions
<1>2. <<>> \in Seq(Syncs) /\ session.toTell \o <<>> = session.toTell
  BY <1>1, ConcatEmptySeq, EmptySeq
<1>3. Known(session.api, <<>>) = session.api
  BY KnownUnread
<1>4. ASSUME NEW s \in Snapshots, UseStateSnapshot(s) PROVE Telling'
  <2>1. session'.toTell = session.toTell /\ session'.api = session.api
    <3>1. PICK t : t = [session EXCEPT !.pending = s]
      OBVIOUS
    <3>2. t \in Sessions /\ t.api = session.api /\ t.toTell = session.toTell
      BY <1>1, <3>1 DEF Sessions, States
    <3>3. Call(t)
      BY <1>4, <3>1 DEF UseStateSnapshot
    <3> QED
      BY <3>2, <3>3, CallFacts DEF SameSession
  <2> QED
    BY <1>1, <1>2, <1>3, <1>4, <2>1, TellingOfCall DEF UseStateSnapshot
<1>5. ASSUME NEW c \in Cookies, SetCookie(c) PROVE Telling'
  <2>1. PICK u : u = [key |-> c, set |-> TRUE]
    OBVIOUS
  <2>2. u \in Syncs /\ u.set /\ u.key = c
    BY <2>1 DEF Syncs
  <2>3. <<u>> \in Seq(Syncs) /\ Append(session.toTell, u) = session.toTell \o <<u>>
    BY <1>1, <2>2, AppendIsConcat
  <2>4. Append(session.toTell, u) \in Seq(Syncs)
    BY <1>1, <2>2, AppendProperties
  <2>5. PICK t : t = [session EXCEPT !.api = @ \cup {c}, !.toTell = Append(@, u)]
    OBVIOUS
  <2>6. t \in Sessions /\ t.api = session.api \cup {c} /\ t.toTell = session.toTell \o <<u>>
    BY <1>1, <2>3, <2>4, <2>5 DEF Sessions
  <2>7. Call(t)
    BY <1>5, <2>1, <2>5 DEF SetCookie
  <2>8. session'.api = session.api \cup {c} /\ session'.toTell = session.toTell \o <<u>>
    BY <2>6, <2>7, CallFacts DEF SameSession
  <2>9. session'.api = Known(session.api, <<u>>)
    BY <2>2, <2>8, KnownOfOne
  <2> QED
    BY <1>1, <1>5, <2>3, <2>8, <2>9, TellingOfCall DEF SetCookie
<1>6. ASSUME NEW c \in Cookies, DeleteCookie(c) PROVE Telling'
  <2>1. PICK u : u = [key |-> c, set |-> FALSE]
    OBVIOUS
  <2>2. u \in Syncs /\ ~u.set /\ u.key = c
    BY <2>1 DEF Syncs
  <2>3. <<u>> \in Seq(Syncs) /\ Append(session.toTell, u) = session.toTell \o <<u>>
    BY <1>1, <2>2, AppendIsConcat
  <2>4. Append(session.toTell, u) \in Seq(Syncs)
    BY <1>1, <2>2, AppendProperties
  <2>5. PICK t : t = [session EXCEPT !.api = @ \ {c}, !.toTell = Append(@, u)]
    OBVIOUS
  <2>6. t \in Sessions /\ t.api = session.api \ {c} /\ t.toTell = session.toTell \o <<u>>
    BY <1>1, <2>3, <2>4, <2>5 DEF Sessions
  <2>7. Call(t)
    BY <1>6, <2>1, <2>5 DEF DeleteCookie
  <2>8. session'.api = session.api \ {c} /\ session'.toTell = session.toTell \o <<u>>
    BY <2>6, <2>7, CallFacts DEF SameSession
  <2>9. session'.api = Known(session.api, <<u>>)
    BY <2>2, <2>8, KnownOfOne
  <2> QED
    BY <1>1, <1>6, <2>3, <2>8, <2>9, TellingOfCall DEF DeleteCookie
<1>7. ASSUME DeleteAllCookies PROVE Telling'
  <2>1. CASE session.api # {}
    <3>1. "cleared" \in troubles' /\ UNCHANGED <<requests, page>>
      BY <1>7, <2>1 DEF DeleteAllCookies, Trouble
    <3>2. ReadWhenStarted' /\ ToldByAnswers'
      BY <3>1 DEF Telling, ReadWhenStarted, ToldByAnswers, AnswersTell
    <3>3. troubles' \cap {"lost", "failed", "overtaken", "cleared", "kept"} # {}
      BY <3>1
    <3> QED
      BY <3>2, <3>3, TellingExcused
  <2>2. CASE session.api = {}
    <3>1. AllAreTold(session.api) = <<>>
      BY <1>1, <2>2, AllAreToldType
    <3>2. PICK t : t = [session EXCEPT !.jar = {}, !.api = {}, !.toTell = @ \o <<>>]
      OBVIOUS
    <3>3. t \in Sessions /\ t.api = {} /\ t.toTell = session.toTell
      BY <1>1, <1>2, <3>2 DEF Sessions
    <3>4. Call([session EXCEPT !.jar = {}, !.api = {}, !.toTell = @ \o AllAreTold(session.api)])
      BY <1>7 DEF DeleteAllCookies, AllAreTold
    <3>5. session'.api = session.api /\ session'.toTell = session.toTell
      BY <2>2, <3>1, <3>2, <3>3, <3>4, CallFacts DEF SameSession
    <3> QED
      BY <1>1, <1>2, <1>3, <1>7, <3>5, TellingOfCall DEF DeleteAllCookies
  <2> QED
    BY <2>1, <2>2
<1> QED
  BY <1>4, <1>5, <1>6, <1>7

(* A task script is asked for with all cookies of the session; the other requests of a page  *)
(* carry none.                                                                               *)
LEMMA TellingAsked ==
    ASSUME TypeInv, Telling,
           \/ AskForAsset \/ AskForTaskScript
           \/ \E kind \in {"message", "socket"} : SendMessage(kind)
    PROVE  Telling'
<1>1. ProxyTypeOK /\ session \in Sessions /\ requests \in Seq(RequestStates)
  BY DEF TypeInv, ProxyTypeOK
<1>2. ASSUME NEW s \in Sessions, NEW kind \in {"asset", "task", "message", "socket"},
             Ask(kind, s), troubles \subseteq troubles', SameButJar(session, s, page.of)
      PROVE  Telling'
  <2>1. PICK x : x = Asked(kind, s, NoState)
    OBVIOUS
  <2>2. /\ SameSession(s, session') /\ x \in RequestStates /\ requests' = Append(requests, x)
        /\ page' = page
    BY <1>1, <1>2, <2>1, AskFacts DEF Ask
  <2>3. /\ x.told = <<>> /\ x.kind # "page"
        /\ x.kind = "task" => x.api = session.api
    BY <1>2, <2>1 DEF Asked, SameButJar
  <2>4. SamePages
    BY <1>1, <2>2, <2>3, AppendedAside
  <2>5. ToldByAnswers
    BY DEF Telling
  <2>6. /\ ToldByAnswers'
        /\ \A t \in Seq(Syncs) : OnlyTold(t)' => OnlyTold(t)
        /\ \A q \in DOMAIN requests' : \/ requests'[q] = x
                                       \/ \E k \in DOMAIN requests : requests'[q] = requests[k]
    <3>1. requests \in Seq(RequestStates) /\ x \in RequestStates /\ x.told = <<>>
      BY <1>1, <2>2, <2>3
    <3>2. PICK after : after = Append(requests, x)
      OBVIOUS
    <3>3. /\ AnswersTell(requests) => AnswersTell(after)
          /\ \A t \in Seq(Syncs) : OnlyToldBy(after, t) => OnlyToldBy(requests, t)
      BY <3>1, <3>2, ToldAppended
    <3>4. \A q \in DOMAIN after : after[q] = x \/ \E k \in DOMAIN requests : after[q] = requests[k]
      BY <3>1, <3>2, AppendFacts
    <3>5. requests' = after
      BY <2>2, <3>2
    <3> QED
      BY <2>5, <3>3, <3>4, <3>5 DEF ToldByAnswers, OnlyTold
  <2>7. session'.toTell = session.toTell /\ session'.api = session.api
    BY <1>2, <2>2 DEF SameSession, SameButJar
  <2>8. \A q \in DOMAIN requests' : LiveTask(requests'[q]) =>
           \/ \E k \in DOMAIN requests : LiveTask(requests[k]) /\ requests'[q].api = requests[k].api
           \/ requests'[q].api = session.api
    BY <2>3, <2>6 DEF LiveTask
  <2>9. UnderWay("page")' <=> UnderWay("page")
    BY <2>4 DEF SamePages
  <2> QED
    BY <1>1, <1>2, <2>2, <2>6, <2>7, <2>8, <2>9, TellingAside
<1>3. CASE AskForAsset
  <2>1. PICK s \in Dispatched :
           Ask("asset", s) /\ troubles' = troubles \cup Trouble("late", OldPageAsks)
    BY <1>3 DEF AskForAsset
  <2>2. s \in Sessions /\ SameButJar(session, s, page.of)
    BY <1>1, DispatchedFacts
  <2> QED
    BY <1>2, <2>1, <2>2
<1>4. CASE AskForTaskScript \/ \E kind \in {"message", "socket"} : SendMessage(kind)
  <2>1. SameButJar(session, session, page.of)
    BY DEF SameButJar
  <2> QED
    BY <1>1, <1>2, <1>4, <2>1 DEF AskForTaskScript, SendMessage
<1> QED
  BY <1>3, <1>4

(* A page request that switches the state while nothing is to be told takes all cookies away.  *)
LEMMA TellingNavigated ==
    ASSUME TypeInv, Telling, NEW earlier \in Seq(RequestStates), NEW s \in Dispatched, Navigate(earlier, s),
           troubles \cup Unfinished(earlier, s) \subseteq troubles',
           AnswersTell(earlier), \A t \in Seq(Syncs) : OnlyToldBy(earlier, t) => OnlyTold(t)
    PROVE  Telling'
<1>1. ProxyTypeOK /\ session \in Sessions /\ requests \in Seq(RequestStates) /\ page \in PageStates
  BY DEF TypeInv, ProxyTypeOK
<1>3. s \in Sessions /\ SameButJar(session, s, page.of)
  BY <1>1, DispatchedFacts
<1>4. PICK p : p = OnPageRequest(s)
  OBVIOUS
<1>5. /\ p \in Sessions
      /\ s.pending = NoState => p = s
      /\ s.pending # NoState => p.api = {} /\ p.toTell = s.toTell
  BY <1>3, <1>4, OnPageRequestFacts
<1>6. PICK z : z = IF s.pending.storages THEN s.pending ELSE NoState
  OBVIOUS
<1>7. z \in States \cup {NoState}
  BY <1>3, <1>6 DEF Sessions
<1>8. PICK x : x = Asked("page", p, z)
  OBVIOUS
<1>9. SameSession(p, session') /\ x \in RequestStates /\ requests' = Append(earlier, x) /\ page' = page
  <2>1. AskAfter(earlier, "page", p, z)
    BY <1>4, <1>6 DEF Navigate
  <2> QED
    BY <1>1, <1>5, <1>7, <1>8, <2>1, AskFacts
<1>10. x.told = <<>> /\ x.kind = "page"
  BY <1>8 DEF Asked
<1>11. UnderWay("page")'
  <2>1. Len(earlier) + 1 \in DOMAIN requests' /\ requests'[Len(earlier) + 1] = x
    BY <1>9, AppendFacts
  <2> QED
    BY <1>10, <2>1 DEF UnderWay, Among
<1>13. ToldByAnswers' /\ \A t \in Seq(Syncs) : OnlyTold(t)' => OnlyTold(t)
  <2>1. /\ AnswersTell(requests')
        /\ \A t \in Seq(Syncs) : OnlyToldBy(requests', t) => OnlyToldBy(earlier, t)
    BY <1>9, <1>10, ToldAppended
  <2> QED
    BY <2>1 DEF ToldByAnswers, OnlyTold
<1>14. ReadWhenStarted'
  BY <1>9 DEF Telling, ReadWhenStarted
<1> SUFFICES ASSUME ~Excused', NEW t \in Seq(Syncs), OnlyTold(t)' PROVE Agreed(t)'
  BY <1>13, <1>14 DEF Telling, AllAgreed
<1>15. ~Excused /\ OnlyTold(t)
  BY <1>13 DEF Excused
<1>16. Known(session.api, page.unread \o Rest(t)) = session.api
  BY <1>15 DEF Telling, AllAgreed, Agreed
<1>17. Known(session'.api, (page.unread \o Rest(t))') = session'.api
  <2>1. CASE s.pending = NoState
    <3>1. session'.api = session.api /\ session'.toTell = session.toTell
      BY <1>3, <1>5, <1>9, <2>1 DEF SameSession, SameButJar
    <3> QED
      BY <1>9, <1>16, <3>1 DEF Rest
  <2>2. CASE s.pending # NoState
    <3>1. ~UntoldCookies
      BY <2>2 DEF Unfinished, Trouble, Excused
    <3>2. session.toTell \o page.unread = <<>> /\ \A r \in DOMAIN requests : requests[r].told = <<>>
      BY <3>1 DEF UntoldCookies
    <3>3. session.toTell \in Seq(Syncs) /\ page.unread \in Seq(Syncs)
      BY <1>1 DEF Sessions, PageStates
    <3>4. session.toTell = <<>> /\ page.unread = <<>>
      BY <3>2, <3>3, ConcatEqualIffEmpty
    <3>5. t = <<>>
      BY <1>15, <3>2 DEF OnlyTold, OnlyToldBy
    <3>6. session'.api = {} /\ session'.toTell = <<>>
      BY <1>3, <1>5, <1>9, <2>2, <3>4 DEF SameSession, SameButJar
    <3>7. (page.unread \o Rest(t))' = <<>>
      BY <1>9, <3>4, <3>5, <3>6, ConcatEmptySeq, EmptySeq DEF Rest
    <3> QED
      BY <3>6, <3>7, KnownUnread
  <2> QED
    BY <2>1, <2>2
<1> QED
  BY <1>11, <1>17 DEF Agreed

(* What is asked for anew is a page. *)
LEMMA TellingOfPage ==
    ASSUME TypeInv, Telling, AskForPage
    PROVE  Telling'
<1>1. requests \in Seq(RequestStates) /\ AnswersTell(requests)
  BY DEF TypeInv, ProxyTypeOK, Telling, ToldByAnswers
<1>2. PICK s \in Dispatched : Navigate(requests, s) /\ troubles \cup Unfinished(requests, s) \subseteq troubles'
  BY DEF AskForPage
<1> QED
  BY <1>1, <1>2, TellingNavigated DEF OnlyTold

(* So is what a redirect leads to, and the request that was redirected told nothing. *)
LEMMA TellingFollowed ==
    ASSUME TypeInv, Telling, NEW r \in DOMAIN requests, RedirectIsFollowed(r)
    PROVE  Telling'
<1>1. requests \in Seq(RequestStates) /\ ToldByAnswers /\ Others(r) \in Seq(RequestStates)
  BY OthersStay DEF TypeInv, ProxyTypeOK, Telling
<1>2. requests[r].told = <<>>
  BY <1>1 DEF RedirectIsFollowed, Answers, ToldByAnswers, AnswersTell
<1>3. AnswersTell(Others(r)) /\ \A t \in Seq(Syncs) : OnlyToldBy(Others(r), t) => OnlyTold(t)
  BY <1>1, <1>2, ToldRemoved
<1>4. PICK s \in Dispatched : Navigate(Others(r), s) /\ troubles \cup Unfinished(Others(r), s) \subseteq troubles'
  BY DEF RedirectIsFollowed
<1> QED
  BY <1>1, <1>3, <1>4, TellingNavigated

(* What was read of the last changes is what there is to know. *)
LEMMA KnownSuffix ==
    ASSUME NEW api, NEW s \in Seq(Syncs), NEW u \in Seq(Syncs), Known(api, s \o u) = api
    PROVE  Known(api, u) = api
<1>1. /\ Mentioned(s \o u) = Mentioned(s) \cup Mentioned(u)
      /\ SetAtLast(s \o u) = (SetAtLast(s) \ Mentioned(u)) \cup SetAtLast(u)
  BY MentionedInBoth
<1> QED
  BY <1>1 DEF Known

(* Answers are told by those that answered, also when one of them ends. *)
LEMMA ToldByOthers ==
    ASSUME requests \in Seq(RequestStates), NEW r \in DOMAIN requests, requests' = Others(r), ToldByAnswers
    PROVE  ToldByAnswers'
<1>1. \A q \in DOMAIN requests' :
         Before(r, q) \in DOMAIN requests \ {r} /\ requests'[q] = requests[Before(r, q)]
  BY OthersStay
<1> QED
  BY <1>1 DEF ToldByAnswers, AnswersTell

(* A request ends that tells nothing. *)
LEMMA TellingEnded ==
    ASSUME TypeInv, Telling, NEW r \in DOMAIN requests, requests' = Others(r),
           requests[r].kind # "page", requests[r].told = <<>>, page' = page,
           troubles \subseteq troubles', session'.toTell = session.toTell, session'.api = session.api
    PROVE  Telling'
<1>1. ProxyTypeOK /\ requests \in Seq(RequestStates) /\ ToldByAnswers
  BY DEF TypeInv, ProxyTypeOK, Telling
<1>2. SamePages
  BY <1>1, RemovedAside
<1>3. ToldByAnswers' /\ \A t \in Seq(Syncs) : OnlyTold(t)' => OnlyTold(t)
  BY <1>1, ToldRemoved DEF ToldByAnswers, OnlyTold
<1>4. \A q \in DOMAIN requests' : \E k \in DOMAIN requests : requests'[q] = requests[k]
  <2>1. \A q \in DOMAIN requests' :
           Before(r, q) \in DOMAIN requests \ {r} /\ requests'[q] = requests[Before(r, q)]
    BY <1>1, OthersStay
  <2> QED
    BY <2>1
<1>5. \A q \in DOMAIN requests' : LiveTask(requests'[q]) =>
         \/ \E k \in DOMAIN requests : LiveTask(requests[k]) /\ requests'[q].api = requests[k].api
         \/ requests'[q].api = session.api
  BY <1>4
<1>6. UnderWay("page")' <=> UnderWay("page")
  BY <1>2 DEF SamePages
<1> QED
  BY <1>1, <1>3, <1>5, <1>6, TellingAside

(* The page that arrives has still to start, with a task script of its own. *)
LEMMA TellingOfArrival ==
    ASSUME TypeInv, Telling, NEW r \in DOMAIN requests, PageArrives(r)
    PROVE  Telling'
<1>1. ProxyTypeOK /\ session \in Sessions /\ requests \in Seq(RequestStates) /\ page \in PageStates /\ ToldByAnswers
  BY DEF TypeInv, ProxyTypeOK, Telling
<1>2. /\ DOMAIN requests' = DOMAIN Others(r)
      /\ \A q \in DOMAIN Others(r) : requests'[q] = [Others(r)[q] EXCEPT !.live = FALSE]
  BY DEF PageArrives
<1>3. \A q \in DOMAIN Others(r) : Others(r)[q] \in RequestStates
  BY <1>1, RequestsType, ElementOfSeq, LenProperties
<1>4. \A q \in DOMAIN Others(r) : /\ requests'[q].told = Others(r)[q].told
                                  /\ requests'[q].step = Others(r)[q].step
                                  /\ requests'[q].kind = Others(r)[q].kind
                                  /\ ~requests'[q].live
  BY <1>2, <1>3 DEF RequestStates
<1>5. requests[r].told = <<>>
  BY <1>1 DEF PageArrives, Answers, ToldByAnswers, AnswersTell
<1>6. ToldByAnswers' /\ \A t \in Seq(Syncs) : OnlyTold(t)' => OnlyTold(t)
  BY <1>1, <1>2, <1>4, <1>5, ToldRemoved DEF ToldByAnswers, OnlyTold
<1>7. session'.toTell = session.toTell /\ session'.api = session.api
  BY <1>1, SetByServerFacts DEF PageArrives, SameButJar
<1>8. ~page'.started /\ page'.unread = page.unread
  BY <1>1 DEF PageArrives, PageStates
<1>9. ReadWhenStarted'
  BY <1>8 DEF ReadWhenStarted
<1> SUFFICES ASSUME ~Excused', NEW t \in Seq(Syncs), OnlyTold(t)' PROVE Agreed(t)'
  BY <1>6, <1>9 DEF Telling, AllAgreed
<1>10. Agreed(t)
  <2>1. ~Excused /\ OnlyTold(t)
    BY <1>6 DEF Excused, PageArrives
  <2> QED
    BY <2>1 DEF Telling, AllAgreed
<1>11. Known(session'.api, (page.unread \o Rest(t))') = session'.api
  BY <1>7, <1>8, <1>10 DEF Agreed, Rest
<1>12. \A q \in DOMAIN requests' : ~LiveTask(requests'[q])
  BY <1>2, <1>4 DEF LiveTask
<1> QED
  BY <1>8, <1>11, <1>12 DEF Agreed

(* A redirect tells nothing. *)
LEMMA TellingRedirected ==
    ASSUME TypeInv, Telling, NEW r \in DOMAIN requests, PageIsRedirected(r)
    PROVE  Telling'
<1>1. ProxyTypeOK /\ session \in Sessions /\ requests \in Seq(RequestStates) /\ ToldByAnswers
  BY DEF TypeInv, ProxyTypeOK, Telling
<1>2. requests' = [requests EXCEPT ![r].step = "redirected"] /\ requests[r].kind = "page"
  BY DEF PageIsRedirected, Answers
<1>3. \A q \in DOMAIN requests : requests[q] \in RequestStates
  BY <1>1, RequestType
<1>4. /\ DOMAIN requests' = DOMAIN requests
      /\ \A q \in DOMAIN requests :
            /\ requests'[q].kind = requests[q].kind /\ requests'[q].told = requests[q].told
            /\ requests'[q].live = requests[q].live /\ requests'[q].api = requests[q].api
            /\ requests'[q].kind # "page" => requests'[q].step = requests[q].step
  BY <1>2, <1>3 DEF RequestStates
<1>5. ToldByAnswers' /\ (UnderWay("page")' <=> UnderWay("page"))
  BY <1>1, <1>4 DEF ToldByAnswers, AnswersTell, UnderWay, Among
<1>6. \A t \in Seq(Syncs) : OnlyTold(t)' => OnlyTold(t)
  BY <1>4 DEF OnlyTold, OnlyToldBy
<1>7. \A q \in DOMAIN requests' : LiveTask(requests'[q]) =>
         \/ \E k \in DOMAIN requests : LiveTask(requests[k]) /\ requests'[q].api = requests[k].api
         \/ requests'[q].api = session.api
  BY <1>4 DEF LiveTask
<1>8. session'.toTell = session.toTell /\ session'.api = session.api
  BY <1>1, SetByServerFacts DEF PageIsRedirected, SameButJar
<1>9. page' = page /\ troubles \subseteq troubles'
  BY DEF PageIsRedirected
<1> QED
  BY <1>1, <1>5, <1>6, <1>7, <1>8, <1>9, TellingAside

(* A message that is handled takes the cookies that the session was to tell. *)
LEMMA TellingHandled ==
    ASSUME TypeInv, Telling, NEW r \in DOMAIN requests, MessageIsHandled(r)
    PROVE  Telling'
<1>1. /\ ProxyTypeOK /\ session \in Sessions /\ session.toTell \in Seq(Syncs)
      /\ requests \in Seq(RequestStates) /\ ToldByAnswers
  BY DEF TypeInv, ProxyTypeOK, Telling, Sessions
<1>2. requests' = [requests EXCEPT ![r].step = "answered", ![r].told = session.toTell]
  BY DEF MessageIsHandled
<1>3. \A q \in DOMAIN requests : requests[q] \in RequestStates
  BY <1>1, RequestType
<1>4. /\ DOMAIN requests' = DOMAIN requests
      /\ \A q \in DOMAIN requests :
            /\ requests'[q].kind = requests[q].kind /\ requests'[q].live = requests[q].live
            /\ requests'[q].api = requests[q].api
      /\ \A q \in DOMAIN requests \ {r} : requests'[q].told = requests[q].told
                                          /\ requests'[q].step = requests[q].step
      /\ requests'[r].told = session.toTell /\ requests'[r].step = "answered"
  BY <1>2, <1>3 DEF RequestStates
<1>5. session'.toTell = <<>> /\ session'.api = session.api
  BY <1>1 DEF MessageIsHandled, Sessions
<1>6. UNCHANGED <<page, troubles>>
  BY DEF MessageIsHandled
<1>7. requests[r].kind = "message" /\ requests[r].told = <<>>
  BY <1>1 DEF MessageIsHandled, Answers, ToldByAnswers, AnswersTell
<1>8. ToldByAnswers'
  BY <1>1, <1>4, <1>7 DEF ToldByAnswers, AnswersTell
<1>9. ReadWhenStarted'
  BY <1>6 DEF Telling, ReadWhenStarted
<1> SUFFICES ASSUME ~Excused', NEW t \in Seq(Syncs), OnlyTold(t)' PROVE Agreed(t)'
  BY <1>8, <1>9 DEF Telling, AllAgreed
<1>10. Rest(t)' = t
  BY <1>5, ConcatEmptySeq DEF Rest
<1>11. \E v \in Seq(Syncs) : OnlyTold(v) /\ Rest(v) = t
  <2>1. CASE session.toTell = <<>>
    <3>1. \A q \in DOMAIN requests : requests'[q].told = requests[q].told
      BY <1>4, <1>7, <2>1
    <3>2. OnlyTold(t)
      BY <1>4, <3>1 DEF OnlyTold, OnlyToldBy
    <3>3. Rest(t) = t
      BY <2>1, ConcatEmptySeq DEF Rest
    <3> QED
      BY <3>2, <3>3
  <2>2. CASE session.toTell # <<>>
    <3>1. t = session.toTell /\ \A q \in DOMAIN requests \ {r} : requests[q].told = <<>>
      <4>1. ~(\A q \in DOMAIN requests' : requests'[q].told = <<>>)
        BY <1>4, <2>2
      <4>2. PICK p \in DOMAIN requests' :
               requests'[p].told = t /\ \A q \in DOMAIN requests' \ {p} : requests'[q].told = <<>>
        BY <4>1 DEF OnlyTold, OnlyToldBy
      <4>3. p = r
        BY <1>4, <2>2, <4>2
      <4> QED
        BY <1>4, <4>2, <4>3
    <3>2. OnlyTold(<<>>)
      BY <1>7, <3>1 DEF OnlyTold, OnlyToldBy
    <3>3. <<>> \in Seq(Syncs) /\ Rest(<<>>) = t
      BY <1>1, <3>1, ConcatEmptySeq, EmptySeq DEF Rest
    <3> QED
      BY <3>2, <3>3
  <2> QED
    BY <2>1, <2>2
<1>12. PICK v \in Seq(Syncs) : OnlyTold(v) /\ Rest(v) = t
  BY <1>11
<1>13. Agreed(v)
  <2>1. ~Excused
    BY <1>6 DEF Excused
  <2> QED
    BY <1>12, <2>1 DEF Telling, AllAgreed
<1>14. UnderWay("page")' <=> UnderWay("page")
  BY <1>4 DEF UnderWay, Among
<1>15. ASSUME ~UnderWay("page")', ~page'.started, NEW q \in DOMAIN requests', LiveTask(requests'[q])
       PROVE  Known(requests'[q].api, (page.unread \o Rest(t))') = session'.api
  <2>1. q \in DOMAIN requests /\ LiveTask(requests[q]) /\ requests'[q].api = requests[q].api
    BY <1>4, <1>15 DEF LiveTask
  <2>2. Known(requests[q].api, page.unread \o Rest(v)) = session.api
    BY <1>6, <1>13, <1>14, <1>15, <2>1 DEF Agreed
  <2> QED
    BY <1>5, <1>6, <1>10, <1>12, <2>1, <2>2
<1>16. Known(session'.api, (page.unread \o Rest(t))') = session'.api
  BY <1>5, <1>6, <1>10, <1>12, <1>13 DEF Agreed
<1>17. ~UnderWay("page")' /\ page'.started => Known(page'.api, Rest(t)') = session'.api
  BY <1>5, <1>6, <1>10, <1>12, <1>13, <1>14 DEF Agreed
<1> QED
  BY <1>15, <1>16, <1>17 DEF Agreed

(* An answer brings the only cookies that were on their way to the page that runs, or to the *)
(* browser that keeps them for the one that starts.                                          *)
LEMMA TellingAnswered ==
    ASSUME TypeInv, Telling, NEW r \in DOMAIN requests, MessageIsAnswered(r)
    PROVE  Telling'
<1>1. /\ ProxyTypeOK /\ session.toTell \in Seq(Syncs) /\ requests \in Seq(RequestStates) /\ page \in PageStates
      /\ page.unread \in Seq(Syncs) /\ ToldByAnswers
  BY DEF TypeInv, ProxyTypeOK, Telling, Sessions, PageStates
<1>2. requests' = Others(r) /\ requests[r].kind = "message" /\ session' = session
  BY DEF MessageIsAnswered, Ended, Answers
<1>3. ToldByAnswers'
  BY <1>1, <1>2, ToldByOthers
<1>4. PICK v : v = requests[r].told
  OBVIOUS
<1>5. v \in Seq(Syncs)
  BY <1>1, <1>4, RequestType DEF RequestStates
<1>6. /\ page.started => /\ page'.started /\ page'.unread = page.unread
                         /\ page'.api = Known(page.api, v)
      /\ ~page.started => ~page'.started /\ page'.unread = page.unread \o v
  BY <1>1, <1>4 DEF MessageIsAnswered, PageStates
<1>7. ReadWhenStarted'
  BY <1>6 DEF Telling, ReadWhenStarted
<1> SUFFICES ASSUME ~Excused', NEW t \in Seq(Syncs), OnlyTold(t)' PROVE Agreed(t)'
  BY <1>3, <1>7 DEF Telling, AllAgreed
<1>8. \A q \in DOMAIN requests \ {r} : requests[q].told = <<>>
  BY DEF Excused, MessageIsAnswered, Trouble
<1>9. Agreed(v)
  <2>1. ~Excused
    BY DEF Excused, MessageIsAnswered
  <2>2. OnlyTold(v)
    BY <1>4, <1>8 DEF OnlyTold, OnlyToldBy
  <2> QED
    BY <1>5, <2>1, <2>2 DEF Telling, AllAgreed
<1>10. \A q \in DOMAIN requests' :
          Before(r, q) \in DOMAIN requests \ {r} /\ requests'[q] = requests[Before(r, q)]
  BY <1>1, <1>2, OthersStay
<1>11. t = <<>>
  BY <1>8, <1>10 DEF OnlyTold, OnlyToldBy
<1>12. Rest(t)' = session.toTell
  BY <1>1, <1>2, <1>11, ConcatEmptySeq DEF Rest
<1>13. Rest(v) = v \o session.toTell
  BY DEF Rest
<1>14. UnderWay("page")' <=> UnderWay("page")
  <2>1. SamePages
    BY <1>1, <1>2, RemovedAside
  <2> QED
    BY <2>1 DEF SamePages
<1>15. CASE page.started
  <2>1. page.unread = <<>> /\ page'.unread = <<>>
    BY <1>6, <1>15 DEF Telling, ReadWhenStarted
  <2>2. page.unread \o Rest(v) = v \o session.toTell /\ page'.unread \o Rest(t)' = session.toTell
    BY <1>1, <1>5, <1>12, <1>13, <2>1, ConcatEmptySeq, ConcatProperties
  <2>3. Known(session.api, v \o session.toTell) = session.api
    BY <1>9, <2>2 DEF Agreed
  <2>4. Known(session.api, session.toTell) = session.api
    BY <1>1, <1>5, <2>3, KnownSuffix
  <2>5. ASSUME ~UnderWay("page")' PROVE Known(page'.api, Rest(t)') = session'.api
    <3>1. Known(page.api, v \o session.toTell) = session.api
      BY <1>9, <1>13, <1>14, <1>15, <2>5 DEF Agreed
    <3>2. Known(Known(page.api, v), session.toTell) = Known(page.api, v \o session.toTell)
      BY <1>1, <1>5, KnownInTurn
    <3> QED
      BY <1>2, <1>6, <1>12, <1>15, <3>1, <3>2
  <2> QED
    BY <1>2, <1>6, <1>15, <2>2, <2>4, <2>5 DEF Agreed
<1>16. CASE ~page.started
  <2>1. page'.unread \o Rest(t)' = page.unread \o Rest(v)
    <3>1. (page.unread \o v) \o session.toTell = page.unread \o (v \o session.toTell)
      BY <1>1, <1>5, Regroup
    <3> QED
      BY <1>6, <1>12, <1>13, <1>16, <3>1
  <2>2. ASSUME ~UnderWay("page")', NEW q \in DOMAIN requests', LiveTask(requests'[q])
        PROVE  Known(requests'[q].api, page'.unread \o Rest(t)') = session'.api
    <3>1. Before(r, q) \in DOMAIN requests /\ requests'[q] = requests[Before(r, q)]
      BY <1>10
    <3>2. Known(requests[Before(r, q)].api, page.unread \o Rest(v)) = session.api
      BY <1>9, <1>14, <1>16, <2>2, <3>1 DEF Agreed
    <3> QED
      BY <1>2, <2>1, <3>1, <3>2
  <2>3. Known(session'.api, page'.unread \o Rest(t)') = session'.api
    BY <1>2, <1>9, <2>1 DEF Agreed
  <2> QED
    BY <1>6, <1>16, <2>2, <2>3 DEF Agreed
<1> QED
  BY <1>15, <1>16

(* A task script that starts the page knows the cookies of its time, and the page reads what *)
(* the browser has.                                                                          *)
LEMMA TellingStarted ==
    ASSUME TypeInv, Telling, NEW r \in DOMAIN requests, TaskScriptArrives(r),
           ~page.started, requests[r].live
    PROVE  Telling'
<1>1. /\ ProxyTypeOK /\ requests \in Seq(RequestStates) /\ page \in PageStates
      /\ page.unread \in Seq(Syncs) /\ ToldByAnswers
  BY DEF TypeInv, ProxyTypeOK, Telling, PageStates
<1>2. /\ requests' = Others(r) /\ LiveTask(requests[r]) /\ requests[r].told = <<>>
      /\ UNCHANGED <<session, troubles>>
  BY <1>1 DEF TaskScriptArrives, Ended, Answers, LiveTask, ToldByAnswers, AnswersTell
<1>3. page'.started /\ page'.unread = <<>> /\ page'.api = Known(requests[r].api, page.unread)
  BY <1>1 DEF TaskScriptArrives, PageStates
<1>4. ToldByAnswers' /\ \A t \in Seq(Syncs) : OnlyTold(t)' => OnlyTold(t)
  BY <1>1, <1>2, ToldRemoved DEF ToldByAnswers, OnlyTold
<1>5. ReadWhenStarted'
  BY <1>3 DEF ReadWhenStarted
<1> SUFFICES ASSUME ~Excused', NEW t \in Seq(Syncs), OnlyTold(t)' PROVE Agreed(t)'
  BY <1>4, <1>5 DEF Telling, AllAgreed
<1>6. Agreed(t)
  <2>1. ~Excused /\ OnlyTold(t)
    BY <1>2, <1>4 DEF Excused
  <2> QED
    BY <2>1 DEF Telling, AllAgreed
<1>7. Rest(t) \in Seq(Syncs) /\ Rest(t)' = Rest(t)
  BY <1>1, <1>2, RestType DEF Rest
<1>8. page'.unread \o Rest(t)' = Rest(t)
  BY <1>3, <1>7, ConcatEmptySeq
<1>9. Known(session.api, Rest(t)) = session.api
  <2>1. Known(session.api, page.unread \o Rest(t)) = session.api
    BY <1>6 DEF Agreed
  <2> QED
    BY <1>1, <1>7, <2>1, KnownSuffix
<1>10. UnderWay("page")' <=> UnderWay("page")
  <2>1. requests[r].kind # "page"
    BY <1>2 DEF LiveTask
  <2>2. SamePages
    BY <1>1, <1>2, <2>1, RemovedAside
  <2> QED
    BY <2>2 DEF SamePages
<1>11. ASSUME ~UnderWay("page")' PROVE Known(page'.api, Rest(t)') = session'.api
  <2>1. Known(requests[r].api, page.unread \o Rest(t)) = session.api
    BY <1>2, <1>6, <1>10, <1>11 DEF Agreed
  <2>2. Known(Known(requests[r].api, page.unread), Rest(t)) = Known(requests[r].api, page.unread \o Rest(t))
    BY <1>1, <1>7, KnownInTurn
  <2> QED
    BY <1>2, <1>3, <1>7, <2>1, <2>2
<1> QED
  BY <1>2, <1>3, <1>8, <1>9, <1>11 DEF Agreed

(* Whatever answer comes, who reads the rest knows the cookies of the session. *)
LEMMA TellingAnswer ==
    ASSUME TypeInv, Telling, Answer
    PROVE  Telling'
<1>1. ProxyTypeOK /\ requests \in Seq(RequestStates) /\ ToldByAnswers
  BY DEF TypeInv, ProxyTypeOK, Telling
<1> SUFFICES ASSUME NEW r \in DOMAIN requests,
                    \/ PageArrives(r) \/ PageIsRedirected(r) \/ RedirectIsFollowed(r)
                    \/ PageFails(r) \/ AssetArrives(r) \/ MessageIsHandled(r) \/ MessageTakesNoCookies(r)
                    \/ MessageIsAnswered(r) \/ AnswerIsLost(r) \/ TaskScriptArrives(r)
             PROVE  Telling'
  BY DEF Answer
<1>2. CASE PageArrives(r)
  BY <1>2, TellingOfArrival
<1>3. CASE PageIsRedirected(r)
  BY <1>3, TellingRedirected
<1>10. CASE RedirectIsFollowed(r)
  BY <1>10, TellingFollowed
<1>4. CASE PageFails(r) \/ (AnswerIsLost(r) /\ requests[r].told # <<>>)
  <2>1. requests' = Others(r) /\ page' = page
    BY <1>4 DEF PageFails, AnswerIsLost, Ended
  <2>2. ToldByAnswers' /\ ReadWhenStarted'
    BY <1>1, <2>1, ToldByOthers DEF Telling, ReadWhenStarted
  <2>3. troubles' \cap {"lost", "failed", "overtaken", "cleared", "kept"} # {}
    <3>1. "failed" \in troubles' \/ "lost" \in troubles'
      BY <1>4 DEF PageFails, AnswerIsLost, Trouble
    <3> QED
      BY <3>1
  <2> QED
    BY <2>2, <2>3, TellingExcused
<1>5. CASE AssetArrives(r)
  <2>1. session'.toTell = session.toTell /\ session'.api = session.api
    BY <1>1, <1>5, SetByServerFacts DEF AssetArrives, SameButJar
  <2>2. /\ requests' = Others(r) /\ requests[r].kind # "page" /\ requests[r].told = <<>>
        /\ page' = page /\ troubles \subseteq troubles'
    BY <1>1, <1>5 DEF AssetArrives, Ended, Answers, ToldByAnswers, AnswersTell
  <2> QED
    BY <2>1, <2>2, TellingEnded
<1>6. CASE MessageIsHandled(r)
  BY <1>6, TellingHandled
<1>7. CASE MessageIsAnswered(r)
  BY <1>7, TellingAnswered
<1>8. CASE MessageTakesNoCookies(r) \/ (AnswerIsLost(r) /\ requests[r].told = <<>>)
  <2>1. /\ requests' = Others(r) /\ requests[r].kind # "page" /\ requests[r].told = <<>>
        /\ page' = page /\ session' = session /\ troubles \subseteq troubles'
    BY <1>1, <1>8 DEF MessageTakesNoCookies, AnswerIsLost, Ended, Answers, ToldByAnswers, AnswersTell
  <2> QED
    BY <2>1, TellingEnded
<1>9. CASE TaskScriptArrives(r)
  <2>1. CASE page.started \/ ~requests[r].live
    <3>1. /\ requests' = Others(r) /\ requests[r].kind # "page" /\ requests[r].told = <<>>
          /\ page' = page /\ session' = session /\ troubles' = troubles
      BY <1>1, <1>9, <2>1 DEF TaskScriptArrives, Ended, Answers, ToldByAnswers, AnswersTell
    <3> QED
      BY <3>1, TellingEnded
  <2>2. CASE ~page.started /\ requests[r].live
    BY <1>9, <2>2, TellingStarted
  <2> QED
    BY <2>1, <2>2
<1> QED
  BY <1>2, <1>3, <1>4, <1>5, <1>6, <1>7, <1>8, <1>9, <1>10

(* Every step does so. *)
LEMMA TellingStep ==
    ASSUME TypeInv, Telling, [ProxyNext]_proxyVars
    PROVE  Telling'
<1>1. CASE Start \/ OpenSession \/ CloseSession \/ UNCHANGED proxyVars
  <2>1. UNCHANGED <<session, requests, page, troubles>>
    BY <1>1 DEF Start, OpenSession, CloseSession, proxyVars
  <2>2. \A t \in Seq(Syncs) : (OnlyTold(t)' <=> OnlyTold(t)) /\ (Agreed(t)' <=> Agreed(t))
    BY <2>1 DEF OnlyTold, OnlyToldBy, Agreed, Rest, UnderWay, Among
  <2> QED
    BY <2>1, <2>2 DEF Telling, ReadWhenStarted, ToldByAnswers, AnswersTell, AllAgreed, Excused
<1>2. CASE Close
  <2>1. requests' = <<>> /\ page' = page /\ "lost" \in troubles'
    BY <1>2 DEF Close
  <2>2. ReadWhenStarted' /\ ToldByAnswers'
    BY <2>1 DEF Telling, ReadWhenStarted, ToldByAnswers, AnswersTell
  <2>3. troubles' \cap {"lost", "failed", "overtaken", "cleared", "kept"} # {}
    BY <2>1
  <2> QED
    BY <2>2, <2>3, TellingExcused
<1>3. CASE \/ \E s \in Snapshots : UseStateSnapshot(s)
           \/ \E c \in Cookies : SetCookie(c) \/ DeleteCookie(c)
           \/ DeleteAllCookies
  BY <1>3, TellingCalls
<1>4. CASE \/ AskForAsset \/ AskForTaskScript
           \/ \E kind \in {"message", "socket"} : SendMessage(kind)
  BY <1>4, TellingAsked
<1>5. CASE AskForPage
  BY <1>5, TellingOfPage
<1>6. CASE Answer
  BY <1>6, TellingAnswer
<1> QED
  BY <1>1, <1>2, <1>3, <1>4, <1>5, <1>6 DEF ProxyNext

(* A page that runs and was told all that the runner did to cookies knows the runner's       *)
(* cookies of Session.cookies, unless cookies were lost, overtaken, deleted all at once or   *)
(* kept over a switch of the state.                                                          *)
THEOREM RunnerCookiesReach == ProxySpec => []RunnerCookiesReachThePage
<1> DEFINE IInv == TypeInv /\ Telling
<1>1. ProxyInit => IInv
  <2> SUFFICES ASSUME ProxyInit PROVE Telling
    BY TypeInit
  <2>1. /\ requests = <<>> /\ session.api = {} /\ session.toTell = <<>> /\ page.started
        /\ page.unread = <<>> /\ page.api = {}
    BY DEF ProxyInit, InitialSession, InitialPage
  <2>2. ASSUME NEW t \in Seq(Syncs), OnlyTold(t) PROVE Agreed(t)
    <3>1. t = <<>> /\ Rest(t) = <<>> /\ page.unread \o Rest(t) = <<>>
      BY <2>1, <2>2, ConcatEmptySeq, EmptySeq DEF OnlyTold, OnlyToldBy, Rest
    <3> QED
      BY <2>1, <3>1, KnownUnread DEF Agreed
  <2> QED
    BY <2>1, <2>2 DEF Telling, ReadWhenStarted, ToldByAnswers, AnswersTell, AllAgreed
<1>2. IInv /\ [ProxyNext]_proxyVars => IInv'
  BY TypeStep, TellingStep
<1>3. IInv => RunnerCookiesReachThePage
  <2> SUFFICES ASSUME IInv, ~Excused, session.toTell = <<>>, page.started, ~UnderWay("message"),
                      ~UnderWay("page")
               PROVE  page.api = session.api
    BY DEF RunnerCookiesReachThePage, Excused
  <2>1. \A r \in DOMAIN requests : requests[r] \in RequestStates
    BY RequestType DEF TypeInv
  <2>2. OnlyTold(<<>>)
    <3>1. ASSUME NEW r \in DOMAIN requests PROVE requests[r].told = <<>>
      BY DEF Telling, ToldByAnswers, AnswersTell, UnderWay, Among
    <3> QED
      BY <3>1 DEF OnlyTold, OnlyToldBy
  <2>3. Agreed(<<>>) /\ Rest(<<>>) = <<>>
    BY <2>2, ConcatEmptySeq, EmptySeq DEF Telling, AllAgreed, Rest
  <2> QED
    BY <2>3, KnownUnread DEF Agreed
<1> QED
  BY <1>1, <1>2, <1>3, PTL DEF ProxySpec

================================================================================
