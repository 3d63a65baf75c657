--------------------------- MODULE CookieSync_proofs ---------------------------
(***************************************************************************)
(* That all windows of a page show the same cookie, and that a change of   *)
(* it settles, for any windows, attempts, requests and times.              *)
(*                                                                         *)
(* Sound is what is true whatever the times are: the types, which cookies  *)
(* exist, and that messages are of synchronisations.  As long as the times *)
(* tell changes apart, FreshCookies is true as well: a cookie is known by  *)
(* its time wherever it is, in document.cookie, in messages, in requests   *)
(* and in answers under way, and at most one of those in document.cookie   *)
(* is not of the server.  Agreement says that all windows have the same    *)
(* copy or are being told of the newest cookie (Telling): an iframe has    *)
(* asked the top window to, or the top window waits for all that may not   *)
(* know it.  It needs of requests that an answer deletes a cookie that     *)
(* matters only for a newer one (Kept).                                    *)
(*                                                                         *)
(* First the operators of CookieSync are described one by one, then what   *)
(* they do to Telling, then to agreement, and last the actions.            *)
(*                                                                         *)
(* The second part is relative to this.  AllAwaited: a window still has to *)
(* be told of each cookie for windows.  Following: the last change is on   *)
(* its way to the windows (Phase) and to the proxy (JarFollows), and no    *)
(* request or answer under way can undo it (InTurn).                       *)
(***************************************************************************)
EXTENDS CookieSync, TLAPS, WellFoundedInduction

-----------------------------------------------------------------------------
(* What is said of a page.  The cookies of its document.cookie, those that its windows       *)
(* exchange, and what a cookie is for.                                                       *)
InDoc(p)      == Range(p.doc)
Syncing(p)    == {p.syncs[i].cookie : i \in DOMAIN p.syncs}
Places        == Nat \ {0}
Asks(p, x, i, c) == i \in DOMAIN p.toTop[x] /\ p.toTop[x][i].cookie = {c}
Asked(p)      == {c \in SyncCookies : \E x \in CrossDomain, i \in Places : Asks(p, x, i, c)}
Exchanging(p) == Syncing(p) \cup Asked(p)

ForWindows(c) == "window" \in c.sync
OfServer(c)   == "server" \in c.sync
OfClient(c)   == "client" \in c.sync

WindowKinds   == {{"client", "window"}, {"window"}}
Kinds        == {{"client"}, {"server"}} \cup WindowKinds

(* The messages are those of the synchronisations, and all cookies are of the times T. *)
Messages(p) ==
    \A x \in CrossDomain :
        /\ \A i \in DOMAIN p.toFrame[x] :
            /\ p.toFrame[x][i].id \in DOMAIN p.syncs
            /\ p.toFrame[x][i].cookie = p.syncs[p.toFrame[x][i].id].cookie
        /\ \A i \in DOMAIN p.toTop[x] :
            p.toTop[x][i].cmd = "done" => p.toTop[x][i].id \in DOMAIN p.syncs

(* The browser has one cookie of a key. *)
Once(doc) == \A i, j \in DOMAIN doc : SyncKey(doc[i]) = SyncKey(doc[j]) => i = j

Within(p, T) ==
    /\ p \in Pages /\ Once(p.doc) /\ Messages(p)
    /\ \A c \in InDoc(p) : c.sync \in Kinds /\ c.time \in T
    /\ \A c \in Exchanging(p) : c.sync \in WindowKinds /\ c.time \in T

-----------------------------------------------------------------------------
(* Numbers *)

LEMMA Least ==
    ASSUME NEW T, T \subseteq Nat, T # {}
    PROVE  \E x \in T : \A y \in T : x <= y
<1>1. IsWellFoundedOn(OpToRel(<, Nat), Nat)
  BY NatLessThanWellFounded
<1>2. PICK x \in T : \A y \in T : ~ (<<y, x>> \in OpToRel(<, Nat))
  BY <1>1, WFMin
<1>3. \A y \in T : ~(y < x)
  BY <1>2 DEF OpToRel
<1> QED
  BY <1>3

(* A second begins at or before the times in it. *)
LEMMA SecondsBefore ==
    ASSUME NEW t \in Nat
    PROVE  Seconds(t) \in Nat /\ Seconds(t) <= t
<1>1. TicksPerSecond \in Nat /\ TicksPerSecond > 0
  BY BoundsAssumption
<1>2. t \div TicksPerSecond \in Nat
  BY <1>1
<1>3. (t \div TicksPerSecond) * TicksPerSecond <= t
  BY <1>1, <1>2
<1> QED
  BY <1>1, <1>2, <1>3 DEF Seconds

(* Of two times in different seconds, the earlier is before the second of the later. *)
LEMMA SecondsApart ==
    ASSUME NEW s \in Nat, NEW t \in Nat, s <= t, Seconds(s) # Seconds(t)
    PROVE  s < Seconds(t)
<1> DEFINE T == TicksPerSecond
           p == s \div T
           q == t \div T
<1>1. T \in Nat /\ T > 0
  BY BoundsAssumption
<1>2. p \in Nat /\ q \in Nat /\ s < (p + 1) * T /\ p * T <= s /\ q * T <= t /\ t < (q + 1) * T
  BY <1>1
<1>3. Seconds(s) = p * T /\ Seconds(t) = q * T
  BY DEF Seconds
<1> HIDE DEF p, q, T
<1>4. p # q
  BY <1>3
<1>5. p < q + 1
  <2>1. CASE q + 1 <= p
    <3>1. (q + 1) * T <= p * T
      BY <2>1, <1>1, <1>2
    <3> QED BY <3>1, <1>1, <1>2
  <2> QED BY <2>1, <1>2
<1>6. (p + 1) * T <= q * T
  <2>1. p + 1 <= q
    BY <1>4, <1>5, <1>2
  <2> QED BY <2>1, <1>1, <1>2
<1> QED
  BY <1>6, <1>2, <1>1, <1>3

-----------------------------------------------------------------------------
(* Documents *)

LEMMA AppendRange ==
    ASSUME NEW S, NEW s \in Seq(S), NEW e \in S
    PROVE  Range(Append(s, e)) = Range(s) \cup {e}
<1>1. DOMAIN Append(s, e) = (DOMAIN s) \cup {Len(s) + 1}
  OBVIOUS
<1>2. \A i \in DOMAIN s : Append(s, e)[i] = s[i]
  OBVIOUS
<1>3. Append(s, e)[Len(s) + 1] = e
  OBVIOUS
<1> QED
  BY <1>1, <1>2, <1>3 DEF Range

(* A document stays one of different keys if a cookie of a new key is added at its end. *)
LEMMA AppendOnce ==
    ASSUME NEW S, NEW s \in Seq(S), NEW e \in S, Once(s),
           \A i \in DOMAIN s : SyncKey(s[i]) # SyncKey(e)
    PROVE  Once(Append(s, e))
<1>1. DOMAIN Append(s, e) = (DOMAIN s) \cup {Len(s) + 1}
  OBVIOUS
<1>2. \A i \in DOMAIN s : Append(s, e)[i] = s[i]
  OBVIOUS
<1>3. Append(s, e)[Len(s) + 1] = e
  OBVIOUS
<1> QED
  BY <1>1, <1>2, <1>3 DEF Once

(* The elements of a sequence over S are in S. *)
LEMMA InRange ==
    ASSUME NEW S, NEW s \in Seq(S)
    PROVE  Range(s) \subseteq S
  BY DEF Range

(* Delete leaves exactly the cookies of other keys, and no key twice that was not there     *)
(* twice. Both facts are shown for the first n cookies, for a least n for which they would  *)
(* fail.                                                                                    *)
LEMMA DeleteKeeps ==
    ASSUME NEW S, NEW doc \in Seq(S), NEW keys
    PROVE  /\ Delete(doc, keys) \in Seq(S)
           /\ Range(Delete(doc, keys)) = {c \in Range(doc) : SyncKey(c) \notin keys}
           /\ Once(doc) => Once(Delete(doc, keys))
<1> DEFINE Step(f, n) == IF n = 0 THEN <<>>
                      ELSE IF SyncKey(doc[n]) \in keys THEN f[n - 1]
                      ELSE Append(f[n - 1], doc[n])
           IsLeft(f, m) == f = [n \in 0..m |-> Step(f, n)]
           left == CHOOSE f : f = [n \in 0..Len(doc) |-> IF n = 0 THEN <<>>
                      ELSE IF SyncKey(doc[n]) \in keys THEN f[n - 1]
                      ELSE Append(f[n - 1], doc[n])]
           Bad == {m \in 0..Len(doc) : ~ \E f : IsLeft(f, m)}
<1>0. Len(doc) \in Nat /\ \A n \in 1..Len(doc) : doc[n] \in S
  OBVIOUS
<1>1. Bad = {}
  <2> SUFFICES ASSUME Bad # {} PROVE FALSE
    OBVIOUS
  <2>1. PICK m \in Bad : \A k \in Bad : m <= k
    <3> HIDE DEF IsLeft
    <3> Bad \subseteq Nat
      BY <1>0
    <3> QED BY Least
  <2>2. m \in 0..Len(doc) /\ ~ \E f : IsLeft(f, m)
    OBVIOUS
  <2>3. CASE m = 0
    <3> DEFINE f == [n \in 0..0 |-> <<>>]
    <3>1. IsLeft(f, 0)
      OBVIOUS
    <3> QED BY <3>1, <2>2, <2>3
  <2>4. CASE m # 0
    <3>1. m - 1 \in 0..Len(doc) /\ m - 1 \notin Bad
      <4> HIDE DEF Bad
      <4> QED BY <2>4, <2>2, <2>1, <1>0
    <3>2. PICK f : IsLeft(f, m - 1)
      BY <3>1
    <3> DEFINE g == [n \in 0..m |-> IF n = m THEN Step(f, m) ELSE f[n]]
    <3>3. IsLeft(g, m)
      <4>1. \A n \in 0..m : Step(g, n) = g[n]
        <5> SUFFICES ASSUME NEW n \in 0..m PROVE Step(g, n) = g[n]
          OBVIOUS
        <5>1. n # 0 => g[n - 1] = f[n - 1]
          BY <2>2, <1>0
        <5>2. Step(g, n) = Step(f, n)
          BY <5>1
        <5>3. n # m => f[n] = Step(f, n)
          <6>1. n # m => n \in 0..(m - 1)
            BY <2>2, <1>0
          <6> QED BY <6>1, <3>2
        <5> QED BY <5>2, <5>3
      <4> QED BY <4>1
    <3> QED BY <3>3, <2>2
  <2> QED BY <2>3, <2>4
<1>2. left = [n \in 0..Len(doc) |-> Step(left, n)]
  <2>1. \E f : IsLeft(f, Len(doc))
    <3> HIDE DEF IsLeft
    <3> QED BY <1>1, <1>0
  <2> QED BY <2>1
<1>3. Delete(doc, keys) = left[Len(doc)]
  BY DEF Delete
<1> HIDE DEF left
<1> DEFINE Right(n) == /\ left[n] \in Seq(S)
                       /\ Range(left[n]) = {c \in {doc[i] : i \in 1..n} : SyncKey(c) \notin keys}
                       /\ Once(doc) => Once(left[n])
           Wrong == {n \in 0..Len(doc) : ~Right(n)}
<1>4. Wrong = {}
  <2> SUFFICES ASSUME Wrong # {} PROVE FALSE
    OBVIOUS
  <2>1. PICK m \in Wrong : \A k \in Wrong : m <= k
    <3> HIDE DEF Right
    <3> Wrong \subseteq Nat
      BY <1>0
    <3> QED BY Least
  <2>2. m \in 0..Len(doc) /\ ~Right(m)
    OBVIOUS
  <2>3. CASE m = 0
    <3>1. left[0] = <<>>
      BY <1>2, <1>0
    <3>2. Right(0)
      BY <3>1 DEF Range, Once
    <3> QED BY <3>2, <2>2, <2>3
  <2>4. CASE m # 0
    <3>1. m - 1 \in 0..Len(doc) /\ m - 1 \notin Wrong
      <4> HIDE DEF Wrong
      <4> QED BY <2>4, <2>2, <2>1, <1>0
    <3>2. Right(m - 1)
      BY <3>1
    <3>3. left[m] = IF SyncKey(doc[m]) \in keys THEN left[m - 1] ELSE Append(left[m - 1], doc[m])
      BY <1>2, <2>2, <2>4
    <3>4. {doc[i] : i \in 1..m} = {doc[i] : i \in 1..(m - 1)} \cup {doc[m]}
      BY <2>2, <2>4, <1>0
    <3>5. doc[m] \in S
      BY <2>2, <2>4, <1>0
    <3>6. Range(Append(left[m - 1], doc[m])) = Range(left[m - 1]) \cup {doc[m]}
      <4> HIDE DEF Right
      <4>1. left[m - 1] \in Seq(S)
        BY <3>2 DEF Right
      <4> QED BY <4>1, <3>5, AppendRange
    <3>7. CASE SyncKey(doc[m]) \in keys
      BY <3>2, <3>3, <3>4, <3>7, <2>2
    <3>8. CASE SyncKey(doc[m]) \notin keys
      <4>1. left[m] \in Seq(S)
        BY <3>2, <3>3, <3>5, <3>8
      <4>2. Range(left[m]) = {c \in {doc[i] : i \in 1..m} : SyncKey(c) \notin keys}
        BY <3>2, <3>3, <3>4, <3>6, <3>8
      <4>3. Once(doc) => Once(left[m])
        <5> SUFFICES ASSUME Once(doc) PROVE Once(Append(left[m - 1], doc[m]))
          BY <3>3, <3>8
        <5>1. \A i \in DOMAIN left[m - 1] : SyncKey(left[m - 1][i]) # SyncKey(doc[m])
          <6> SUFFICES ASSUME NEW i \in DOMAIN left[m - 1],
                              SyncKey(left[m - 1][i]) = SyncKey(doc[m])
                       PROVE  FALSE
            OBVIOUS
          <6>1. left[m - 1][i] \in {doc[j] : j \in 1..(m - 1)}
            BY <3>2 DEF Range
          <6>2. PICK j \in 1..(m - 1) : left[m - 1][i] = doc[j]
            BY <6>1
          <6>3. j \in DOMAIN doc /\ m \in DOMAIN doc /\ j # m
            BY <2>2, <2>4, <1>0
          <6> QED BY <6>2, <6>3 DEF Once
        <5>2. left[m - 1] \in Seq(S) /\ Once(left[m - 1])
          BY <3>2
        <5> QED BY <5>1, <5>2, <3>5, AppendOnce
      <4> QED BY <4>1, <4>2, <4>3, <2>2
    <3> QED BY <3>7, <3>8
  <2> QED BY <2>3, <2>4
<1> QED
  <2>1. Right(Len(doc))
    <3> HIDE DEF Right
    <3> QED BY <1>4, <1>0
  <2>2. {doc[i] : i \in 1..Len(doc)} = Range(doc)
    BY <1>0 DEF Range
  <2> QED BY <2>1, <2>2, <1>3

(* Put replaces the cookie of the same key, or adds the cookie. *)
LEMMA PutKeeps ==
    ASSUME NEW S, NEW doc \in Seq(S), NEW c \in S
    PROVE  /\ Put(doc, c) \in Seq(S)
           /\ Range(Put(doc, c)) = {d \in Range(doc) : SyncKey(d) # SyncKey(c)} \cup {c}
           /\ Once(doc) => Once(Put(doc, c))
<1>1. CASE \E i \in DOMAIN doc : SyncKey(doc[i]) = SyncKey(c)
  <2> DEFINE put == [i \in DOMAIN doc |-> IF SyncKey(doc[i]) = SyncKey(c) THEN c ELSE doc[i]]
  <2>1. Put(doc, c) = put
    BY <1>1 DEF Put
  <2>2. put \in Seq(S)
    <3>1. DOMAIN doc = 1..Len(doc) /\ Len(doc) \in Nat
      OBVIOUS
    <3>2. \A i \in 1..Len(doc) : put[i] \in S
      OBVIOUS
    <3> QED BY <3>1, <3>2
  <2>3. Range(put) = {d \in Range(doc) : SyncKey(d) # SyncKey(c)} \cup {c}
    BY <1>1 DEF Range
  <2>4. \A i \in DOMAIN put : SyncKey(put[i]) = SyncKey(doc[i])
    OBVIOUS
  <2>5. Once(doc) => Once(put)
    BY <2>4 DEF Once
  <2> QED BY <2>1, <2>2, <2>3, <2>5
<1>2. CASE \A i \in DOMAIN doc : SyncKey(doc[i]) # SyncKey(c)
  <2>1. Put(doc, c) = Append(doc, c)
    BY <1>2 DEF Put
  <2>2. {d \in Range(doc) : SyncKey(d) # SyncKey(c)} = Range(doc)
    BY <1>2 DEF Range
  <2> QED BY <2>1, <2>2, <1>2, AppendRange, AppendOnce
<1> QED
  BY <1>1, <1>2

(* The same for a document. *)
LEMMA PutCookie ==
    ASSUME NEW doc \in Seq(SyncCookies), NEW c \in SyncCookies, Once(doc),
           NEW put, put = Put(doc, c)
    PROVE  /\ put \in Seq(SyncCookies) /\ Once(put)
           /\ Range(put) = {d \in Range(doc) : SyncKey(d) # SyncKey(c)} \cup {c}
  BY PutKeeps

(* Of some cookies, one is newest: times are bounded. *)
LEMMA NewestExists ==
    ASSUME NEW D \in SUBSET SyncCookies, D # {}
    PROVE  \E m \in D : \A d \in D : d.time <= m.time
<1> DEFINE Left == {MaxTime - c.time : c \in D}
<1>1. \A c \in D : c.time \in 0..MaxTime
  BY DEF SyncCookies, Times
<1>2. MaxTime \in Nat
  BY BoundsAssumption
<1>3. Left \subseteq Nat /\ Left # {}
  BY <1>1, <1>2
<1>4. PICK x \in Left : \A y \in Left : x <= y
  <2> HIDE DEF Left
  <2> QED BY <1>3, Least
<1>5. PICK m \in D : x = MaxTime - m.time
  OBVIOUS
<1>6. \A d \in D : MaxTime - m.time <= MaxTime - d.time
  BY <1>4, <1>5
<1> QED
  BY <1>6, <1>1, <1>2

(* sortByOutdatedAndActual: a cookie newer than all others is the actual one... *)
LEMMA NewestIsActual ==
    ASSUME NEW doc \in Seq(SyncCookies), NEW m \in Range(doc),
           \A d \in Range(doc) : d # m => d.time < m.time
    PROVE  Actual(doc) = {m}
<1> DEFINE At == {i \in DOMAIN doc : doc[i] = m}
<1>1. DOMAIN doc = 1..Len(doc) /\ Len(doc) \in Nat /\ Range(doc) \subseteq SyncCookies
  BY InRange
<1>2. \A i \in DOMAIN doc : doc[i] \in Range(doc) /\ doc[i].time \in Nat
  BY <1>1 DEF Range, SyncCookies, Times
<1>3. \E i \in At : \A j \in At : j <= i
  <2> DEFINE Left == {Len(doc) - i : i \in At}
  <2>1. Left \subseteq Nat /\ Left # {}
    BY <1>1 DEF Range
  <2>2. PICK x \in Left : \A y \in Left : x <= y
    <3> HIDE DEF Left
    <3> QED BY <2>1, Least
  <2>3. PICK i \in At : x = Len(doc) - i
    OBVIOUS
  <2>4. \A j \in At : Len(doc) - i <= Len(doc) - j
    BY <2>2, <2>3
  <2> QED BY <2>4, <1>1
<1>4. PICK l \in At : \A j \in At : j <= l
  BY <1>3
<1>5. IsActual(doc, l)
  <2> SUFFICES ASSUME NEW j \in DOMAIN doc
               PROVE  doc[j].time < doc[l].time \/ (doc[j].time = doc[l].time /\ j <= l)
    BY DEF IsActual
  <2>1. CASE j \in At
    BY <2>1, <1>4
  <2>2. CASE j \notin At
    BY <2>2, <1>2
  <2> QED BY <2>1, <2>2
<1>6. ASSUME NEW i \in DOMAIN doc, IsActual(doc, i) PROVE doc[i] = m
  <2> SUFFICES ASSUME doc[i] # m PROVE FALSE
    OBVIOUS
  <2>1. doc[i].time < doc[l].time
    BY <1>2
  <2>2. doc[l].time < doc[i].time \/ doc[l].time = doc[i].time
    BY <1>6 DEF IsActual
  <2> QED BY <2>1, <2>2, <1>2
<1> QED
  BY <1>5, <1>6 DEF Actual

(* ... and all others are outdated. *)
LEMMA OthersAreOutdated ==
    ASSUME NEW doc \in Seq(SyncCookies), NEW m \in Range(doc), Once(doc),
           \A d \in Range(doc) : d # m => d.time < m.time
    PROVE  Outdated(doc) = Range(doc) \ {m}
<1>1. \A i \in DOMAIN doc : IsActual(doc, i) => doc[i] = m
  BY NewestIsActual DEF Actual
<1>2. m \in Actual(doc)
  BY NewestIsActual
<1>3. PICK l \in DOMAIN doc : IsActual(doc, l) /\ doc[l] = m
  BY <1>2 DEF Actual
<1>4. \A i \in DOMAIN doc : doc[i] = m => i = l
  BY <1>3 DEF Once
<1> QED
  BY <1>1, <1>3, <1>4 DEF Outdated, Range

-----------------------------------------------------------------------------
(* Pages.  What a call in a window does to a page. *)

LEMMA DocumentIsOfCookies ==
    ASSUME NEW p \in Pages
    PROVE  /\ p.doc \in Seq(SyncCookies) /\ InDoc(p) \subseteq SyncCookies
           /\ p.local \in [Windows -> Values \cup {NoValue}]
           /\ p.syncs \in Seq(Syncs) /\ p.toFrame \in [CrossDomain -> Seq(ToFrames)]
           /\ p.toTop \in [CrossDomain -> Seq(ToTops)]
  BY InRange DEF Pages, InDoc

(* A change of document.cookie, or of the windows' copies, changes nothing of the           *)
(* messages.                                                                                *)
LEMMA OnlyDocument ==
    ASSUME NEW T, NEW p, Within(p, T), NEW q \in Pages,
           q.syncs = p.syncs, q.toFrame = p.toFrame, q.toTop = p.toTop,
           Once(q.doc), \A c \in InDoc(q) : c.sync \in Kinds /\ c.time \in T
    PROVE  Within(q, T) /\ Syncing(q) = Syncing(p) /\ Asked(q) = Asked(p)
  BY DEF Within, Messages, Exchanging, Syncing, Asked, Asks

(* SetCookie changes the copy of w only. *)
LEMMA SetCookieIs ==
    ASSUME NEW T, NEW p, Within(p, T), NEW w \in Windows, NEW c \in SyncCookies,
           NEW q, q = SetCookie(p, w, c)
    PROVE  /\ Within(q, T)
           /\ q.local = [p.local EXCEPT ![w] = c.value]
           /\ q.doc = p.doc /\ q.syncs = p.syncs /\ q.toFrame = p.toFrame /\ q.toTop = p.toTop
<1>1. p \in Pages
  BY DEF Within
<1>2. q = [p EXCEPT !.local = [p.local EXCEPT ![w] = c.value]]
  BY <1>1 DEF SetCookie, Pages
<1>3. c.value \in Values
  BY DEF SyncCookies
<1>4. /\ q.local = [p.local EXCEPT ![w] = c.value]
      /\ q.doc = p.doc /\ q.syncs = p.syncs /\ q.toFrame = p.toFrame /\ q.toTop = p.toTop
  BY <1>1, <1>2 DEF Pages
<1>5. q.local \in [Windows -> Values \cup {NoValue}]
  BY <1>1, <1>3, <1>4 DEF Pages
<1>6. q \in Pages
  BY <1>1, <1>2, <1>5 DEF Pages
<1>7. Once(q.doc) /\ \A d \in InDoc(q) : d.sync \in Kinds /\ d.time \in T
  BY <1>4 DEF Within, InDoc
<1> QED
  BY <1>2, <1>4, <1>6, <1>7, OnlyDocument

(* syncWindowCookie sets the copies of the windows W, if the cookie is still in             *)
(* document.cookie.                                                                         *)
LEMMA SyncWindowCookieIs ==
    ASSUME NEW T, NEW p, Within(p, T), NEW W \in SUBSET Windows, NEW c \in SyncCookies,
           NEW q, q = SyncWindowCookie(p, W, c)
    PROVE  /\ Within(q, T)
           /\ c \in InDoc(p) => q.local = [w \in Windows |-> IF w \in W THEN c.value ELSE p.local[w]]
           /\ c \notin InDoc(p) => q = p
           /\ q.doc = p.doc /\ q.syncs = p.syncs /\ q.toFrame = p.toFrame /\ q.toTop = p.toTop
<1>1. p \in Pages
  BY DEF Within
<1>2. CASE c \in InDoc(p)
  <2> DEFINE local == [w \in Windows |-> IF w \in W THEN c.value ELSE p.local[w]]
  <2>1. q = [p EXCEPT !.local = local]
    BY <1>1, <1>2 DEF SyncWindowCookie, InDoc, Pages
  <2>2. local \in [Windows -> Values \cup {NoValue}]
    BY <1>1 DEF SyncCookies, Pages
  <2> HIDE DEF local
  <2>3. /\ q.local = local
        /\ q.doc = p.doc /\ q.syncs = p.syncs /\ q.toFrame = p.toFrame /\ q.toTop = p.toTop
    BY <1>1, <2>1 DEF Pages
  <2>4. q \in Pages
    BY <1>1, <2>1, <2>2 DEF Pages
  <2>5. Once(q.doc) /\ \A d \in InDoc(q) : d.sync \in Kinds /\ d.time \in T
    BY <2>3 DEF Within, InDoc
  <2>6. Within(q, T)
    BY <2>3, <2>4, <2>5, OnlyDocument
  <2> QED BY <2>3, <2>6, <1>2 DEF local
<1>3. CASE c \notin InDoc(p)
  BY <1>3 DEF SyncWindowCookie, InDoc
<1> QED
  BY <1>2, <1>3

(* The cookie c as the windows leave it for the proxy, and the cookies of D after its        *)
(* synchronisation.                                                                          *)
ForClient(c) == [c EXCEPT !.sync = @ \ {"window"}]
Removed(D, c) ==
    LET others == {d \in D : SyncKey(d) # SyncKey(c)} IN
    IF OfClient(c) /\ c \in D
    THEN {d \in others : SyncKey(d) # SyncKey(ForClient(c))} \cup {ForClient(c)}
    ELSE others

(* What is left of a cookie for the proxy is of the same time and value. *)
LEMMA ForClientIs ==
    ASSUME NEW c \in SyncCookies, c.sync \in WindowKinds, OfClient(c)
    PROVE  /\ ForClient(c) \in SyncCookies /\ ForClient(c).sync = {"client"}
           /\ ForClient(c).time = c.time /\ ForClient(c).value = c.value
<1>1. c.sync = {"client", "window"}
  BY DEF WindowKinds, OfClient
<1>2. c.sync \ {"window"} = {"client"}
  BY <1>1
<1> QED
  BY <1>2 DEF ForClient, SyncCookies

(* _removeSyncCookie changes document.cookie only, and to what Removed says. *)
LEMMA RemoveSyncCookieIs ==
    ASSUME NEW T, NEW p, Within(p, T), NEW c \in SyncCookies, c.sync \in WindowKinds, c.time \in T,
           NEW q, q = RemoveSyncCookie(p, c)
    PROVE  /\ Within(q, T)
           /\ InDoc(q) = Removed(InDoc(p), c)
           /\ q.local = p.local /\ q.syncs = p.syncs /\ q.toFrame = p.toFrame /\ q.toTop = p.toTop
<1> DEFINE removed == Delete(p.doc, {SyncKey(c)})
           doc == IF OfClient(c) /\ c \in InDoc(p) THEN Put(removed, ForClient(c)) ELSE removed
<1>1. p \in Pages /\ Once(p.doc) /\ p.doc \in Seq(SyncCookies)
  BY DEF Within, Pages
<1>2. q = [p EXCEPT !.doc = doc]
  BY <1>1 DEF RemoveSyncCookie, OfClient, InDoc, ForClient, Pages
<1>3. /\ removed \in Seq(SyncCookies) /\ Once(removed)
      /\ Range(removed) = {d \in InDoc(p) : SyncKey(d) # SyncKey(c)}
  BY <1>1, DeleteKeeps DEF InDoc
<1>4. doc \in Seq(SyncCookies) /\ Once(doc) /\ Range(doc) = Removed(InDoc(p), c)
  <2>1. CASE OfClient(c) /\ c \in InDoc(p)
    <3>1. doc = Put(removed, ForClient(c))
      BY <2>1
    <3>2. ForClient(c) \in SyncCookies
      BY <2>1, ForClientIs
    <3> HIDE DEF removed
    <3>3. /\ Put(removed, ForClient(c)) \in Seq(SyncCookies) /\ Once(Put(removed, ForClient(c)))
          /\ Range(Put(removed, ForClient(c))) =
                 {d \in Range(removed) : SyncKey(d) # SyncKey(ForClient(c))} \cup {ForClient(c)}
      BY <3>2, <1>3, PutCookie
    <3> HIDE DEF doc
    <3> QED BY <3>1, <3>3, <1>3, <2>1 DEF Removed
  <2>2. CASE ~(OfClient(c) /\ c \in InDoc(p))
    BY <2>2, <1>3 DEF Removed
  <2> QED BY <2>1, <2>2
<1> HIDE DEF doc
<1>5. /\ q.doc = doc
      /\ q.local = p.local /\ q.syncs = p.syncs /\ q.toFrame = p.toFrame /\ q.toTop = p.toTop
  BY <1>1, <1>2 DEF Pages
<1>6. q \in Pages
  BY <1>1, <1>2, <1>4 DEF Pages
<1>7. \A d \in InDoc(q) : d.sync \in Kinds /\ d.time \in T
  <2> SUFFICES ASSUME NEW d \in Removed(InDoc(p), c) PROVE d.sync \in Kinds /\ d.time \in T
    BY <1>4, <1>5 DEF InDoc
  <2>1. CASE d \in InDoc(p)
    BY <2>1 DEF Within
  <2>2. CASE d \notin InDoc(p)
    <3>1. OfClient(c) /\ d = ForClient(c)
      BY <2>2 DEF Removed
    <3> QED BY <3>1, ForClientIs DEF Kinds
  <2> QED BY <2>1, <2>2
<1> QED
  BY <1>4, <1>5, <1>6, <1>7, OnlyDocument DEF InDoc

(* q is p after a synchronisation of c with the windows `targets` has started. *)
Starts(p, q, c, targets) ==
    LET id == Len(p.syncs) + 1 IN
    /\ q.doc = p.doc /\ q.toTop = p.toTop
    /\ id \in Nat \ {NoId} /\ id \notin DOMAIN p.syncs
    /\ DOMAIN q.syncs = DOMAIN p.syncs \cup {id}
    /\ \A i \in DOMAIN p.syncs : q.syncs[i] = p.syncs[i]
    /\ q.syncs[id].cookie = c /\ q.syncs[id].waiting = targets

(* _sendSyncMessage starts one more synchronisation, with a message to each of its          *)
(* windows.                                                                                 *)
LEMMA SendSyncMessagesIs ==
    ASSUME NEW T, NEW p, Within(p, T), NEW targets, targets \subseteq CrossDomain,
           NEW c \in SyncCookies, c.sync \in WindowKinds, c.time \in T,
           NEW q, q = SendSyncMessages(p, targets, c)
    PROVE  /\ Within(q, T)
           /\ q.local = p.local /\ Starts(p, q, c, targets)
<1> DEFINE id == Len(p.syncs) + 1
           sync == [cookie |-> c, waiting |-> targets,
                    attempts |-> [x \in CrossDomain |-> IF x \in targets THEN 1 ELSE 0]]
           message == [id |-> id, cookie |-> c]
           syncs == Append(p.syncs, sync)
           toFrame == [x \in CrossDomain |-> IF x \in targets THEN Append(p.toFrame[x], message)
                                             ELSE p.toFrame[x]]
<1>1. p \in Pages /\ Once(p.doc) /\ Messages(p)
  BY DEF Within
<1>2. p.syncs \in Seq(Syncs) /\ p.toFrame \in [CrossDomain -> Seq(ToFrames)]
  BY <1>1 DEF Pages
<1>3. id \in Nat /\ id # 0
  BY <1>2
<1>4. sync \in Syncs
  <2>1. 1 \in 0..MaxAttempts /\ 0 \in 0..MaxAttempts
    BY BoundsAssumption
  <2> QED BY <2>1 DEF Syncs
<1>5. message \in ToFrames
  BY <1>3 DEF ToFrames
<1>6. q = [p EXCEPT !.syncs = syncs, !.toFrame = toFrame]
  BY <1>1 DEF SendSyncMessages, Pages
<1> HIDE DEF sync, message
<1>7. syncs \in Seq(Syncs) /\ toFrame \in [CrossDomain -> Seq(ToFrames)]
  BY <1>2, <1>4, <1>5
<1>8. /\ DOMAIN syncs = DOMAIN p.syncs \cup {id} /\ id \notin DOMAIN p.syncs
      /\ \A i \in DOMAIN p.syncs : syncs[i] = p.syncs[i]
      /\ syncs[id] = sync
  BY <1>2, <1>4
<1> HIDE DEF syncs
<1>9. /\ q.syncs = syncs /\ q.toFrame = toFrame
      /\ q.doc = p.doc /\ q.local = p.local /\ q.toTop = p.toTop
  BY <1>1, <1>6 DEF Pages
<1>10. q \in Pages
  <2> HIDE DEF toFrame
  <2> QED BY <1>1, <1>6, <1>7 DEF Pages
<1>11. sync.cookie = c /\ sync.waiting = targets /\ message.id = id /\ message.cookie = c
  BY DEF sync, message
<1>12. Messages(q)
  <2> SUFFICES ASSUME NEW x \in CrossDomain
               PROVE  /\ \A i \in DOMAIN toFrame[x] :
                          /\ toFrame[x][i].id \in DOMAIN syncs
                          /\ toFrame[x][i].cookie = syncs[toFrame[x][i].id].cookie
                      /\ \A i \in DOMAIN p.toTop[x] :
                          p.toTop[x][i].cmd = "done" => p.toTop[x][i].id \in DOMAIN syncs
    BY <1>9 DEF Messages
  <2>1. \A i \in DOMAIN p.toTop[x] :
           p.toTop[x][i].cmd = "done" => p.toTop[x][i].id \in DOMAIN syncs
    BY <1>1, <1>8 DEF Messages
  <2>2. \A i \in DOMAIN p.toFrame[x] :
           /\ p.toFrame[x][i].id \in DOMAIN syncs
           /\ p.toFrame[x][i].cookie = syncs[p.toFrame[x][i].id].cookie
    BY <1>1, <1>8 DEF Messages
  <2>3. CASE x \in targets
    <3>1. p.toFrame[x] \in Seq(ToFrames) /\ toFrame[x] = Append(p.toFrame[x], message)
      BY <1>2, <2>3
    <3>2. \A i \in DOMAIN toFrame[x] :
             \/ i \in DOMAIN p.toFrame[x] /\ toFrame[x][i] = p.toFrame[x][i]
             \/ toFrame[x][i] = message
      BY <3>1, <1>5
    <3> HIDE DEF toFrame
    <3> QED BY <2>1, <2>2, <3>2, <1>8, <1>11
  <2>4. CASE x \notin targets
    BY <2>4, <2>1, <2>2
  <2> QED BY <2>3, <2>4
<1>13. Syncing(q) = Syncing(p) \cup {c}
  BY <1>8, <1>9, <1>11 DEF Syncing
<1>14. Asked(q) = Asked(p) /\ InDoc(q) = InDoc(p)
  BY <1>9 DEF Asked, Asks, InDoc
<1>15. Within(q, T)
  <2>1. Once(q.doc) /\ \A d \in InDoc(q) : d.sync \in Kinds /\ d.time \in T
    BY <1>9 DEF Within, InDoc
  <2>2. \A d \in Exchanging(q) : d.sync \in WindowKinds /\ d.time \in T
    BY <1>13, <1>14 DEF Within, Exchanging
  <2> QED BY <1>10, <1>12, <2>1, <2>2 DEF Within
<1> QED
  BY <1>3, <1>8, <1>9, <1>11, <1>15 DEF NoId, Starts

(* The windows that the top window tells of a cookie that it has from a window, and those    *)
(* among them that it has to send messages to.                                               *)
Called(initiator) == (Iframes \ {initiator}) \cap SameDomain
Remote(initiator) == (Iframes \ {initiator}) \cap CrossDomain

(* syncBetweenWindows in the top window: it calls the windows it has access to, and then    *)
(* either is done or starts a synchronisation with the others.                              *)
LEMMA SyncFromTopIs ==
    ASSUME NEW T, NEW p, Within(p, T), NEW initiator \in Windows,
           NEW c \in SyncCookies, c.sync \in WindowKinds, c.time \in T,
           NEW q, q = SyncFromTop(p, c, initiator)
    PROVE  /\ Within(q, T)
           /\ q.toTop = p.toTop
           /\ c \in InDoc(p) => q.local = [w \in Windows |-> IF w \in Called(initiator) THEN c.value
                                                            ELSE p.local[w]]
           /\ c \notin InDoc(p) => q.local = p.local
           /\ Remote(initiator) = {} => InDoc(q) = Removed(InDoc(p), c) /\ q.syncs = p.syncs
           /\ Remote(initiator) # {} => Starts(p, q, c, Remote(initiator))
<1> DEFINE called == SyncWindowCookie(p, Called(initiator), c)
<1>1. Called(initiator) \in SUBSET Windows /\ Remote(initiator) \subseteq CrossDomain
  BY DEF Called, Remote, Windows, Iframes
<1>2. q = IF Remote(initiator) = {} THEN RemoveSyncCookie(called, c)
          ELSE SendSyncMessages(called, Remote(initiator), c)
  BY DEF SyncFromTop, Called, Remote
<1> HIDE DEF called
<1>3. called = SyncWindowCookie(p, Called(initiator), c)
  BY DEF called
<1>4. /\ Within(called, T)
      /\ c \in InDoc(p) => called.local = [w \in Windows |-> IF w \in Called(initiator) THEN c.value
                                                             ELSE p.local[w]]
      /\ c \notin InDoc(p) => called = p
      /\ called.doc = p.doc /\ called.syncs = p.syncs /\ called.toTop = p.toTop
  BY <1>1, <1>3, SyncWindowCookieIs
<1>5. InDoc(called) = InDoc(p) /\ Within(called, T)
  BY <1>4 DEF InDoc
<1>6. CASE Remote(initiator) = {}
  <2>1. q = RemoveSyncCookie(called, c)
    BY <1>2, <1>6
  <2>2. /\ Within(q, T) /\ InDoc(q) = Removed(InDoc(called), c)
        /\ q.local = called.local /\ q.syncs = called.syncs /\ q.toTop = called.toTop
    BY <2>1, <1>5, RemoveSyncCookieIs
  <2> QED BY <2>2, <1>4, <1>5, <1>6
<1>7. CASE Remote(initiator) # {}
  <2>1. q = SendSyncMessages(called, Remote(initiator), c)
    BY <1>2, <1>7
  <2>2. Within(q, T) /\ q.local = called.local /\ Starts(called, q, c, Remote(initiator))
    BY <2>1, <1>5, <1>1, SendSyncMessagesIs
  <2>3. Starts(p, q, c, Remote(initiator)) /\ q.toTop = p.toTop
    BY <2>2, <1>4 DEF Starts
  <2> QED BY <2>2, <2>3, <1>4, <1>7
<1> QED
  BY <1>6, <1>7

-----------------------------------------------------------------------------
(* Synchronisations *)

(* An iframe waits for the top window to tell of c, and nobody else does. *)
AskedFor(p, c) ==
    /\ c \notin Syncing(p)
    /\ \E x \in CrossDomain, i \in Places :
        /\ Asks(p, x, i, c) /\ p.local[x] = c.value
        /\ \A y \in CrossDomain, j \in Places : Asks(p, y, j, c) => y = x /\ j = i

(* The top window waits for windows that may not know c, in one synchronisation. *)
SyncedIn(p, c, id) ==
    /\ id \in DOMAIN p.syncs /\ p.syncs[id].cookie = c /\ p.syncs[id].waiting # {}
    /\ \A i \in DOMAIN p.syncs : p.syncs[i].cookie = c => i = id
    /\ \A w \in Windows : p.local[w] = c.value \/ w \in p.syncs[id].waiting
    /\ \A x \in CrossDomain : \A i \in DOMAIN p.toTop[x] :
        p.toTop[x][i].id = id => p.local[x] = c.value
SyncedBy(p, c) ==
    /\ c \notin Asked(p)
    /\ \E id \in DOMAIN p.syncs : SyncedIn(p, c, id)

Telling(p, c) == AskedFor(p, c) \/ SyncedBy(p, c)

(* q is p after a window has told of c. *)
Spread(p, q, c) ==
    \/ /\ Telling(q, c) /\ q.doc = p.doc
       /\ Exchanging(q) \subseteq Exchanging(p) \cup {c}
    \/ /\ \A w \in Windows : q.local[w] = c.value
       /\ InDoc(q) = Removed(InDoc(p), c)
       /\ Exchanging(q) \subseteq Exchanging(p)

(* A synchronisation that starts is one more cookie that windows exchange. *)
LEMMA StartsExchanging ==
    ASSUME NEW p, NEW q, NEW c, NEW targets, Starts(p, q, c, targets)
    PROVE  Syncing(q) = Syncing(p) \cup {c} /\ Asked(q) = Asked(p) /\ InDoc(q) = InDoc(p)
  BY DEF Starts, Syncing, Asked, Asks, InDoc

(* A message to the top window is the end of a synchronisation or asks for one. *)
LEMMA MessagesAreOfSyncs ==
    ASSUME NEW T, NEW p, Within(p, T), NEW x \in CrossDomain, NEW i \in DOMAIN p.toTop[x]
    PROVE  \/ /\ p.toTop[x][i].cmd = "done" /\ p.toTop[x][i].cookie = {}
              /\ p.toTop[x][i].id \in DOMAIN p.syncs
           \/ /\ p.toTop[x][i].cmd = "start" /\ p.toTop[x][i].id = NoId
              /\ \E c \in SyncCookies : p.toTop[x][i].cookie = {c}
<1>1. p.toTop[x] \in Seq(ToTops)
  BY DEF Within, Pages
<1>2. p.toTop[x][i] \in ToTops
  BY <1>1
<1>3. p.toTop[x][i].cmd = "done" => p.toTop[x][i].id \in DOMAIN p.syncs
  BY DEF Within, Messages
<1> QED
  BY <1>2, <1>3 DEF ToTops

(* The top window tells of a new cookie of document.cookie, that it and the initiator       *)
(* know: in the end all windows know it, or it waits for those that do not.                 *)
LEMMA FromTopSpreads ==
    ASSUME NEW T, NEW p, Within(p, T), NEW initiator \in Windows,
           NEW c \in InDoc(p), c.sync \in WindowKinds, c \notin Exchanging(p),
           p.local[Top] = c.value, p.local[initiator] = c.value,
           NEW q, q = SyncFromTop(p, c, initiator)
    PROVE  Within(q, T) /\ Spread(p, q, c)
<1>1. c \in SyncCookies /\ c.time \in T
  BY DocumentIsOfCookies DEF Within
<1>2. /\ Within(q, T) /\ q.toTop = p.toTop
      /\ q.local = [w \in Windows |-> IF w \in Called(initiator) THEN c.value ELSE p.local[w]]
      /\ Remote(initiator) = {} => InDoc(q) = Removed(InDoc(p), c) /\ q.syncs = p.syncs
      /\ Remote(initiator) # {} => Starts(p, q, c, Remote(initiator))
  BY <1>1, SyncFromTopIs
<1>3. \A w \in Windows : w \in Remote(initiator) \/ q.local[w] = c.value
  <2>1. \A w \in Windows : w \in Remote(initiator) \/ w \in Called(initiator) \/ w \in {Top, initiator}
    BY DEF Windows, Iframes, Remote, Called
  <2> QED BY <1>2, <2>1
<1>4. CASE Remote(initiator) = {}
  BY <1>2, <1>3, <1>4 DEF Spread, Exchanging, Syncing, Asked, Asks
<1>5. CASE Remote(initiator) # {}
  <2> DEFINE id == Len(p.syncs) + 1
  <2>1. Starts(p, q, c, Remote(initiator))
    BY <1>2, <1>5
  <2>2. Syncing(q) = Syncing(p) \cup {c} /\ Asked(q) = Asked(p)
    BY <2>1, StartsExchanging
  <2>3. /\ id \in DOMAIN q.syncs /\ id # NoId /\ id \notin DOMAIN p.syncs
        /\ q.syncs[id].cookie = c /\ q.syncs[id].waiting = Remote(initiator)
        /\ \A i \in DOMAIN q.syncs : i # id => i \in DOMAIN p.syncs /\ q.syncs[i] = p.syncs[i]
    BY <2>1 DEF Starts
  <2> HIDE DEF id
  <2>4. \A i \in DOMAIN q.syncs : q.syncs[i].cookie = c => i = id
    BY <2>3 DEF Exchanging, Syncing
  <2>5. \A x \in CrossDomain : \A i \in DOMAIN q.toTop[x] : q.toTop[x][i].id # id
    BY <1>2, <2>3, MessagesAreOfSyncs
  <2>6. SyncedIn(q, c, id)
    BY <1>3, <1>5, <2>3, <2>4, <2>5 DEF SyncedIn
  <2>7. Telling(q, c)
    BY <2>2, <2>3, <2>6 DEF Telling, SyncedBy, Exchanging
  <2> QED BY <1>2, <2>1, <2>2, <2>7 DEF Spread, Exchanging, Starts
<1> QED
  BY <1>4, <1>5

(* q is p after x has asked the top window to tell of c. *)
AsksTop(p, q, x, c) ==
    LET last == Len(p.toTop[x]) + 1 IN
    /\ q.doc = p.doc /\ q.local = p.local /\ q.syncs = p.syncs
    /\ last \in Places /\ Asks(q, x, last, c)
    /\ \A d : \A y \in CrossDomain, j \in Places :
        Asks(q, y, j, d) => Asks(p, y, j, d) \/ (d = c /\ y = x /\ j = last)
    /\ Exchanging(q) = Exchanging(p) \cup {c}

(* An iframe without access to the top window asks it by a message. *)
LEMMA AsksStart ==
    ASSUME NEW T, NEW p, Within(p, T), NEW x \in CrossDomain,
           NEW c \in SyncCookies, c.sync \in WindowKinds, c.time \in T,
           NEW q, q = [p EXCEPT !.toTop[x] = Append(@, [cmd |-> "start", id |-> NoId, cookie |-> {c}])]
    PROVE  Within(q, T) /\ AsksTop(p, q, x, c)
<1> DEFINE message == [cmd |-> "start", id |-> NoId, cookie |-> {c}]
           toTop == [p.toTop EXCEPT ![x] = Append(p.toTop[x], message)]
           last == Len(p.toTop[x]) + 1
<1>1. p \in Pages /\ p.toTop \in [CrossDomain -> Seq(ToTops)] /\ p.toTop[x] \in Seq(ToTops)
  BY DEF Within, Pages
<1>2. message \in ToTops
  BY DEF ToTops
<1>3. q = [p EXCEPT !.toTop = toTop]
  BY <1>1 DEF Pages
<1>4. message.cookie = {c} /\ message.cmd = "start"
  OBVIOUS
<1> HIDE DEF message
<1>5. toTop \in [CrossDomain -> Seq(ToTops)]
  BY <1>1, <1>2
<1>6. /\ \A y \in CrossDomain : y # x => toTop[y] = p.toTop[y]
      /\ DOMAIN toTop[x] = DOMAIN p.toTop[x] \cup {last} /\ last \notin DOMAIN p.toTop[x]
      /\ \A i \in DOMAIN p.toTop[x] : toTop[x][i] = p.toTop[x][i]
      /\ toTop[x][last] = message /\ last \in Places
  BY <1>1, <1>2 DEF Places
<1> HIDE DEF toTop
<1>7. /\ q.toTop = toTop
      /\ q.doc = p.doc /\ q.local = p.local /\ q.syncs = p.syncs /\ q.toFrame = p.toFrame
  BY <1>1, <1>3 DEF Pages
<1>8. q \in Pages
  BY <1>1, <1>3, <1>5 DEF Pages
<1>9. Messages(q)
  <2> SUFFICES ASSUME NEW y \in CrossDomain
               PROVE  /\ \A i \in DOMAIN p.toFrame[y] :
                          /\ p.toFrame[y][i].id \in DOMAIN p.syncs
                          /\ p.toFrame[y][i].cookie = p.syncs[p.toFrame[y][i].id].cookie
                      /\ \A i \in DOMAIN toTop[y] :
                          toTop[y][i].cmd = "done" => toTop[y][i].id \in DOMAIN p.syncs
    BY <1>7 DEF Messages
  <2>1. \A i \in DOMAIN p.toFrame[y] :
           /\ p.toFrame[y][i].id \in DOMAIN p.syncs
           /\ p.toFrame[y][i].cookie = p.syncs[p.toFrame[y][i].id].cookie
    BY DEF Within, Messages
  <2>2. \A i \in DOMAIN p.toTop[y] : p.toTop[y][i].cmd = "done" => p.toTop[y][i].id \in DOMAIN p.syncs
    BY DEF Within, Messages
  <2> QED BY <2>1, <2>2, <1>4, <1>6
<1>10. /\ Asks(q, x, last, c)
       /\ \A d : \A y \in CrossDomain, j \in Places :
             Asks(q, y, j, d) => Asks(p, y, j, d) \/ (d = c /\ y = x /\ j = last)
       /\ \A d : \A y \in CrossDomain, j \in Places : Asks(p, y, j, d) => Asks(q, y, j, d)
  <2>1. Asks(q, x, last, c)
    BY <1>4, <1>6, <1>7 DEF Asks
  <2>2. ASSUME NEW d, NEW y \in CrossDomain, NEW j \in Places
        PROVE  /\ Asks(q, y, j, d) => Asks(p, y, j, d) \/ (d = c /\ y = x /\ j = last)
               /\ Asks(p, y, j, d) => Asks(q, y, j, d)
    <3>1. CASE y # x
      BY <3>1, <1>6, <1>7 DEF Asks
    <3>2. CASE y = x
      BY <3>2, <1>4, <1>6, <1>7 DEF Asks
    <3> QED BY <3>1, <3>2
  <2> QED BY <2>1, <2>2
<1>11. Asked(q) = Asked(p) \cup {c}
  <2>1. last \in Places
    BY <1>6
  <2>2. c \in Asked(q)
    BY <2>1, <1>10 DEF Asked
  <2>3. Asked(p) \subseteq Asked(q)
    BY <1>10 DEF Asked
  <2>4. Asked(q) \subseteq Asked(p) \cup {c}
    BY <1>10 DEF Asked
  <2> QED BY <2>2, <2>3, <2>4
<1>12. Syncing(q) = Syncing(p) /\ InDoc(q) = InDoc(p)
  BY <1>7 DEF Syncing, InDoc
<1>13. Within(q, T)
  <2>1. Once(q.doc) /\ \A d \in InDoc(q) : d.sync \in Kinds /\ d.time \in T
    BY <1>7, <1>12 DEF Within
  <2>2. \A d \in Exchanging(q) : d.sync \in WindowKinds /\ d.time \in T
    BY <1>11, <1>12 DEF Within, Exchanging
  <2> QED BY <1>8, <1>9, <2>1, <2>2 DEF Within
<1> QED
  BY <1>6, <1>7, <1>10, <1>11, <1>12, <1>13 DEF Exchanging, AsksTop

(* syncBetweenWindows tells of a new cookie of document.cookie, whichever window it starts  *)
(* in.                                                                                      *)
LEMMA BetweenWindowsSpreads ==
    ASSUME NEW T, NEW p, Within(p, T), NEW w \in Windows,
           NEW c \in InDoc(p), c.sync \in WindowKinds, c \notin Exchanging(p), p.local[w] = c.value,
           NEW q, q = SyncBetweenWindows(p, w, c)
    PROVE  Within(q, T) /\ Spread(p, q, c)
<1>1. c \in SyncCookies /\ c.time \in T
  BY DocumentIsOfCookies DEF Within
<1>2. Top \notin SameDomain /\ Top \notin CrossDomain /\ SameDomain \cap CrossDomain = {}
  BY WindowsAssumption DEF Iframes
<1>3. CASE w = Top
  <2>1. q = SyncFromTop(p, c, Top)
    BY <1>2, <1>3 DEF SyncBetweenWindows
  <2> QED BY <2>1, <1>3, FromTopSpreads
<1>4. CASE w \in SameDomain
  <2> DEFINE r == SyncWindowCookie(p, {Top}, c)
  <2>1. q = SyncFromTop(r, c, w)
    BY <1>2, <1>4 DEF SyncBetweenWindows
  <2>2. {Top} \in SUBSET Windows
    BY DEF Windows
  <2>3. /\ Within(r, T)
        /\ r.local = [v \in Windows |-> IF v \in {Top} THEN c.value ELSE p.local[v]]
        /\ r.doc = p.doc /\ r.syncs = p.syncs /\ r.toTop = p.toTop
    BY <2>2, <1>1, SyncWindowCookieIs
  <2> HIDE DEF r
  <2>4. InDoc(r) = InDoc(p) /\ Exchanging(r) = Exchanging(p)
    BY <2>3 DEF InDoc, Exchanging, Syncing, Asked, Asks
  <2>5. r.local[Top] = c.value /\ r.local[w] = c.value
    BY <2>3, <2>2, <1>4 DEF Windows
  <2>6. Within(q, T) /\ Spread(r, q, c)
    BY <2>1, <2>3, <2>4, <2>5, FromTopSpreads
  <2> QED BY <2>3, <2>4, <2>6 DEF Spread
<1>5. CASE w \in CrossDomain
  <2>1. q = [p EXCEPT !.toTop[w] = Append(@, [cmd |-> "start", id |-> NoId, cookie |-> {c}])]
    BY <1>2, <1>5 DEF SyncBetweenWindows
  <2>2. Within(q, T) /\ AsksTop(p, q, w, c)
    BY <2>1, <1>1, <1>5, AsksStart
  <2>3. \A y \in CrossDomain, j \in Places : ~Asks(p, y, j, c)
    BY <1>1 DEF Exchanging, Asked
  <2>4. c \notin Syncing(q)
    BY <2>2 DEF AsksTop, Exchanging, Syncing
  <2>6. AskedFor(q, c)
    BY <2>2, <2>3, <2>4, <1>5 DEF AskedFor, AsksTop
  <2> QED BY <2>2, <2>6 DEF Spread, Telling, AsksTop
<1> QED
  BY <1>3, <1>4, <1>5 DEF Windows, Iframes

(* Whichever cookie it is called with, it keeps a page sound. *)
LEMMA BetweenWindowsWithin ==
    ASSUME NEW T, NEW p, Within(p, T), NEW w \in Windows,
           NEW c \in SyncCookies, c.sync \in WindowKinds, c.time \in T,
           NEW q, q = SyncBetweenWindows(p, w, c)
    PROVE  Within(q, T)
<1>1. Top \notin SameDomain /\ Top \notin CrossDomain /\ SameDomain \cap CrossDomain = {}
  BY WindowsAssumption DEF Iframes
<1>2. CASE w = Top
  <2>1. q = SyncFromTop(p, c, Top)
    BY <1>1, <1>2 DEF SyncBetweenWindows
  <2> QED BY <2>1, <1>2, SyncFromTopIs
<1>3. CASE w \in SameDomain
  <2> DEFINE r == SyncWindowCookie(p, {Top}, c)
  <2>1. q = SyncFromTop(r, c, w)
    BY <1>1, <1>3 DEF SyncBetweenWindows
  <2>2. {Top} \in SUBSET Windows
    BY DEF Windows
  <2>3. Within(r, T)
    BY <2>2, SyncWindowCookieIs
  <2> HIDE DEF r
  <2> QED BY <2>1, <2>3, SyncFromTopIs
<1>4. CASE w \in CrossDomain
  <2>1. q = [p EXCEPT !.toTop[w] = Append(@, [cmd |-> "start", id |-> NoId, cookie |-> {c}])]
    BY <1>1, <1>4 DEF SyncBetweenWindows
  <2> QED BY <2>1, <1>4, AsksStart
<1> QED
  BY <1>2, <1>3, <1>4 DEF Windows, Iframes

(* What becomes of a cookie of the server, and of a page when w reads it. *)
ToWindows(c) == [c EXCEPT !.sync = (@ \ {"server"}) \cup {"window"}]
Reads(p, r, w, c) ==
    /\ InDoc(r) = {d \in InDoc(p) : SyncKey(d) # SyncKey(c) /\ SyncKey(d) # SyncKey(ToWindows(c))}
                  \cup {ToWindows(c)}
    /\ r.local = [p.local EXCEPT ![w] = c.value]
    /\ r.syncs = p.syncs /\ r.toTop = p.toTop

SpreadsRead(T, p, q, w, c) ==
    \E r : Within(r, T) /\ Reads(p, r, w, c) /\ q = SyncBetweenWindows(r, w, ToWindows(c))

(* A cookie of the server is for windows after it was read, with the same time and value. *)
LEMMA ToWindowsIs ==
    ASSUME NEW c \in SyncCookies, c.sync \in Kinds
    PROVE  /\ ToWindows(c) \in SyncCookies /\ ToWindows(c).sync \in WindowKinds
           /\ ToWindows(c).time = c.time /\ ToWindows(c).value = c.value
           /\ OfServer(c) => ToWindows(c).sync = {"window"} /\ c.sync = {"server"}
<1> DEFINE sync == (c.sync \ {"server"}) \cup {"window"}
<1>1. sync \in WindowKinds /\ (OfServer(c) => sync = {"window"} /\ c.sync = {"server"})
  BY DEF Kinds, WindowKinds, OfServer
<1>2. sync \in SUBSET {"server", "client", "window"}
  BY DEF SyncCookies
<1>3. ToWindows(c) = [c EXCEPT !.sync = sync]
  BY DEF ToWindows, SyncCookies
<1> HIDE DEF sync
<1> QED
  BY <1>1, <1>2, <1>3 DEF SyncCookies

(* _syncServerCookie sets the copy of w, replaces the cookie and tells the others. *)
LEMMA SyncServerCookieIs ==
    ASSUME NEW T, NEW p, Within(p, T), NEW w \in Windows, NEW c \in InDoc(p),
           NEW q, q = SyncServerCookie(p, w, c)
    PROVE  SpreadsRead(T, p, q, w, c)
<1> DEFINE fw == ToWindows(c)
           set == SetCookie(p, w, c)
           left == Delete(set.doc, {SyncKey(c)})
           doc == Put(left, fw)
           r == [set EXCEPT !.doc = doc]
<1>1. c \in SyncCookies /\ c.sync \in Kinds /\ c.time \in T
  BY DocumentIsOfCookies DEF Within
<1>2. fw \in SyncCookies /\ fw.sync \in WindowKinds /\ fw.time \in T
  BY <1>1, ToWindowsIs
<1>3. /\ Within(set, T) /\ set.local = [p.local EXCEPT ![w] = c.value]
      /\ set.doc = p.doc /\ set.syncs = p.syncs /\ set.toTop = p.toTop
  BY <1>1, SetCookieIs
<1>4. q = SyncBetweenWindows(r, w, fw)
  <2>1. set \in Pages
    BY <1>3 DEF Within
  <2> QED BY <2>1 DEF SyncServerCookie, ToWindows
<1> HIDE DEF set, fw
<1>5. set \in Pages /\ set.doc \in Seq(SyncCookies) /\ Once(set.doc)
  BY <1>3 DEF Within, Pages
<1>6. /\ left \in Seq(SyncCookies) /\ Once(left)
      /\ Range(left) = {d \in InDoc(p) : SyncKey(d) \notin {SyncKey(c)}}
  BY <1>3, <1>5, DeleteKeeps DEF InDoc
<1> HIDE DEF left
<1>7. /\ doc \in Seq(SyncCookies) /\ Once(doc)
      /\ Range(doc) = {d \in Range(left) : SyncKey(d) # SyncKey(fw)} \cup {fw}
  BY <1>2, <1>6, PutCookie
<1> HIDE DEF doc
<1>8. /\ r \in Pages /\ r.doc = doc /\ r.local = set.local
      /\ r.syncs = set.syncs /\ r.toFrame = set.toFrame /\ r.toTop = set.toTop
  BY <1>5, <1>7 DEF Pages
<1> HIDE DEF r
<1>9. \A d \in InDoc(r) : d.sync \in Kinds /\ d.time \in T
  <2>1. \A d \in InDoc(r) : d \in InDoc(p) \/ d = fw
    BY <1>6, <1>7, <1>8 DEF InDoc
  <2> QED BY <2>1, <1>2 DEF Within, Kinds
<1>10. Within(r, T)
  BY <1>3, <1>7, <1>8, <1>9, OnlyDocument
<1>11. Reads(p, r, w, c)
  BY <1>3, <1>6, <1>7, <1>8 DEF Reads, InDoc, fw
<1> QED
  BY <1>4, <1>10, <1>11 DEF fw, SpreadsRead

(* What of a page is left when w synchronises its cookie, before the actual one is applied.  *)
Cleaned(p) == [p EXCEPT !.doc = Delete(@, KeysOf(Outdated(@)))]

(* What syncCookie does first changes document.cookie only. *)
LEMMA CleanedIs ==
    ASSUME NEW T, NEW p, Within(p, T), NEW q, q = Cleaned(p)
    PROVE  /\ Within(q, T)
           /\ InDoc(q) = {c \in InDoc(p) : SyncKey(c) \notin KeysOf(Outdated(p.doc))}
           /\ q.local = p.local /\ q.syncs = p.syncs /\ q.toFrame = p.toFrame /\ q.toTop = p.toTop
<1> DEFINE doc == Delete(p.doc, KeysOf(Outdated(p.doc)))
<1>1. p \in Pages /\ p.doc \in Seq(SyncCookies) /\ Once(p.doc)
  BY DEF Within, Pages
<1>2. /\ doc \in Seq(SyncCookies) /\ Once(doc)
      /\ Range(doc) = {c \in InDoc(p) : SyncKey(c) \notin KeysOf(Outdated(p.doc))}
  BY <1>1, DeleteKeeps DEF InDoc
<1>3. q = [p EXCEPT !.doc = doc]
  BY DEF Cleaned
<1> HIDE DEF doc
<1>4. /\ q \in Pages /\ q.doc = doc /\ q.local = p.local
      /\ q.syncs = p.syncs /\ q.toFrame = p.toFrame /\ q.toTop = p.toTop
  BY <1>1, <1>2, <1>3 DEF Pages
<1>5. \A c \in InDoc(q) : c.sync \in Kinds /\ c.time \in T
  BY <1>2, <1>4 DEF Within, InDoc
<1> QED
  BY <1>2, <1>4, <1>5, OnlyDocument DEF InDoc

(* An actual cookie is one of document.cookie. *)
LEMMA ActualIsInDoc ==
    ASSUME NEW p, NEW c \in Actual(p.doc)
    PROVE  (CHOOSE d \in Actual(p.doc) : TRUE) \in InDoc(p)
<1>1. (CHOOSE d \in Actual(p.doc) : TRUE) \in Actual(p.doc)
  OBVIOUS
<1> QED
  BY <1>1 DEF Actual, InDoc, Range

(* syncCookie keeps a page sound. *)
LEMMA SyncCookieWithin ==
    ASSUME NEW T, NEW p, Within(p, T), NEW w \in Windows, NEW q, q = SyncCookie(p, w)
    PROVE  Within(q, T)
<1> DEFINE r == Cleaned(p)
           c == CHOOSE d \in Actual(r.doc) : TRUE
<1>1. q = ApplyActual(r, w) /\ Within(r, T)
  BY CleanedIs DEF SyncCookie, Cleaned
<1> HIDE DEF r
<1>2. CASE \E d \in Actual(r.doc) : "server" \in d.sync
  <2>1. q = SyncServerCookie(r, w, c) /\ c \in InDoc(r)
    BY <1>1, <1>2, ActualIsInDoc DEF ApplyActual
  <2> HIDE DEF c
  <2>2. PICK s : Within(s, T) /\ Reads(r, s, w, c) /\ q = SyncBetweenWindows(s, w, ToWindows(c))
    <3>1. SpreadsRead(T, r, q, w, c)
      BY <2>1, <1>1, SyncServerCookieIs
    <3> QED BY <3>1 DEF SpreadsRead
  <2>3. c \in SyncCookies /\ c.sync \in Kinds /\ c.time \in T
    BY <2>1, <1>1, DocumentIsOfCookies DEF Within
  <2>4. ToWindows(c) \in SyncCookies /\ ToWindows(c).sync \in WindowKinds /\ ToWindows(c).time \in T
    BY <2>3, ToWindowsIs
  <2> QED BY <2>2, <2>4, BetweenWindowsWithin
<1>3. CASE /\ ~ \E d \in Actual(r.doc) : "server" \in d.sync
           /\ \E d \in Actual(r.doc) : "window" \in d.sync
  <2>1. q = SetCookie(r, w, c) /\ c \in InDoc(r)
    BY <1>1, <1>3, ActualIsInDoc DEF ApplyActual
  <2> HIDE DEF c
  <2>2. c \in SyncCookies
    BY <2>1, <1>1, DocumentIsOfCookies DEF Within
  <2> QED BY <2>1, <2>2, <1>1, SetCookieIs
<1>4. CASE /\ ~ \E d \in Actual(r.doc) : "server" \in d.sync
           /\ ~ \E d \in Actual(r.doc) : "window" \in d.sync
  BY <1>1, <1>4 DEF ApplyActual
<1> QED
  BY <1>2, <1>3, <1>4

(* The times of a document's cookies tell them apart. *)
Distinct(D)  == \A c, d \in D : c.time = d.time => c = d
Newest(D, m) == m \in D /\ \A d \in D : d # m => d.time < m.time

(* Of cookies with different times, one is newer than all others. *)
LEMMA NewestOfDistinct ==
    ASSUME NEW D \in SUBSET SyncCookies, Distinct(D), D # {}
    PROVE  \E m \in D : Newest(D, m)
<1>1. PICK m \in D : \A d \in D : d.time <= m.time
  BY NewestExists
<1>2. \A d \in D : d.time \in Nat
  BY DEF SyncCookies, Times
<1> QED
  BY <1>1, <1>2 DEF Newest, Distinct

(* q is p after w has synchronised its cookie, before others are told. *)
SameMessages(p, q) == q.syncs = p.syncs /\ q.toTop = p.toTop
Applies(p, q, w, m) ==
    /\ Newest(InDoc(p), m) /\ ~OfServer(m) /\ InDoc(q) = {m} /\ SameMessages(p, q)
    /\ q.local = IF ForWindows(m) THEN [p.local EXCEPT ![w] = m.value] ELSE p.local
ReadsNewest(T, p, r, w, m) ==
    /\ Newest(InDoc(p), m) /\ OfServer(m) /\ Within(r, T)
    /\ InDoc(r) = {ToWindows(m)} /\ SameMessages(p, r)
    /\ r.local = [p.local EXCEPT ![w] = m.value]
SyncsCookie(T, p, q, w) ==
    \/ InDoc(p) = {} /\ InDoc(q) = {} /\ q.local = p.local /\ SameMessages(p, q)
    \/ \E m : Applies(p, q, w, m)
    \/ \E m, r : ReadsNewest(T, p, r, w, m) /\ q = SyncBetweenWindows(r, w, ToWindows(m))

(* syncCookie when times tell cookies apart: only the newest is left; it is applied and     *)
(* told of if the server set it, applied if it is for windows, and left alone otherwise.    *)
LEMMA SyncCookieIs ==
    ASSUME NEW T, NEW p, Within(p, T), Distinct(InDoc(p)), NEW w \in Windows,
           NEW q, q = SyncCookie(p, w)
    PROVE  SyncsCookie(T, p, q, w)
<1> DEFINE r == Cleaned(p)
           D == InDoc(p)
<1>1. /\ Within(r, T) /\ r.local = p.local /\ SameMessages(p, r)
      /\ InDoc(r) = {c \in D : SyncKey(c) \notin KeysOf(Outdated(p.doc))}
  BY CleanedIs DEF SameMessages
<1>2. q = ApplyActual(r, w)
  BY DEF SyncCookie, Cleaned
<1>3. p.doc \in Seq(SyncCookies) /\ Once(p.doc) /\ D \in SUBSET SyncCookies
  BY DocumentIsOfCookies DEF Within
<1>4. r.doc \in Seq(SyncCookies)
  BY <1>1 DEF Within, Pages
<1> HIDE DEF r
<1>5. CASE D = {}
  <2>1. InDoc(r) = {}
    BY <1>1, <1>5
  <2>2. Actual(r.doc) = {}
    BY <2>1 DEF Actual, InDoc, Range
  <2>3. q = r
    BY <1>2, <2>2 DEF ApplyActual
  <2> QED BY <1>1, <1>5, <2>1, <2>3 DEF SyncsCookie
<1>6. CASE D # {}
  <2>1. PICK m \in D : Newest(D, m)
    BY <1>3, <1>6, NewestOfDistinct
  <2>2. Outdated(p.doc) = D \ {m}
    BY <1>3, <2>1, OthersAreOutdated DEF Newest, InDoc
  <2>3. \A d \in D : SyncKey(d) = SyncKey(m) => d = m
    BY <1>3 DEF Distinct, SyncKey
  <2>4. InDoc(r) = {m}
    BY <1>1, <2>1, <2>2, <2>3 DEF KeysOf
  <2>5. Actual(r.doc) = {m}
    BY <1>4, <2>4, NewestIsActual DEF InDoc
  <2>6. CASE OfServer(m)
    <3>1. q = SyncServerCookie(r, w, m)
      BY <1>2, <2>5, <2>6 DEF ApplyActual, OfServer
    <3>2. SpreadsRead(T, r, q, w, m)
      BY <1>1, <2>4, <3>1, SyncServerCookieIs
    <3>3. PICK s : Within(s, T) /\ Reads(r, s, w, m) /\ q = SyncBetweenWindows(s, w, ToWindows(m))
      BY <3>2 DEF SpreadsRead
    <3>4. InDoc(s) = {ToWindows(m)}
      BY <2>4, <3>3 DEF Reads
    <3>5. ReadsNewest(T, p, s, w, m)
      BY <1>1, <2>1, <2>6, <3>3, <3>4 DEF ReadsNewest, Reads, SameMessages
    <3> QED BY <3>3, <3>5 DEF SyncsCookie
  <2>7. CASE ~OfServer(m) /\ ForWindows(m)
    <3>1. q = SetCookie(r, w, m)
      BY <1>2, <2>5, <2>7 DEF ApplyActual, OfServer, ForWindows
    <3>2. m \in SyncCookies
      BY <1>3
    <3>3. /\ q.local = [r.local EXCEPT ![w] = m.value]
          /\ q.doc = r.doc /\ q.syncs = r.syncs /\ q.toTop = r.toTop
      BY <1>1, <3>1, <3>2, SetCookieIs
    <3>4. Applies(p, q, w, m)
      BY <1>1, <2>1, <2>4, <2>7, <3>3 DEF Applies, InDoc, SameMessages
    <3> QED BY <3>4 DEF SyncsCookie
  <2>8. CASE ~OfServer(m) /\ ~ForWindows(m)
    <3>1. q = r
      BY <1>2, <2>5, <2>8 DEF ApplyActual, OfServer, ForWindows
    <3>2. Applies(p, q, w, m)
      BY <1>1, <2>1, <2>4, <2>8, <3>1 DEF Applies
    <3> QED BY <3>2 DEF SyncsCookie
  <2> QED BY <2>6, <2>7, <2>8
<1> QED
  BY <1>5, <1>6

-----------------------------------------------------------------------------
(* Messages *)

(* q is p after the top window has taken the first message of x. *)
Taken(p, q, x) ==
    /\ q.doc = p.doc /\ q.local = p.local /\ q.syncs = p.syncs
    /\ \A d : \A y \in CrossDomain, j \in Places :
        /\ Asks(q, y, j, d) => Asks(p, y, IF y = x THEN j + 1 ELSE j, d)
        /\ Asks(p, y, j, d) => (y = x /\ j = 1) \/ Asks(q, y, IF y = x THEN j - 1 ELSE j, d)
    /\ \A y \in CrossDomain : \A j \in DOMAIN q.toTop[y] :
        \E i \in DOMAIN p.toTop[y] : q.toTop[y][j] = p.toTop[y][i]

(* Taking a message ends no synchronisation and asks for none. *)
LEMMA TakenExchanging ==
    ASSUME NEW p, NEW q, NEW x \in CrossDomain, Taken(p, q, x)
    PROVE  /\ Syncing(q) = Syncing(p) /\ InDoc(q) = InDoc(p)
           /\ Asked(q) \subseteq Asked(p) /\ Exchanging(q) \subseteq Exchanging(p)
<1>1. Syncing(q) = Syncing(p) /\ InDoc(q) = InDoc(p)
  BY DEF Taken, Syncing, InDoc
<1>2. \A j \in Places : j + 1 \in Places
  BY DEF Places
<1>3. Asked(q) \subseteq Asked(p)
  BY <1>2 DEF Taken, Asked
<1> QED
  BY <1>1, <1>3 DEF Exchanging

(* What the top window does with its queue of x when it takes a message. *)
LEMMA TakenIs ==
    ASSUME NEW T, NEW p, Within(p, T), NEW x \in CrossDomain, p.toTop[x] # <<>>,
           NEW q, q = [p EXCEPT !.toTop[x] = Tail(@)]
    PROVE  Within(q, T) /\ Taken(p, q, x)
<1> DEFINE toTop == [p.toTop EXCEPT ![x] = Tail(p.toTop[x])]
<1>1. p \in Pages /\ p.toTop \in [CrossDomain -> Seq(ToTops)] /\ p.toTop[x] \in Seq(ToTops)
  BY DEF Within, Pages
<1>2. q = [p EXCEPT !.toTop = toTop]
  BY <1>1 DEF Pages
<1>3. toTop \in [CrossDomain -> Seq(ToTops)]
  BY <1>1
<1>4. /\ \A y \in CrossDomain : y # x => toTop[y] = p.toTop[y]
      /\ \A j \in DOMAIN toTop[x] : j + 1 \in DOMAIN p.toTop[x] /\ toTop[x][j] = p.toTop[x][j + 1]
      /\ \A j \in DOMAIN p.toTop[x] : j # 1 => j - 1 \in DOMAIN toTop[x] /\ toTop[x][j - 1] = p.toTop[x][j]
  BY <1>1
<1>5. \A j \in DOMAIN p.toTop[x] : j \in Places
  BY <1>1 DEF Places
<1> HIDE DEF toTop
<1>6. /\ q \in Pages /\ q.toTop = toTop
      /\ q.doc = p.doc /\ q.local = p.local /\ q.syncs = p.syncs /\ q.toFrame = p.toFrame
  BY <1>1, <1>2, <1>3 DEF Pages
<1>7. \A y \in CrossDomain : \A j \in DOMAIN toTop[y] :
         \E i \in DOMAIN p.toTop[y] : toTop[y][j] = p.toTop[y][i]
  <2> TAKE y \in CrossDomain
  <2>1. CASE y = x
    BY <2>1, <1>4
  <2>2. CASE y # x
    BY <2>2, <1>4
  <2> QED BY <2>1, <2>2
<1>8. \A d : \A y \in CrossDomain, j \in Places :
         /\ Asks(q, y, j, d) => Asks(p, y, IF y = x THEN j + 1 ELSE j, d)
         /\ Asks(p, y, j, d) => (y = x /\ j = 1) \/ Asks(q, y, IF y = x THEN j - 1 ELSE j, d)
  <2> SUFFICES ASSUME NEW d, NEW y \in CrossDomain, NEW j \in Places
               PROVE  /\ Asks(q, y, j, d) => Asks(p, y, IF y = x THEN j + 1 ELSE j, d)
                      /\ Asks(p, y, j, d) => (y = x /\ j = 1) \/ Asks(q, y, IF y = x THEN j - 1 ELSE j, d)
    OBVIOUS
  <2>1. CASE y = x
    <3>1. ASSUME Asks(q, x, j, d) PROVE Asks(p, x, j + 1, d)
      BY <3>1, <1>4, <1>6 DEF Asks
    <3>2. ASSUME Asks(p, x, j, d), j # 1 PROVE Asks(q, x, j - 1, d)
      BY <3>2, <1>4, <1>6 DEF Asks
    <3> QED BY <2>1, <3>1, <3>2
  <2>2. CASE y # x
    BY <2>2, <1>4, <1>6 DEF Asks
  <2> QED BY <2>1, <2>2
<1>9. Taken(p, q, x)
  BY <1>6, <1>7, <1>8 DEF Taken
<1>10. Messages(q)
  <2>1. \A y \in CrossDomain : \A i \in DOMAIN p.toTop[y] :
           p.toTop[y][i].cmd = "done" => p.toTop[y][i].id \in DOMAIN p.syncs
    BY DEF Within, Messages
  <2>2. \A y \in CrossDomain : \A i \in DOMAIN toTop[y] :
           toTop[y][i].cmd = "done" => toTop[y][i].id \in DOMAIN p.syncs
    BY <2>1, <1>7
  <2> QED BY <2>2, <1>6 DEF Within, Messages
<1>11. Within(q, T)
  <2>1. Once(q.doc) /\ \A d \in InDoc(q) : d.sync \in Kinds /\ d.time \in T
    BY <1>6 DEF Within, InDoc
  <2>2. \A d \in Exchanging(q) : d.sync \in WindowKinds /\ d.time \in T
    BY <1>9, TakenExchanging DEF Within
  <2> QED BY <1>6, <1>10, <2>1, <2>2 DEF Within
<1> QED
  BY <1>9, <1>11

(* Windows go on telling of a cookie that the message did not ask for. *)
LEMMA TakenTelling ==
    ASSUME NEW p, NEW q, NEW x \in CrossDomain, Taken(p, q, x), NEW c, Telling(p, c),
           ~Asks(p, x, 1, c)
    PROVE  Telling(q, c)
<1>1. CASE AskedFor(p, c)
  <2>1. PICK y \in CrossDomain, i \in Places :
           /\ Asks(p, y, i, c) /\ p.local[y] = c.value
           /\ \A z \in CrossDomain, j \in Places : Asks(p, z, j, c) => z = y /\ j = i
    BY <1>1 DEF AskedFor
  <2> DEFINE k == IF y = x THEN i - 1 ELSE i
  <2>2. Asks(q, y, k, c)
    BY <2>1 DEF Taken
  <2>3. k \in Places
    <3>1. y = x => i # 1
      BY <2>1
    <3> QED BY <3>1 DEF Places
  <2>4. \A z \in CrossDomain, j \in Places : Asks(q, z, j, c) => z = y /\ j = k
    <3> SUFFICES ASSUME NEW z \in CrossDomain, NEW j \in Places, Asks(q, z, j, c)
                 PROVE  z = y /\ j = k
      OBVIOUS
    <3> DEFINE l == IF z = x THEN j + 1 ELSE j
    <3>1. Asks(p, z, l, c)
      BY DEF Taken
    <3>2. l \in Places
      BY DEF Places
    <3>3. z = y /\ l = i
      BY <2>1, <3>1, <3>2
    <3> QED BY <3>3 DEF Places
  <2> HIDE DEF k
  <2>5. c \notin Syncing(q) /\ q.local[y] = c.value
    BY <1>1, <2>1, TakenExchanging DEF AskedFor, Taken
  <2> QED BY <2>2, <2>3, <2>4, <2>5 DEF Telling, AskedFor
<1>2. CASE SyncedBy(p, c)
  <2>1. PICK id \in DOMAIN p.syncs : SyncedIn(p, c, id)
    BY <1>2 DEF SyncedBy
  <2>2. SyncedIn(q, c, id)
    BY <2>1 DEF SyncedIn, Taken
  <2>3. c \notin Asked(q)
    BY <1>2, TakenExchanging DEF SyncedBy
  <2> QED BY <2>1, <2>2, <2>3 DEF Telling, SyncedBy, Taken
<1> QED
  BY <1>1, <1>2 DEF Telling

(* If it did ask for it, nobody else tells of it, and its sender knows it. *)
LEMMA TakenAsked ==
    ASSUME NEW p, NEW q, NEW x \in CrossDomain, Taken(p, q, x),
           NEW c \in SyncCookies, Telling(p, c), Asks(p, x, 1, c)
    PROVE  c \notin Exchanging(q) /\ p.local[x] = c.value
<1>1. c \in Asked(p)
  BY DEF Asked, Places
<1>2. AskedFor(p, c)
  BY <1>1 DEF Telling, SyncedBy
<1>3. PICK y \in CrossDomain, i \in Places :
         /\ Asks(p, y, i, c) /\ p.local[y] = c.value
         /\ \A z \in CrossDomain, j \in Places : Asks(p, z, j, c) => z = y /\ j = i
  BY <1>2 DEF AskedFor
<1>4. y = x /\ i = 1
  BY <1>3 DEF Places
<1>5. \A z \in CrossDomain, j \in Places : ~Asks(q, z, j, c)
  <2> SUFFICES ASSUME NEW z \in CrossDomain, NEW j \in Places, Asks(q, z, j, c) PROVE FALSE
    OBVIOUS
  <2> DEFINE l == IF z = x THEN j + 1 ELSE j
  <2>1. Asks(p, z, l, c) /\ l \in Places
    BY DEF Taken, Places
  <2>2. z = x /\ l = 1
    BY <2>1, <1>3, <1>4
  <2> QED BY <2>2 DEF Places
<1>6. c \notin Asked(q)
  BY <1>5 DEF Asked
<1>7. c \notin Syncing(q)
  BY <1>2, TakenExchanging DEF AskedFor
<1> QED
  BY <1>3, <1>4, <1>6, <1>7 DEF Exchanging

(* q is p but for whom the synchronisation id waits for. *)
SameExchange(p, q, id) ==
    /\ q.local = p.local /\ q.toTop = p.toTop
    /\ DOMAIN q.syncs = DOMAIN p.syncs /\ q.syncs[id].cookie = p.syncs[id].cookie
    /\ \A i \in DOMAIN p.syncs : i # id => q.syncs[i] = p.syncs[i]

(* Whom a synchronisation waits for makes no difference to what windows exchange. *)
LEMMA SameExchanging ==
    ASSUME NEW p, NEW q, NEW id \in DOMAIN p.syncs, SameExchange(p, q, id)
    PROVE  /\ \A i \in DOMAIN p.syncs : q.syncs[i].cookie = p.syncs[i].cookie
           /\ Syncing(q) = Syncing(p) /\ Asked(q) = Asked(p) /\ Exchanging(q) = Exchanging(p)
<1>1. \A i \in DOMAIN p.syncs : q.syncs[i].cookie = p.syncs[i].cookie
  BY DEF SameExchange
<1>2. Syncing(q) = Syncing(p)
  BY <1>1 DEF SameExchange, Syncing
<1>3. Asked(q) = Asked(p)
  BY DEF SameExchange, Asked, Asks
<1> QED
  BY <1>1, <1>2, <1>3 DEF Exchanging

(* A change of one synchronisation that keeps its cookie keeps the page sound. *)
LEMMA UpdatesSync ==
    ASSUME NEW T, NEW p, Within(p, T), NEW id \in DOMAIN p.syncs,
           NEW sync \in Syncs, sync.cookie = p.syncs[id].cookie,
           NEW q, q = [p EXCEPT !.syncs = [p.syncs EXCEPT ![id] = sync]]
    PROVE  /\ Within(q, T) /\ SameExchange(p, q, id)
           /\ q.syncs[id] = sync /\ q.doc = p.doc /\ q.toFrame = p.toFrame
<1> DEFINE syncs == [p.syncs EXCEPT ![id] = sync]
<1>1. p \in Pages /\ p.syncs \in Seq(Syncs)
  BY DEF Within, Pages
<1>2. syncs \in Seq(Syncs) /\ DOMAIN syncs = DOMAIN p.syncs
  BY <1>1
<1>3. syncs[id] = sync /\ \A i \in DOMAIN p.syncs : i # id => syncs[i] = p.syncs[i]
  BY <1>1
<1> HIDE DEF syncs
<1>4. /\ q \in Pages /\ q.syncs = syncs
      /\ q.doc = p.doc /\ q.local = p.local /\ q.toFrame = p.toFrame /\ q.toTop = p.toTop
  BY <1>1, <1>2 DEF Pages, syncs
<1>5. SameExchange(p, q, id)
  BY <1>2, <1>3, <1>4 DEF SameExchange
<1>6. \A i \in DOMAIN p.syncs : q.syncs[i].cookie = p.syncs[i].cookie
  BY <1>5, SameExchanging
<1>7. Messages(q)
  BY <1>2, <1>4, <1>6 DEF Within, Messages
<1>8. Exchanging(q) = Exchanging(p) /\ InDoc(q) = InDoc(p)
  BY <1>4, <1>5, SameExchanging DEF InDoc
<1>9. Within(q, T)
  BY <1>4, <1>7, <1>8 DEF Within
<1> QED
  BY <1>3, <1>4, <1>5, <1>9

(* q is p after the synchronisation id does no longer wait for x. *)
Resolves(p, q, id, x) ==
    /\ SameExchange(p, q, id)
    /\ q.syncs[id].waiting = p.syncs[id].waiting \ {x}
    /\ InDoc(q) = IF p.syncs[id].waiting = {x} THEN Removed(InDoc(p), p.syncs[id].cookie)
                  ELSE InDoc(p)

(* resolveWrapper: x is no longer waited for, and the last one ends the synchronisation. *)
LEMMA ResolveIs ==
    ASSUME NEW T, NEW p, Within(p, T), NEW id \in DOMAIN p.syncs, NEW x \in CrossDomain,
           NEW q, q = Resolve(p, id, x)
    PROVE  Within(q, T) /\ Resolves(p, q, id, x)
<1> DEFINE sync == [p.syncs[id] EXCEPT !.waiting = p.syncs[id].waiting \ {x}]
           r == [p EXCEPT !.syncs = [p.syncs EXCEPT ![id] = sync]]
           c == p.syncs[id].cookie
<1>1. p \in Pages /\ p.syncs \in Seq(Syncs) /\ p.syncs[id] \in Syncs
  BY DEF Within, Pages
<1>2. /\ sync \in Syncs /\ sync.cookie = c /\ sync.waiting = p.syncs[id].waiting \ {x}
      /\ c \in SyncCookies
  BY <1>1 DEF Syncs
<1>3. q = IF p.syncs[id].waiting = {x} THEN RemoveSyncCookie(r, c) ELSE r
  BY <1>1 DEF Resolve, Pages
<1> HIDE DEF sync, r
<1>4. /\ Within(r, T) /\ SameExchange(p, r, id)
      /\ r.syncs[id] = sync /\ r.doc = p.doc
  BY <1>2, UpdatesSync DEF r
<1>5. c.sync \in WindowKinds /\ c.time \in T
  BY DEF Within, Exchanging, Syncing
<1>6. CASE p.syncs[id].waiting = {x}
  <2>1. q = RemoveSyncCookie(r, c)
    BY <1>3, <1>6
  <2>2. /\ Within(q, T) /\ InDoc(q) = Removed(InDoc(r), c)
        /\ q.local = r.local /\ q.syncs = r.syncs /\ q.toTop = r.toTop
    BY <2>1, <1>2, <1>4, <1>5, RemoveSyncCookieIs
  <2> QED BY <2>2, <1>2, <1>4, <1>6 DEF Resolves, SameExchange, InDoc
<1>7. CASE p.syncs[id].waiting # {x}
  BY <1>2, <1>3, <1>4, <1>7 DEF Resolves, InDoc
<1> QED
  BY <1>6, <1>7

(* If x knows c when it is no longer waited for: they go on telling of c, or all know it. *)
Ends(p, id, x, c)     == p.syncs[id].cookie = c /\ p.syncs[id].waiting = {x}
KnowsOwn(p, id, x, c) == p.syncs[id].cookie = c => p.local[x] = c.value
GoesOn(p, q, id, x, c) ==
    \/ Telling(q, c) /\ ~Ends(p, id, x, c)
    \/ Ends(p, id, x, c) /\ \A w \in Windows : q.local[w] = c.value

(* It is so whether an iframe has asked to tell of c or a synchronisation is under way. *)
LEMMA ResolvesTelling ==
    ASSUME NEW p, NEW q, NEW id \in DOMAIN p.syncs, NEW x \in CrossDomain, Resolves(p, q, id, x),
           NEW c, Telling(p, c), KnowsOwn(p, id, x, c)
    PROVE  GoesOn(p, q, id, x, c)
<1> SUFFICES \/ Telling(q, c) /\ ~(p.syncs[id].cookie = c /\ p.syncs[id].waiting = {x})
             \/ /\ p.syncs[id].cookie = c /\ p.syncs[id].waiting = {x}
                /\ \A w \in Windows : q.local[w] = c.value
  BY DEF GoesOn, Ends
<1> p.syncs[id].cookie = c => p.local[x] = c.value
  BY DEF KnowsOwn
<1>1. SameExchange(p, q, id)
  BY DEF Resolves
<1>2. CASE AskedFor(p, c)
  <2>1. c \notin Syncing(q) /\ p.syncs[id].cookie # c
    <3>1. p.syncs[id].cookie \in Syncing(p)
      BY DEF Syncing
    <3> QED BY <3>1, <1>1, <1>2, SameExchanging DEF AskedFor
  <2>2. AskedFor(q, c)
    BY <2>1, <1>1, <1>2 DEF AskedFor, SameExchange, Asks
  <2> QED BY <2>1, <2>2 DEF Telling
<1>3. CASE SyncedBy(p, c)
  <2>1. PICK i \in DOMAIN p.syncs : SyncedIn(p, c, i)
    BY <1>3 DEF SyncedBy
  <2>2. c \notin Asked(q) /\ \A j \in DOMAIN p.syncs : q.syncs[j].cookie = p.syncs[j].cookie
    BY <1>1, <1>3, SameExchanging DEF SyncedBy
  <2>3. CASE i # id
    <3>1. SyncedIn(q, c, i) /\ p.syncs[id].cookie # c
      BY <2>1, <2>2, <2>3, <1>1 DEF SyncedIn, SameExchange
    <3> QED BY <3>1, <2>2, <1>1 DEF Telling, SyncedBy, SameExchange
  <2>4. CASE i = id
    <3>1. p.syncs[id].cookie = c /\ p.local[x] = c.value
      BY <2>1, <2>4 DEF SyncedIn
    <3>2. \A w \in Windows : q.local[w] = c.value \/ w \in q.syncs[id].waiting
      BY <2>1, <2>4, <3>1, <1>1 DEF SyncedIn, SameExchange, Resolves
    <3>3. CASE q.syncs[id].waiting = {}
      <4>1. p.syncs[id].waiting = {x}
        BY <2>1, <2>4, <3>3 DEF SyncedIn, Resolves
      <4> QED BY <3>1, <3>2, <3>3, <4>1
    <3>4. CASE q.syncs[id].waiting # {}
      <4>1. SyncedIn(q, c, id)
        BY <2>1, <2>2, <2>4, <3>1, <3>2, <3>4, <1>1 DEF SyncedIn, SameExchange
      <4>2. p.syncs[id].waiting # {x}
        BY <3>4 DEF Resolves
      <4> QED BY <4>1, <4>2, <2>2, <1>1 DEF Telling, SyncedBy, SameExchange
    <3> QED BY <3>3, <3>4
  <2> QED BY <2>3, <2>4
<1> QED
  BY <1>2, <1>3 DEF Telling

(* q is p after x has answered the first message m that was sent to it, and knows what it   *)
(* tells; in between, r.                                                                     *)
Reply(p, x, m) ==
    [p EXCEPT !.toFrame[x] = Tail(@),
              !.toTop[x] = Append(@, [cmd |-> "done", id |-> m.id, cookie |-> {}])]
SameAsked(p, q) == \A d : \A y \in CrossDomain, j \in Places : Asks(q, y, j, d) <=> Asks(p, y, j, d)
Answered(p, q, x, m) ==
    /\ m.id \in DOMAIN p.syncs /\ m.cookie = p.syncs[m.id].cookie
    /\ q.doc = p.doc /\ q.syncs = p.syncs /\ SameAsked(p, q)
    /\ \A y \in CrossDomain : \A j \in DOMAIN q.toTop[y] :
        \/ y = x /\ q.toTop[y][j].id = m.id
        \/ j \in DOMAIN p.toTop[y] /\ q.toTop[y][j] = p.toTop[y][j]
FrameAnswers(p, q, x, m) ==
    /\ Answered(p, q, x, m)
    /\ q.local = IF m.cookie \in InDoc(p) THEN [p.local EXCEPT ![x] = m.cookie.value] ELSE p.local

(* An iframe that takes a message answers it, which keeps the page sound. *)
LEMMA AnsweredIs ==
    ASSUME NEW T, NEW p, Within(p, T), NEW x \in CrossDomain, p.toFrame[x] # <<>>,
           NEW m, m = Head(p.toFrame[x]),
           NEW r, r = Reply(p, x, m)
    PROVE  Within(r, T) /\ Answered(p, r, x, m) /\ r.local = p.local /\ m.cookie \in SyncCookies
<1> DEFINE done == [cmd |-> "done", id |-> m.id, cookie |-> {}]
           toFrame == [p.toFrame EXCEPT ![x] = Tail(p.toFrame[x])]
           toTop == [p.toTop EXCEPT ![x] = Append(p.toTop[x], done)]
           last == Len(p.toTop[x]) + 1
<1>1. /\ p \in Pages
      /\ p.toFrame \in [CrossDomain -> Seq(ToFrames)] /\ p.toFrame[x] \in Seq(ToFrames)
      /\ p.toTop \in [CrossDomain -> Seq(ToTops)] /\ p.toTop[x] \in Seq(ToTops)
      /\ p.syncs \in Seq(Syncs)
  BY DEF Within, Pages
<1>2. 1 \in DOMAIN p.toFrame[x] /\ m = p.toFrame[x][1] /\ m \in ToFrames
  BY <1>1
<1>3. m.id \in DOMAIN p.syncs /\ m.cookie = p.syncs[m.id].cookie /\ m.cookie \in SyncCookies
  BY <1>2 DEF Within, Messages, ToFrames
<1>4. done \in ToTops
  BY <1>1, <1>3 DEF ToTops, NoId
<1>5. toFrame \in [CrossDomain -> Seq(ToFrames)] /\ toTop \in [CrossDomain -> Seq(ToTops)]
  <2>1. Tail(p.toFrame[x]) \in Seq(ToFrames)
    BY <1>1
  <2>2. Append(p.toTop[x], done) \in Seq(ToTops)
    BY <1>1, <1>4
  <2> HIDE DEF done
  <2> QED BY <1>1, <2>1, <2>2
<1>6. done.id = m.id /\ done.cookie = {}
  OBVIOUS
<1>7. r = [p EXCEPT !.toFrame = toFrame, !.toTop = toTop]
  BY <1>1 DEF Pages, Reply
<1> HIDE DEF done
<1>8. /\ \A y \in CrossDomain : y # x => toTop[y] = p.toTop[y]
      /\ DOMAIN toTop[x] = DOMAIN p.toTop[x] \cup {last} /\ last \notin DOMAIN p.toTop[x]
      /\ \A i \in DOMAIN p.toTop[x] : toTop[x][i] = p.toTop[x][i]
      /\ toTop[x][last] = done
  BY <1>1, <1>4
<1>9. \A y \in CrossDomain : \A i \in DOMAIN toFrame[y] :
         \E j \in DOMAIN p.toFrame[y] : toFrame[y][i] = p.toFrame[y][j]
  <2> TAKE y \in CrossDomain
  <2>1. CASE y # x
    BY <2>1, <1>1
  <2>2. CASE y = x
    <3>1. \A i \in DOMAIN toFrame[x] : i + 1 \in DOMAIN p.toFrame[x] /\ toFrame[x][i] = p.toFrame[x][i + 1]
      BY <1>1
    <3> QED BY <2>2, <3>1
  <2> QED BY <2>1, <2>2
<1> HIDE DEF toFrame, toTop
<1>10. /\ r \in Pages /\ r.toFrame = toFrame /\ r.toTop = toTop
       /\ r.doc = p.doc /\ r.local = p.local /\ r.syncs = p.syncs
  BY <1>1, <1>5, <1>7 DEF Pages
<1>11. \A d : \A y \in CrossDomain, j \in Places : Asks(r, y, j, d) <=> Asks(p, y, j, d)
  <2> SUFFICES ASSUME NEW d, NEW y \in CrossDomain, NEW j \in Places
               PROVE  Asks(r, y, j, d) <=> Asks(p, y, j, d)
    OBVIOUS
  <2>1. CASE y # x
    BY <2>1, <1>8, <1>10 DEF Asks
  <2>2. CASE y = x
    BY <2>2, <1>6, <1>8, <1>10 DEF Asks
  <2> QED BY <2>1, <2>2
<1>12. \A y \in CrossDomain : \A j \in DOMAIN r.toTop[y] :
          \/ y = x /\ r.toTop[y][j].id = m.id
          \/ j \in DOMAIN p.toTop[y] /\ r.toTop[y][j] = p.toTop[y][j]
  <2> TAKE y \in CrossDomain
  <2>1. CASE y # x
    BY <2>1, <1>8, <1>10
  <2>2. CASE y = x
    BY <2>2, <1>6, <1>8, <1>10
  <2> QED BY <2>1, <2>2
<1>13. Messages(r)
  <2> SUFFICES ASSUME NEW y \in CrossDomain
               PROVE  /\ \A i \in DOMAIN r.toFrame[y] :
                          /\ r.toFrame[y][i].id \in DOMAIN r.syncs
                          /\ r.toFrame[y][i].cookie = r.syncs[r.toFrame[y][i].id].cookie
                      /\ \A i \in DOMAIN r.toTop[y] :
                          r.toTop[y][i].cmd = "done" => r.toTop[y][i].id \in DOMAIN r.syncs
    BY DEF Messages
  <2>1. \A i \in DOMAIN p.toFrame[y] :
           /\ p.toFrame[y][i].id \in DOMAIN p.syncs
           /\ p.toFrame[y][i].cookie = p.syncs[p.toFrame[y][i].id].cookie
    BY DEF Within, Messages
  <2>2. \A i \in DOMAIN p.toTop[y] : p.toTop[y][i].cmd = "done" => p.toTop[y][i].id \in DOMAIN p.syncs
    BY DEF Within, Messages
  <2>3. \A i \in DOMAIN r.toFrame[y] :
           /\ r.toFrame[y][i].id \in DOMAIN r.syncs
           /\ r.toFrame[y][i].cookie = r.syncs[r.toFrame[y][i].id].cookie
    <3> SUFFICES ASSUME NEW i \in DOMAIN r.toFrame[y]
                 PROVE  /\ r.toFrame[y][i].id \in DOMAIN p.syncs
                        /\ r.toFrame[y][i].cookie = p.syncs[r.toFrame[y][i].id].cookie
      BY <1>10
    <3>1. PICK j \in DOMAIN p.toFrame[y] : r.toFrame[y][i] = p.toFrame[y][j]
      BY <1>9, <1>10
    <3> QED BY <2>1, <3>1
  <2>4. \A i \in DOMAIN r.toTop[y] : r.toTop[y][i].cmd = "done" => r.toTop[y][i].id \in DOMAIN r.syncs
    <3> SUFFICES ASSUME NEW i \in DOMAIN r.toTop[y], r.toTop[y][i].cmd = "done"
                 PROVE  r.toTop[y][i].id \in DOMAIN p.syncs
      BY <1>10
    <3>1. CASE r.toTop[y][i].id = m.id
      BY <3>1, <1>3
    <3>2. CASE i \in DOMAIN p.toTop[y] /\ r.toTop[y][i] = p.toTop[y][i]
      BY <3>2, <2>2
    <3> QED BY <3>1, <3>2, <1>12
  <2> QED BY <2>3, <2>4
<1>14. Exchanging(r) = Exchanging(p) /\ InDoc(r) = InDoc(p)
  BY <1>10, <1>11 DEF Exchanging, Syncing, Asked, InDoc
<1>15. Within(r, T)
  BY <1>10, <1>13, <1>14 DEF Within
<1> QED
  BY <1>3, <1>10, <1>11, <1>12, <1>15 DEF Answered, SameAsked

(* Then it sets its own copy. *)
LEMMA FrameAnswersIs ==
    ASSUME NEW T, NEW p, Within(p, T), NEW x \in CrossDomain,
           NEW m, NEW r, Within(r, T), Answered(p, r, x, m), r.local = p.local,
           NEW c \in SyncCookies, c = m.cookie,
           NEW q, q = SyncWindowCookie(r, {x}, c)
    PROVE  Within(q, T) /\ FrameAnswers(p, q, x, m)
<1>1. {x} \in SUBSET Windows /\ p.local \in [Windows -> Values \cup {NoValue}]
  BY DEF Windows, Iframes, Within, Pages
<1>2. /\ Within(q, T)
      /\ c \in InDoc(r) => q.local = [w \in Windows |-> IF w \in {x} THEN c.value ELSE r.local[w]]
      /\ c \notin InDoc(r) => q = r
      /\ q.doc = r.doc /\ q.syncs = r.syncs /\ q.toTop = r.toTop
  BY <1>1, SyncWindowCookieIs
<1>3. InDoc(r) = InDoc(p)
  BY DEF Answered, InDoc
<1>4. q.local = IF c \in InDoc(p) THEN [p.local EXCEPT ![x] = c.value] ELSE p.local
  <2>1. CASE c \in InDoc(p)
    <3>1. q.local = [w \in Windows |-> IF w \in {x} THEN c.value ELSE p.local[w]]
      BY <2>1, <1>2, <1>3
    <3>2. q.local = [p.local EXCEPT ![x] = c.value]
      BY <1>1, <3>1
    <3> QED BY <2>1, <3>2
  <2>2. CASE c \notin InDoc(p)
    BY <2>2, <1>2, <1>3
  <2> QED BY <2>1, <2>2
<1>5. Answered(p, q, x, m)
  <2>1. q.doc = r.doc /\ q.syncs = r.syncs /\ q.toTop = r.toTop
    BY <1>2
  <2>2. SameAsked(p, q)
    <3>1. \A d : \A y \in CrossDomain, j \in Places : Asks(q, y, j, d) <=> Asks(r, y, j, d)
      BY <2>1 DEF Asks
    <3> QED BY <3>1 DEF Answered, SameAsked
  <2>3. \A y \in CrossDomain : \A j \in DOMAIN q.toTop[y] :
           \/ y = x /\ q.toTop[y][j].id = m.id
           \/ j \in DOMAIN p.toTop[y] /\ q.toTop[y][j] = p.toTop[y][j]
    <3>1. q.toTop = r.toTop
      BY <2>1
    <3>2. PICK t : t = r.toTop
      OBVIOUS
    <3>3. \A y \in CrossDomain : \A j \in DOMAIN t[y] :
             \/ y = x /\ t[y][j].id = m.id
             \/ j \in DOMAIN p.toTop[y] /\ t[y][j] = p.toTop[y][j]
      BY <3>2 DEF Answered
    <3>4. q.toTop = t
      BY <3>1, <3>2
    <3> QED BY ONLY <3>3, <3>4
  <2>4. m.id \in DOMAIN p.syncs /\ m.cookie = p.syncs[m.id].cookie /\ r.doc = p.doc /\ r.syncs = p.syncs
    BY DEF Answered
  <2>5. q.doc = p.doc /\ q.syncs = p.syncs
    BY <2>1, <2>4
  <2> QED BY ONLY <2>2, <2>3, <2>4, <2>5 DEF Answered
<1> QED
  BY <1>2, <1>4, <1>5 DEF FrameAnswers

(* Both together are what an iframe does with a message. *)
LEMMA FrameReceivesIs ==
    ASSUME NEW T, NEW p, Within(p, T), NEW x \in CrossDomain, p.toFrame[x] # <<>>,
           NEW m, m = Head(p.toFrame[x]),
           NEW q, q = SyncWindowCookie(Reply(p, x, m), {x}, m.cookie)
    PROVE  Within(q, T) /\ FrameAnswers(p, q, x, m)
<1>1. PICK r : r = Reply(p, x, m)
  OBVIOUS
<1>2. Within(r, T) /\ Answered(p, r, x, m) /\ r.local = p.local /\ m.cookie \in SyncCookies
  BY <1>1, AnsweredIs
<1>3. q = SyncWindowCookie(r, {x}, m.cookie)
  BY <1>1
<1> QED
  BY <1>2, <1>3, FrameAnswersIs

(* Windows go on telling of c: the iframe that answers knows it, or was told of a cookie    *)
(* that is no longer in document.cookie.                                                    *)
LEMMA FrameAnswersTelling ==
    ASSUME NEW T, NEW p, Within(p, T), NEW q, NEW x \in CrossDomain, NEW m, FrameAnswers(p, q, x, m),
           NEW c, Telling(p, c), c \in InDoc(p), m.cookie \in InDoc(p) => m.cookie = c
    PROVE  Telling(q, c)
<1>0. p.local \in [Windows -> Values \cup {NoValue}] /\ x \in Windows
  BY DEF Within, Pages, Windows, Iframes
<1>1. Syncing(q) = Syncing(p) /\ Asked(q) = Asked(p)
  BY DEF FrameAnswers, Answered, SameAsked, Syncing, Asked
<1>2. m.cookie \in Syncing(p)
  BY DEF FrameAnswers, Answered, Syncing
<1>3. CASE AskedFor(p, c)
  <2>1. q.local = p.local
    BY <1>2, <1>3 DEF AskedFor, FrameAnswers, Answered, SameAsked
  <2> QED BY <2>1, <1>1, <1>3 DEF AskedFor, FrameAnswers, Answered, SameAsked, Telling
<1>4. CASE SyncedBy(p, c)
  <2>1. PICK id \in DOMAIN p.syncs : SyncedIn(p, c, id)
    BY <1>4 DEF SyncedBy
  <2>2. /\ q.local \in [Windows -> UNION {{q.local[w]} : w \in Windows}]
        /\ \A w \in Windows : q.local[w] = p.local[w] \/ q.local[w] = c.value
    BY <1>0 DEF FrameAnswers, Answered, SameAsked
  <2>3. \A w \in Windows : p.local[w] = c.value => q.local[w] = c.value
    BY <2>2
  <2>4. m.id = id => q.local[x] = c.value
    <3>1. m.id = id => m.cookie = c
      BY <2>1 DEF SyncedIn, FrameAnswers, Answered
    <3> QED BY <3>1, <1>0 DEF FrameAnswers, Answered, SameAsked
  <2>5. \A y \in CrossDomain : \A i \in DOMAIN q.toTop[y] : q.toTop[y][i].id = id => q.local[y] = c.value
    <3> SUFFICES ASSUME NEW y \in CrossDomain, NEW i \in DOMAIN q.toTop[y], q.toTop[y][i].id = id
                 PROVE  q.local[y] = c.value
      OBVIOUS
    <3>1. CASE y = x /\ q.toTop[y][i].id = m.id
      BY <3>1, <2>4
    <3>2. CASE i \in DOMAIN p.toTop[y] /\ q.toTop[y][i] = p.toTop[y][i]
      <4>1. p.local[y] = c.value
        BY <3>2, <2>1 DEF SyncedIn
      <4>2. y \in Windows
        BY DEF Windows, Iframes
      <4> QED BY <4>1, <4>2, <2>3
    <3> QED BY <3>1, <3>2 DEF FrameAnswers, Answered, SameAsked
  <2>6. SyncedIn(q, c, id)
    BY <2>1, <2>3, <2>5 DEF SyncedIn, FrameAnswers, Answered
  <2> QED BY <2>6, <1>1, <1>4 DEF Telling, SyncedBy, FrameAnswers, Answered, SameAsked
<1> QED
  BY <1>3, <1>4 DEF Telling

(* The page after the message of the synchronisation id was sent to x again. *)
SentAgain(p, id, x) ==
    [p EXCEPT !.syncs[id].attempts[x] = @ + 1,
              !.toFrame[x] = Append(@, [id |-> id, cookie |-> p.syncs[id].cookie])]

(* A message that is repeated changes neither what windows exchange nor whom they wait for. *)
LEMMA SendsAgain ==
    ASSUME NEW T, NEW p, Within(p, T), NEW id \in DOMAIN p.syncs, NEW x \in CrossDomain,
           AttemptsLeft(p.syncs[id].attempts[x]), NEW q, q = SentAgain(p, id, x)
    PROVE  /\ Within(q, T) /\ SameExchange(p, q, id)
           /\ q.syncs[id].waiting = p.syncs[id].waiting /\ q.doc = p.doc
<1> DEFINE sync == [p.syncs[id] EXCEPT !.attempts = [p.syncs[id].attempts EXCEPT ![x] = p.syncs[id].attempts[x] + 1]]
           r == [p EXCEPT !.syncs = [p.syncs EXCEPT ![id] = sync]]
           message == [id |-> id, cookie |-> p.syncs[id].cookie]
           toFrame == [p.toFrame EXCEPT ![x] = Append(p.toFrame[x], message)]
<1>1. /\ p \in Pages /\ p.syncs \in Seq(Syncs) /\ p.syncs[id] \in Syncs
      /\ p.toFrame \in [CrossDomain -> Seq(ToFrames)] /\ p.toFrame[x] \in Seq(ToFrames)
  BY DEF Within, Pages
<1>2. /\ sync \in Syncs /\ sync.cookie = p.syncs[id].cookie /\ sync.waiting = p.syncs[id].waiting
      /\ p.syncs[id].cookie \in SyncCookies
  <2>1. p.syncs[id].attempts \in [CrossDomain -> 0..MaxAttempts]
    BY <1>1 DEF Syncs
  <2>2. p.syncs[id].attempts[x] + 1 \in 0..MaxAttempts
    BY <2>1, BoundsAssumption DEF AttemptsLeft
  <2>3. [p.syncs[id].attempts EXCEPT ![x] = p.syncs[id].attempts[x] + 1] \in [CrossDomain -> 0..MaxAttempts]
    BY <2>1, <2>2
  <2> QED BY <1>1, <2>3 DEF Syncs
<1>3. message \in ToFrames /\ message.id = id /\ message.cookie = p.syncs[id].cookie
  BY <1>1, <1>2 DEF ToFrames
<1>4. q = [r EXCEPT !.toFrame = toFrame]
  BY <1>1 DEF Pages, Syncs, SentAgain
<1> HIDE DEF sync, r, message
<1>5. /\ Within(r, T) /\ SameExchange(p, r, id)
      /\ r.syncs[id] = sync /\ r.doc = p.doc /\ r.toFrame = p.toFrame
  BY <1>2, UpdatesSync DEF r
<1>6. toFrame \in [CrossDomain -> Seq(ToFrames)]
  BY <1>1, <1>3
<1>7. \A y \in CrossDomain : \A i \in DOMAIN toFrame[y] :
         toFrame[y][i] = message \/ \E j \in DOMAIN p.toFrame[y] : toFrame[y][i] = p.toFrame[y][j]
  <2> TAKE y \in CrossDomain
  <2>1. CASE y # x
    BY <2>1, <1>1
  <2>2. CASE y = x
    <3>1. toFrame[x] = Append(p.toFrame[x], message)
      BY <1>1
    <3>2. \A i \in DOMAIN toFrame[x] :
             \/ toFrame[x][i] = message
             \/ i \in DOMAIN p.toFrame[x] /\ toFrame[x][i] = p.toFrame[x][i]
      BY <3>1, <1>1, <1>3
    <3> QED BY <2>2, <3>2
  <2> QED BY <2>1, <2>2
<1> HIDE DEF toFrame
<1>8. r \in Pages
  BY <1>5 DEF Within
<1>9. /\ q \in Pages /\ q.toFrame = toFrame
      /\ q.doc = r.doc /\ q.local = r.local /\ q.syncs = r.syncs /\ q.toTop = r.toTop
  BY <1>4, <1>6, <1>8 DEF Pages
<1>10. SameExchange(p, q, id)
  BY <1>5, <1>9 DEF SameExchange
<1>11. \A i \in DOMAIN p.syncs : q.syncs[i].cookie = p.syncs[i].cookie
  BY <1>10, SameExchanging
<1>12. Messages(q)
  <2> SUFFICES ASSUME NEW y \in CrossDomain
               PROVE  /\ \A i \in DOMAIN q.toFrame[y] :
                          /\ q.toFrame[y][i].id \in DOMAIN q.syncs
                          /\ q.toFrame[y][i].cookie = q.syncs[q.toFrame[y][i].id].cookie
                      /\ \A i \in DOMAIN q.toTop[y] :
                          q.toTop[y][i].cmd = "done" => q.toTop[y][i].id \in DOMAIN q.syncs
    BY DEF Messages
  <2>1. \A i \in DOMAIN p.toFrame[y] :
           /\ p.toFrame[y][i].id \in DOMAIN p.syncs
           /\ p.toFrame[y][i].cookie = p.syncs[p.toFrame[y][i].id].cookie
    BY DEF Within, Messages
  <2>2. \A i \in DOMAIN p.toTop[y] : p.toTop[y][i].cmd = "done" => p.toTop[y][i].id \in DOMAIN p.syncs
    BY DEF Within, Messages
  <2>3. \A i \in DOMAIN q.toFrame[y] :
           /\ q.toFrame[y][i].id \in DOMAIN q.syncs
           /\ q.toFrame[y][i].cookie = q.syncs[q.toFrame[y][i].id].cookie
    BY <2>1, <1>3, <1>7, <1>9, <1>10, <1>11 DEF SameExchange
  <2>4. \A i \in DOMAIN q.toTop[y] : q.toTop[y][i].cmd = "done" => q.toTop[y][i].id \in DOMAIN q.syncs
    BY <2>2, <1>10 DEF SameExchange
  <2> QED BY <2>3, <2>4
<1>13. Within(q, T)
  <2>1. Exchanging(q) = Exchanging(p) /\ InDoc(q) = InDoc(p)
    BY <1>5, <1>9, <1>10, SameExchanging DEF InDoc
  <2> QED BY <2>1, <1>5, <1>9, <1>12 DEF Within
<1> QED
  BY <1>2, <1>5, <1>9, <1>10, <1>13

-----------------------------------------------------------------------------
(* What is true of a page whose cookies are D and whose windows exchange the cookies X, with *)
(* the requests R.                                                                           *)
Carried(R, r) == Range(R[r].carried)
Deleted(R, r) == R[r].answer.delete
Set(R, r)     == R[r].answer.set

RequestsWithin(R, T) ==
    /\ R \in [Requests -> PageRequests]
    /\ \A r \in Requests :
        /\ Once(R[r].carried)
        /\ \A c \in Carried(R, r) : c.sync \in Kinds /\ c.time \in T
        /\ \A c \in Set(R, r) : c.sync = {"server"} /\ c.time \in T
        /\ \A k \in Deleted(R, r) : k[2] \in T

(* At most one of the cookies is not of the server. *)
Single(D) == \A c, d \in D : ~OfServer(c) /\ ~OfServer(d) => c = d

(* What the server set is not for windows yet, neither on its way nor in a request. *)
Unread(D, X, R) ==
    \A g \in D : OfServer(g) =>
        /\ \A c \in X : c.time # g.time
        /\ \A r \in Requests :
            /\ \A c \in Carried(R, r) : ForWindows(c) => c.time # g.time
            /\ \A k \in Deleted(R, r) : "window" \in k[1] => k[2] # g.time

(* What windows exchange is what the document has. *)
Same(D, X) == \A c \in D : ForWindows(c) => \A d \in X : d.time = c.time => d = c

(* What an answer sets is new. *)
Unseen(D, X, R) ==
    \A r \in Requests : \A s \in Set(R, r) :
        /\ \A c \in D \cup X : c.time # s.time
        /\ \A q \in Requests :
            /\ \A c \in Carried(R, q) : c.time # s.time
            /\ \A k \in Deleted(R, q) : k[2] # s.time
            /\ q # r => \A c \in Set(R, q) : c.time # s.time

Fresh(D, X, R) ==
    /\ Distinct(D) /\ Single(D) /\ Unread(D, X, R) /\ Same(D, X) /\ Unseen(D, X, R)
    /\ \A r \in Requests : Distinct(Carried(R, r))

(* A cookie that a window or the proxy has still to know of is only deleted for a newer one. *)
Matters(c)  == c.sync # {"client"}
Newer(D, c) == \E d \in D : d.time > c.time
Kept(D, R) ==
    \A d \in D : Matters(d) =>
        \A r \in Requests :
            /\ SyncKey(d) \in KeysOf(Carried(R, r)) /\ Newer(Carried(R, r), d) => Newer(D, d)
            /\ SyncKey(d) \in Deleted(R, r) => Newer(D \cup Set(R, r), d)
NewestMatters(D) == D # {} /\ \A d \in D : Newer(D, d) \/ Matters(d)

(* All windows know the cookie, or they are being told of the newest one. *)
Settled(p) ==
    /\ \A v, w \in Windows : p.local[v] = p.local[w]
    /\ \A c \in InDoc(p) : ~ForWindows(c)
Unsettled(p, R) ==
    /\ Kept(InDoc(p), R) /\ NewestMatters(InDoc(p))
    /\ \A c \in InDoc(p) : ForWindows(c) => Telling(p, c)

(* With fewer cookies this stays true. *)
LEMMA FreshFewer ==
    ASSUME NEW D, NEW X, NEW R, Fresh(D, X, R), NEW E, E \subseteq D, NEW Y, Y \subseteq X
    PROVE  Fresh(E, Y, R)
<1>1. Distinct(E) /\ Single(E)
  BY DEF Fresh, Distinct, Single
<1>2. Unread(E, Y, R)
  BY DEF Fresh, Unread
<1>3. Same(E, Y)
  BY DEF Fresh, Same
<1>4. Unseen(E, Y, R)
  BY DEF Fresh, Unseen
<1> QED
  BY <1>1, <1>2, <1>3, <1>4 DEF Fresh

(* The cookies after a synchronisation are those before, or what is left of c for the       *)
(* proxy.                                                                                   *)
LEMMA RemovedIs ==
    ASSUME NEW D \in SUBSET SyncCookies, NEW c \in SyncCookies, c.sync \in WindowKinds
    PROVE  \A d \in Removed(D, c) :
             \/ d \in D /\ SyncKey(d) # SyncKey(c)
             \/ c \in D /\ OfClient(c) /\ d = ForClient(c)
  BY DEF Removed

(* A synchronisation that ends keeps the rest fresh. *)
LEMMA FreshRemoved ==
    ASSUME NEW D \in SUBSET SyncCookies, NEW X, NEW R, Fresh(D, X, R),
           NEW c \in SyncCookies, c.sync \in WindowKinds
    PROVE  Fresh(Removed(D, c), X, R)
<1> DEFINE E == Removed(D, c)
           k == ForClient(c)
<1>1. \A d \in E : \/ d \in D /\ SyncKey(d) # SyncKey(c)
                   \/ c \in D /\ OfClient(c) /\ d = k
  BY RemovedIs
<1>2. OfClient(c) => k.sync = {"client"} /\ k.time = c.time
  BY ForClientIs
<1>3. ~OfServer(c)
  BY DEF OfServer, WindowKinds
<1>4. OfClient(c) => ~OfServer(k) /\ ~ForWindows(k)
  BY <1>2 DEF OfServer, ForWindows
<1> HIDE DEF E, k
<1>5. \A d \in D : d.time = c.time /\ c \in D => d = c
  BY DEF Fresh, Distinct
<1>6. Distinct(E)
  BY <1>1, <1>2, <1>5 DEF Fresh, Distinct
<1>7. Single(E)
  BY <1>1, <1>3 DEF Fresh, Single
<1>8. Unread(E, X, R)
  BY <1>1, <1>4 DEF Fresh, Unread
<1>9. Same(E, X)
  BY <1>1, <1>4 DEF Fresh, Same
<1>10. \A d \in E : \E b \in D : b.time = d.time
  BY <1>1, <1>2
<1>11. Unseen(E, X, R)
  BY <1>10 DEF Fresh, Unseen
<1> QED
  BY <1>6, <1>7, <1>8, <1>9, <1>11 DEF Fresh, E

(* Without a change of synchronisations and messages windows exchange the same cookies. *)
LEMMA SameMessagesExchanging ==
    ASSUME NEW p, NEW q, SameMessages(p, q)
    PROVE  Exchanging(q) = Exchanging(p)
  BY DEF SameMessages, Exchanging, Syncing, Asked, Asks

(* Windows go on telling of a cookie if one more of them knows it. *)
LEMMA SetTelling ==
    ASSUME NEW p, p.local \in [Windows -> Values \cup {NoValue}], NEW q, SameMessages(p, q),
           NEW w \in Windows, NEW c, q.local = [p.local EXCEPT ![w] = c.value], Telling(p, c)
    PROVE  Telling(q, c)
<1>1. \A v \in Windows : p.local[v] = c.value => q.local[v] = c.value
  OBVIOUS
<1>2. CrossDomain \subseteq Windows
  BY DEF Windows, Iframes
<1>3. Syncing(q) = Syncing(p) /\ Asked(q) = Asked(p)
  BY DEF SameMessages, Syncing, Asked, Asks
<1>4. CASE AskedFor(p, c)
  <2>1. AskedFor(q, c)
    <3>1. PICK x \in CrossDomain, i \in Places :
             /\ Asks(p, x, i, c) /\ p.local[x] = c.value
             /\ \A y \in CrossDomain, j \in Places : Asks(p, y, j, c) => y = x /\ j = i
      BY <1>4 DEF AskedFor
    <3>2. \A y \in CrossDomain, j \in Places : Asks(q, y, j, c) <=> Asks(p, y, j, c)
      BY DEF SameMessages, Asks
    <3> QED BY <3>1, <3>2, <1>1, <1>2, <1>3, <1>4 DEF AskedFor
  <2> QED BY <2>1 DEF Telling
<1>5. CASE SyncedBy(p, c)
  <2>1. PICK id \in DOMAIN p.syncs : SyncedIn(p, c, id)
    BY <1>5 DEF SyncedBy
  <2>2. SyncedIn(q, c, id)
    BY <2>1, <1>1, <1>2 DEF SyncedIn, SameMessages
  <2> QED BY <2>2, <1>3, <1>5 DEF Telling, SyncedBy, SameMessages
<1> QED
  BY <1>4, <1>5 DEF Telling

(* They go on telling of it if nothing changes for them. *)
LEMMA SameTelling ==
    ASSUME NEW p, NEW q, SameMessages(p, q), q.local = p.local, NEW c, Telling(p, c)
    PROVE  Telling(q, c)
<1>1. Syncing(q) = Syncing(p) /\ Asked(q) = Asked(p)
  BY DEF SameMessages, Syncing, Asked, Asks
<1>2. CASE AskedFor(p, c)
  <2>1. AskedFor(q, c)
    BY <1>1, <1>2 DEF AskedFor, SameMessages, Asks
  <2> QED BY <2>1 DEF Telling
<1>3. CASE SyncedBy(p, c)
  <2>1. PICK id \in DOMAIN p.syncs : SyncedIn(p, c, id)
    BY <1>3 DEF SyncedBy
  <2>2. SyncedIn(q, c, id)
    BY <2>1 DEF SyncedIn, SameMessages
  <2> QED BY <2>2, <1>1, <1>3 DEF Telling, SyncedBy, SameMessages
<1> QED
  BY <1>2, <1>3 DEF Telling

(* They go on telling of it when the synchronisation of another cookie starts. *)
LEMMA StartsTelling ==
    ASSUME NEW T, NEW p, Within(p, T), NEW q, NEW c, NEW targets, Starts(p, q, c, targets),
           q.local = p.local, NEW d, d # c, Telling(p, d)
    PROVE  Telling(q, d)
<1>1. Syncing(q) = Syncing(p) \cup {c} /\ Asked(q) = Asked(p) /\ q.toTop = p.toTop
  BY StartsExchanging DEF Starts
<1>2. CASE AskedFor(p, d)
  <2>1. d \notin Syncing(q)
    BY <1>1, <1>2 DEF AskedFor
  <2>2. AskedFor(q, d)
    BY <1>1, <1>2, <2>1 DEF AskedFor, Asks
  <2> QED BY <2>2 DEF Telling
<1>3. CASE SyncedBy(p, d)
  <2> DEFINE last == Len(p.syncs) + 1
  <2>1. PICK id \in DOMAIN p.syncs : SyncedIn(p, d, id)
    BY <1>3 DEF SyncedBy
  <2>2. /\ DOMAIN q.syncs = DOMAIN p.syncs \cup {last} /\ q.syncs[last].cookie = c
        /\ \A i \in DOMAIN p.syncs : q.syncs[i] = p.syncs[i]
    BY DEF Starts
  <2> HIDE DEF last
  <2>3. SyncedIn(q, d, id)
    <3>1. id \in DOMAIN q.syncs /\ q.syncs[id] = p.syncs[id]
      BY <2>2
    <3>2. \A i \in DOMAIN q.syncs : q.syncs[i].cookie = d => i = id
      BY <2>1, <2>2 DEF SyncedIn
    <3> QED BY <2>1, <3>1, <3>2, <1>1 DEF SyncedIn
  <2>4. d \notin Asked(q)
    BY <1>1, <1>3 DEF SyncedBy
  <2> QED BY <2>2, <2>3, <2>4 DEF Telling, SyncedBy
<1> QED
  BY <1>2, <1>3 DEF Telling

(* A synchronisation whose cookie has been replaced tells nothing. *)
TellsOthers(p, q, c) == \A d : d # c /\ Telling(p, d) => Telling(q, d)

(* A synchronisation of a cookie that is no longer in document.cookie changes no window's   *)
(* copy.                                                                                    *)
LEMMA FromTopOld ==
    ASSUME NEW T, NEW p, Within(p, T), NEW initiator \in Windows,
           NEW c \in SyncCookies, c.sync \in WindowKinds, c.time \in T, c \notin InDoc(p),
           NEW q, q = SyncFromTop(p, c, initiator)
    PROVE  /\ Within(q, T) /\ q.local = p.local /\ TellsOthers(p, q, c)
           /\ InDoc(q) = InDoc(p) \/ InDoc(q) = Removed(InDoc(p), c)
           /\ Exchanging(q) \subseteq Exchanging(p) \cup {c}
<1>1. /\ Within(q, T) /\ q.toTop = p.toTop /\ q.local = p.local
      /\ Remote(initiator) = {} => InDoc(q) = Removed(InDoc(p), c) /\ q.syncs = p.syncs
      /\ Remote(initiator) # {} => Starts(p, q, c, Remote(initiator))
  <2>1. /\ Within(q, T)
        /\ q.toTop = p.toTop
        /\ c \in InDoc(p) => q.local = [w \in Windows |-> IF w \in Called(initiator) THEN c.value
                                                         ELSE p.local[w]]
        /\ c \notin InDoc(p) => q.local = p.local
        /\ Remote(initiator) = {} => InDoc(q) = Removed(InDoc(p), c) /\ q.syncs = p.syncs
        /\ Remote(initiator) # {} => Starts(p, q, c, Remote(initiator))
    BY SyncFromTopIs
  <2> QED BY <2>1
<1>2. CASE Remote(initiator) = {}
  <2>1. SameMessages(p, q) /\ InDoc(q) = Removed(InDoc(p), c)
    BY <1>1, <1>2 DEF SameMessages
  <2>2. TellsOthers(p, q, c)
    BY <1>1, <2>1, SameTelling DEF TellsOthers
  <2>3. Exchanging(q) = Exchanging(p)
    BY <2>1 DEF SameMessages, Exchanging, Syncing, Asked, Asks
  <2> QED BY <1>1, <2>1, <2>2, <2>3
<1>3. CASE Remote(initiator) # {}
  <2>1. Starts(p, q, c, Remote(initiator))
    BY <1>1, <1>3
  <2>2. TellsOthers(p, q, c)
    BY <1>1, <2>1, StartsTelling DEF TellsOthers
  <2>3. Syncing(q) = Syncing(p) \cup {c} /\ Asked(q) = Asked(p) /\ InDoc(q) = InDoc(p)
    BY <2>1, StartsExchanging
  <2>4. Exchanging(q) = Exchanging(p) \cup {c}
    BY <2>3 DEF Exchanging
  <2> QED BY <1>1, <2>2, <2>3, <2>4
<1> QED
  BY <1>2, <1>3

-----------------------------------------------------------------------------
(* How the pages' windows come to agree. *)
Agreeing(p, R) == Settled(p) \/ Unsettled(p, R)
FreshPage(p, R) == Fresh(InDoc(p), Exchanging(p), R)

(* The kinds of cookies that exist: of the server, of the client, and those for windows. *)
LEMMA KindsOfCookies ==
    ASSUME NEW c, c.sync \in Kinds
    PROVE  /\ OfServer(c) <=> c.sync = {"server"}
           /\ ForWindows(c) <=> c.sync \in WindowKinds
           /\ ForWindows(c) => ~OfServer(c)
           /\ ~OfServer(c) /\ Matters(c) => ForWindows(c)
           /\ OfServer(c) => Matters(c)
           /\ ForWindows(c) => Matters(c)
  BY DEF Kinds, WindowKinds, OfServer, ForWindows, Matters

(* After a window has told of the only cookie that matters, the page is settled or          *)
(* unsettled.                                                                               *)
LEMMA SpreadSettles ==
    ASSUME NEW T, NEW p, Within(p, T), NEW c \in InDoc(p), c.sync \in WindowKinds,
           NEW q, Spread(p, q, c), NEW R, Fresh(InDoc(p), Exchanging(p) \cup {c}, R),
           Kept(InDoc(p), R), NewestMatters(InDoc(p))
    PROVE  FreshPage(q, R) /\ Agreeing(q, R)
<1>1. InDoc(p) \in SUBSET SyncCookies /\ c \in SyncCookies /\ \A d \in InDoc(p) : d.sync \in Kinds
  BY DocumentIsOfCookies DEF Within
<1>2. \A d \in InDoc(p) : ForWindows(d) => d = c
  <2>1. ~OfServer(c)
    BY <1>1, KindsOfCookies
  <2>2. \A d \in InDoc(p) : ForWindows(d) => ~OfServer(d)
    BY <1>1, KindsOfCookies
  <2> QED BY <2>1, <2>2 DEF Fresh, Single
<1>3. CASE /\ Telling(q, c) /\ q.doc = p.doc
           /\ Exchanging(q) \subseteq Exchanging(p) \cup {c}
  <2>1. InDoc(q) = InDoc(p)
    BY <1>3 DEF InDoc
  <2>2. FreshPage(q, R)
    BY <1>3, <2>1, FreshFewer DEF FreshPage
  <2>3. Unsettled(q, R)
    BY <1>2, <1>3, <2>1 DEF Unsettled
  <2> QED BY <2>2, <2>3 DEF Agreeing
<1>4. CASE /\ \A w \in Windows : q.local[w] = c.value
           /\ InDoc(q) = Removed(InDoc(p), c)
           /\ Exchanging(q) \subseteq Exchanging(p)
  <2>1. Fresh(Removed(InDoc(p), c), Exchanging(p) \cup {c}, R)
    BY <1>1, FreshRemoved
  <2>2. FreshPage(q, R)
    BY <1>4, <2>1, FreshFewer DEF FreshPage
  <2>3. \A d \in InDoc(q) : ~ForWindows(d)
    <3> SUFFICES ASSUME NEW d \in Removed(InDoc(p), c), ForWindows(d) PROVE FALSE
      BY <1>4
    <3>1. \/ d \in InDoc(p) /\ SyncKey(d) # SyncKey(c)
          \/ c \in InDoc(p) /\ OfClient(c) /\ d = ForClient(c)
      BY <1>1, RemovedIs
    <3>2. OfClient(c) => ~ForWindows(ForClient(c))
      BY <1>1, ForClientIs DEF ForWindows
    <3> QED BY <3>1, <3>2, <1>2
  <2>4. Settled(q)
    BY <1>4, <2>3 DEF Settled
  <2> QED BY <2>2, <2>4 DEF Agreeing
<1> QED
  BY <1>3, <1>4 DEF Spread

(* A cookie that no request knows of. *)
Unsent(c, R) ==
    \A r \in Requests :
        /\ SyncKey(c) \notin KeysOf(Carried(R, r)) /\ SyncKey(c) \notin Deleted(R, r)
        /\ \A s \in Set(R, r) : s.time # c.time

(* A document of one new cookie is fresh. *)
LEMMA FreshAlone ==
    ASSUME NEW X, NEW R, Fresh({}, X, R), NEW c, ~OfServer(c), Unsent(c, R),
           \A d \in X : d.time # c.time \/ d = c
    PROVE  Fresh({c}, X \cup {c}, R)
<1>1. Distinct({c}) /\ Single({c})
  BY DEF Distinct, Single
<1>2. Unread({c}, X \cup {c}, R)
  BY DEF Unread
<1>3. Same({c}, X \cup {c})
  BY DEF Same
<1>4. Unseen({c}, X \cup {c}, R)
  BY DEF Fresh, Unseen, Unsent
<1> QED
  BY <1>1, <1>2, <1>3, <1>4 DEF Fresh

(* It is not deleted by a request that does not know of it. *)
LEMMA KeptAlone ==
    ASSUME NEW c, NEW R, Unsent(c, R), Matters(c)
    PROVE  Kept({c}, R) /\ NewestMatters({c})
  BY DEF Kept, NewestMatters, Unsent

(* A page that is unsettled stays so when a window applies the newest cookie. *)
LEMMA NewestSettles ==
    ASSUME NEW T, NEW p, Within(p, T), NEW R, FreshPage(p, R), Unsettled(p, R),
           NEW w \in Windows, NEW m, NEW q, Applies(p, q, w, m)
    PROVE  Unsettled(q, R)
<1>1. InDoc(p) \in SUBSET SyncCookies /\ m \in InDoc(p) /\ m.sync \in Kinds
  BY DocumentIsOfCookies DEF Within, Applies, Newest
<1>2. ~Newer(InDoc(p), m)
  BY <1>1 DEF Applies, Newest, Newer, SyncCookies, Times
<1>3. Matters(m) /\ ForWindows(m)
  BY <1>1, <1>2, KindsOfCookies DEF Unsettled, NewestMatters, Applies
<1>4. Telling(p, m)
  BY <1>1, <1>3 DEF Unsettled
<1>5. p.local \in [Windows -> Values \cup {NoValue}]
  BY DEF Within, Pages
<1>6. Telling(q, m) /\ InDoc(q) = {m}
  <2>1. q.local = [p.local EXCEPT ![w] = m.value] /\ SameMessages(p, q) /\ InDoc(q) = {m}
    BY <1>3 DEF Applies
  <2> QED BY <2>1, <1>4, <1>5, SetTelling
<1>7. Kept({m}, R)
  <2> SUFFICES ASSUME NEW r \in Requests
               PROVE  /\ SyncKey(m) \in KeysOf(Carried(R, r)) /\ Newer(Carried(R, r), m) => Newer({m}, m)
                      /\ SyncKey(m) \in Deleted(R, r) => Newer({m} \cup Set(R, r), m)
    BY DEF Kept
  <2>1. SyncKey(m) \in KeysOf(Carried(R, r)) /\ Newer(Carried(R, r), m) => FALSE
    BY <1>1, <1>2, <1>3 DEF Unsettled, Kept
  <2>2. SyncKey(m) \in Deleted(R, r) => Newer(InDoc(p) \cup Set(R, r), m)
    BY <1>1, <1>3 DEF Unsettled, Kept
  <2>3. SyncKey(m) \in Deleted(R, r) => Newer(Set(R, r), m)
    BY <2>2, <1>2 DEF Newer
  <2> QED BY <2>1, <2>3 DEF Newer
<1>8. NewestMatters({m})
  BY <1>3 DEF NewestMatters
<1> QED
  BY <1>6, <1>7, <1>8 DEF Unsettled

(* A page is settled or unsettled after a window has read a newest cookie of the server,    *)
(* whatever it was before: the others are told of it.                                       *)
LEMMA ReadingSettles ==
    ASSUME NEW T, NEW p, Within(p, T), NEW R, FreshPage(p, R),
           NEW w \in Windows, NEW m, NEW r, ReadsNewest(T, p, r, w, m),
           NEW q, q = SyncBetweenWindows(r, w, ToWindows(m))
    PROVE  FreshPage(q, R) /\ Agreeing(q, R)
<1> DEFINE D == InDoc(p)
           X == Exchanging(p)
<1>1. m \in D /\ OfServer(m) /\ Within(r, T) /\ SameMessages(p, r) /\ m \in SyncCookies /\ m.sync \in Kinds
  BY DocumentIsOfCookies DEF ReadsNewest, Newest, Within
<1>2. PICK c : c = ToWindows(m)
  OBVIOUS
<1>3. c \in SyncCookies /\ c.sync = {"window"} /\ c.time = m.time /\ c.value = m.value
  BY <1>1, <1>2, ToWindowsIs
<1>4. InDoc(r) = {c} /\ r.local = [p.local EXCEPT ![w] = c.value]
  BY <1>2, <1>3 DEF ReadsNewest
<1>5. c.sync \in WindowKinds /\ ~OfServer(c) /\ ForWindows(c) /\ Matters(c)
  BY <1>3 DEF WindowKinds, OfServer, ForWindows, Matters
<1>6. r.local[w] = c.value
  <2>1. p.local \in [Windows -> Values \cup {NoValue}]
    BY DEF Within, Pages
  <2> QED BY <2>1, <1>4
<1>7. Exchanging(r) = X
  BY <1>1 DEF SameMessages, Exchanging, Syncing, Asked, Asks
<1>8. Fresh(D, X, R)
  BY DEF FreshPage
<1> HIDE DEF D, X
<1>9. \A d \in X : d.time # c.time
  BY <1>1, <1>3, <1>8 DEF Fresh, Unread
<1>10. Unsent(c, R)
  <2> SUFFICES ASSUME NEW i \in Requests
               PROVE  /\ SyncKey(c) \notin KeysOf(Carried(R, i)) /\ SyncKey(c) \notin Deleted(R, i)
                      /\ \A s \in Set(R, i) : s.time # c.time
    BY DEF Unsent
  <2>1. /\ \A d \in Carried(R, i) : ForWindows(d) => d.time # m.time
        /\ \A k \in Deleted(R, i) : "window" \in k[1] => k[2] # m.time
    BY <1>1, <1>8 DEF Fresh, Unread
  <2>2. SyncKey(c) \notin KeysOf(Carried(R, i))
    <3> SUFFICES ASSUME NEW d \in Carried(R, i), SyncKey(d) = SyncKey(c) PROVE FALSE
      BY DEF KeysOf
    <3>1. d.sync = c.sync /\ d.time = c.time
      BY DEF SyncKey
    <3> QED BY <3>1, <2>1, <1>3 DEF ForWindows
  <2>3. SyncKey(c) \notin Deleted(R, i)
    BY <2>1, <1>3 DEF SyncKey
  <2>4. \A s \in Set(R, i) : s.time # c.time
    BY <1>1, <1>3, <1>8 DEF Fresh, Unseen
  <2> QED BY <2>2, <2>3, <2>4
<1>11. Fresh({c}, X \cup {c}, R)
  <2>1. Fresh({}, X, R)
    BY <1>8, FreshFewer
  <2> QED BY <2>1, <1>5, <1>9, <1>10, FreshAlone
<1>12. Spread(r, q, c)
  <2>1. c \in InDoc(r) /\ c \notin Exchanging(r)
    BY <1>4, <1>7, <1>9
  <2>2. q = SyncBetweenWindows(r, w, c)
    BY <1>2
  <2> QED BY <2>1, <2>2, <1>1, <1>5, <1>6, BetweenWindowsSpreads
<1>13. Kept(InDoc(r), R) /\ NewestMatters(InDoc(r)) /\ c \in InDoc(r)
  <2>1. Kept({c}, R) /\ NewestMatters({c})
    BY <1>5, <1>10, KeptAlone
  <2> QED BY <2>1, <1>4
<1>14. Fresh(InDoc(r), Exchanging(r) \cup {c}, R)
  BY <1>4, <1>7, <1>11
<1> QED
  BY <1>1, <1>5, <1>12, <1>13, <1>14, SpreadSettles

(* Reading the cookie keeps windows in agreement. *)
LEMMA ReadSettles ==
    ASSUME NEW T, NEW p, Within(p, T), NEW R, FreshPage(p, R),
           NEW w \in Windows, NEW q, q = SyncCookie(p, w)
    PROVE  FreshPage(q, R) /\ (Agreeing(p, R) => Agreeing(q, R))
<1>1. Distinct(InDoc(p))
  BY DEF FreshPage, Fresh
<1>2. SyncsCookie(T, p, q, w)
  BY <1>1, SyncCookieIs
<1>3. CASE InDoc(p) = {} /\ InDoc(q) = {} /\ q.local = p.local /\ SameMessages(p, q)
  <2>1. Exchanging(q) = Exchanging(p) /\ InDoc(q) = InDoc(p)
    BY <1>3 DEF SameMessages, Exchanging, Syncing, Asked, Asks
  <2>2. ~Unsettled(p, R)
    BY <1>3 DEF Unsettled, NewestMatters
  <2>3. Settled(p) => Settled(q)
    BY <2>1, <1>3 DEF Settled
  <2> QED BY <2>1, <2>2, <2>3 DEF FreshPage, Agreeing
<1>4. CASE \E m : Applies(p, q, w, m)
  <2>1. PICK m : Applies(p, q, w, m)
    BY <1>4
  <2>2. m \in InDoc(p) /\ InDoc(q) = {m} /\ SameMessages(p, q)
    BY <2>1 DEF Applies, Newest
  <2>3. Exchanging(q) = Exchanging(p)
    BY <2>2 DEF SameMessages, Exchanging, Syncing, Asked, Asks
  <2>4. FreshPage(q, R)
    BY <2>2, <2>3, FreshFewer DEF FreshPage
  <2>5. Unsettled(p, R) => Unsettled(q, R)
    BY <2>1, NewestSettles
  <2>6. Settled(p) => Settled(q)
    BY <2>1, <2>2 DEF Settled, Applies
  <2> QED BY <2>4, <2>5, <2>6 DEF Agreeing
<1>5. CASE \E m, r : ReadsNewest(T, p, r, w, m) /\ q = SyncBetweenWindows(r, w, ToWindows(m))
  BY <1>5, ReadingSettles
<1> QED
  BY <1>2, <1>3, <1>4, <1>5 DEF SyncsCookie

(* A page is also one of the times T and others. *)
LEMMA WithinMore ==
    ASSUME NEW T, NEW p, Within(p, T), NEW U, T \subseteq U
    PROVE  Within(p, U)
  BY DEF Within

(* r is p with the cookie c that w writes, before others are told. *)
Writes(T, p, r, w, c) ==
    /\ Within(r, T) /\ SameMessages(p, r)
    /\ InDoc(r) = {d \in InDoc(p) : SyncKey(d) # SyncKey(c)} \cup {c}
    /\ r.local = [p.local EXCEPT ![w] = c.value]
SpreadsWritten(T, p, q, w, c) ==
    \E r : Writes(T, p, r, w, c) /\ q = SyncBetweenWindows(r, w, c)

(* _syncClientCookie puts the cookie into document.cookie and tells the others. *)
LEMMA SyncClientCookieIs ==
    ASSUME NEW T, NEW p, Within(p, T), NEW w \in Windows,
           NEW c \in SyncCookies, c.sync \in WindowKinds, c.time \in T,
           NEW q, q = SyncClientCookie(SetCookie(p, w, c), w, c)
    PROVE  SpreadsWritten(T, p, q, w, c)
<1> DEFINE set == SetCookie(p, w, c)
           doc == Put(set.doc, c)
           r == [set EXCEPT !.doc = doc]
<1>1. /\ Within(set, T) /\ set.local = [p.local EXCEPT ![w] = c.value]
      /\ set.doc = p.doc /\ set.syncs = p.syncs /\ set.toFrame = p.toFrame /\ set.toTop = p.toTop
  BY SetCookieIs
<1>2. q = SyncBetweenWindows(r, w, c)
  BY DEF SyncClientCookie
<1> HIDE DEF set
<1>3. set \in Pages /\ set.doc \in Seq(SyncCookies) /\ Once(set.doc)
  BY <1>1 DEF Within, Pages
<1>4. /\ doc \in Seq(SyncCookies) /\ Once(doc)
      /\ Range(doc) = {d \in Range(set.doc) : SyncKey(d) # SyncKey(c)} \cup {c}
  BY <1>3, PutCookie
<1> HIDE DEF doc
<1>5. /\ r \in Pages /\ r.doc = doc /\ r.local = set.local
      /\ r.syncs = set.syncs /\ r.toFrame = set.toFrame /\ r.toTop = set.toTop
  BY <1>3, <1>4 DEF Pages
<1> HIDE DEF r
<1>6. \A d \in InDoc(r) : d.sync \in Kinds /\ d.time \in T
  <2>1. \A d \in InDoc(r) : d \in InDoc(p) \/ d = c
    BY <1>1, <1>4, <1>5 DEF InDoc
  <2> QED BY <2>1 DEF Within, Kinds
<1>7. Within(r, T)
  BY <1>1, <1>4, <1>5, <1>6, OnlyDocument
<1>8. Writes(T, p, r, w, c)
  BY <1>1, <1>4, <1>5, <1>7 DEF Writes, InDoc, SameMessages
<1> QED
  BY <1>2, <1>8 DEF SpreadsWritten

(* A write keeps the page sound. *)
LEMMA WriteWithin ==
    ASSUME NEW T, NEW p, Within(p, T), NEW w \in Windows,
           NEW c \in SyncCookies, c.sync \in WindowKinds, c.time \in T,
           NEW q, q = SyncCookie(SyncClientCookie(SetCookie(p, w, c), w, c), w)
    PROVE  Within(q, T)
<1>1. PICK s : s = SyncClientCookie(SetCookie(p, w, c), w, c)
  OBVIOUS
<1>2. SpreadsWritten(T, p, s, w, c)
  BY <1>1, SyncClientCookieIs
<1>3. PICK r : Writes(T, p, r, w, c) /\ s = SyncBetweenWindows(r, w, c)
  BY <1>2 DEF SpreadsWritten
<1>4. Within(s, T)
  BY <1>3, BetweenWindowsWithin DEF Writes
<1> QED
  BY <1>1, <1>4, SyncCookieWithin

(* m is the only newest cookie of p, and not one of the server. *)
LEMMA OwnNewest ==
    ASSUME NEW T, NEW p, Within(p, T), Distinct(InDoc(p)), NEW m, Newest(InDoc(p), m), ~OfServer(m),
           NEW w \in Windows, NEW q, q = SyncCookie(p, w)
    PROVE  Applies(p, q, w, m)
<1>1. SyncsCookie(T, p, q, w)
  BY SyncCookieIs
<1>2. \A n : Newest(InDoc(p), n) => n = m
  <2>1. \A d \in InDoc(p) : d.time \in Nat
    BY DocumentIsOfCookies DEF Within, SyncCookies, Times
  <2> QED BY <2>1 DEF Newest
<1>3. InDoc(p) # {}
  BY DEF Newest
<1> QED
  BY <1>1, <1>2, <1>3 DEF SyncsCookie, Applies, ReadsNewest

(* Nothing but the written cookie is in the document, for windows or known to all. *)
Written(q, c) ==
    InDoc(q) = {c} \/ (InDoc(q) = {ForClient(c)} /\ \A w \in Windows : q.local[w] = c.value)

(* A write with a new time settles or unsettles the page, whatever it was before: what      *)
(* windows exchanged is older, and the new cookie is told of.                               *)
LEMMA WriteSettles ==
    ASSUME NEW T, NEW p, Within(p, T), NEW R, RequestsWithin(R, T), FreshPage(p, R),
           NEW w \in Windows,
           NEW c \in SyncCookies, c.sync = {"client", "window"}, \A t \in T : t < c.time,
           NEW q, q = SyncCookie(SyncClientCookie(SetCookie(p, w, c), w, c), w)
    PROVE  FreshPage(q, R) /\ Agreeing(q, R) /\ Written(q, c)
<1> DEFINE D == InDoc(p)
           X == Exchanging(p)
           U == T \cup {c.time}
<1>1. c.sync \in WindowKinds /\ ~OfServer(c) /\ ForWindows(c) /\ Matters(c) /\ OfClient(c)
  BY DEF WindowKinds, OfServer, ForWindows, Matters, OfClient
<1>2. /\ D \in SUBSET SyncCookies /\ c.time \in Nat
      /\ \A d \in D : d.time \in T /\ d.time < c.time
      /\ \A d \in X : d.time \in T /\ d.time < c.time
  BY DocumentIsOfCookies DEF Within, SyncCookies, Times
<1>3. Fresh(D, X, R)
  BY DEF FreshPage
<1>4. c.time \notin T
  BY <1>2
<1>5. PICK s : s = SyncClientCookie(SetCookie(p, w, c), w, c)
  OBVIOUS
<1>6. PICK r : Writes(U, p, r, w, c) /\ s = SyncBetweenWindows(r, w, c)
  <2>1. Within(p, U)
    BY WithinMore
  <2>2. c.time \in U
    OBVIOUS
  <2> HIDE DEF U
  <2>3. SpreadsWritten(U, p, s, w, c)
    BY <2>1, <2>2, <1>1, <1>5, SyncClientCookieIs
  <2> QED BY <2>3 DEF SpreadsWritten
<1> HIDE DEF D, X, U
<1>7. Within(r, U) /\ Exchanging(r) = X /\ InDoc(r) = D \cup {c} /\ r.local[w] = c.value
  <2>1. \A d \in D : SyncKey(d) # SyncKey(c)
    BY <1>2, <1>4 DEF SyncKey
  <2>2. p.local \in [Windows -> Values \cup {NoValue}]
    BY DEF Within, Pages
  <2> QED BY <2>1, <2>2, <1>6 DEF Writes, D, X, SameMessages, Exchanging, Syncing, Asked, Asks
<1>8. Within(s, U) /\ Spread(r, s, c)
  <2>1. c \in InDoc(r) /\ c \notin Exchanging(r)
    BY <1>2, <1>4, <1>7
  <2> QED BY <2>1, <1>1, <1>6, <1>7, BetweenWindowsSpreads
<1>9. q = SyncCookie(s, w)
  BY <1>5
<1>10. Unsent(c, R)
  <2> SUFFICES ASSUME NEW i \in Requests
               PROVE  /\ SyncKey(c) \notin KeysOf(Carried(R, i)) /\ SyncKey(c) \notin Deleted(R, i)
                      /\ \A d \in Set(R, i) : d.time # c.time
    BY DEF Unsent
  <2>1. /\ \A d \in Carried(R, i) : d.time \in T
        /\ \A d \in Set(R, i) : d.time \in T
        /\ \A k \in Deleted(R, i) : k[2] \in T
    BY DEF RequestsWithin
  <2> QED BY <2>1, <1>4 DEF KeysOf, SyncKey
<1>11. Fresh({}, X, R)
  BY <1>3, FreshFewer
<1>12. Fresh({c}, X \cup {c}, R)
  BY <1>1, <1>2, <1>4, <1>10, <1>11, FreshAlone
<1>13. CASE /\ Telling(s, c) /\ s.doc = r.doc
            /\ Exchanging(s) \subseteq Exchanging(r) \cup {c}
  <2>1. InDoc(s) = D \cup {c}
    BY <1>7, <1>13 DEF InDoc
  <2>2. Newest(InDoc(s), c) /\ Distinct(InDoc(s))
    BY <2>1, <1>2, <1>3, <1>4 DEF Newest, Fresh, Distinct
  <2>3. Applies(s, q, w, c)
    BY <2>2, <1>1, <1>8, <1>9, OwnNewest
  <2>4. /\ InDoc(q) = {c} /\ SameMessages(s, q)
        /\ q.local = [s.local EXCEPT ![w] = c.value]
    BY <2>3, <1>1 DEF Applies
  <2>5. Telling(q, c)
    <3>1. s.local \in [Windows -> Values \cup {NoValue}]
      BY <1>8 DEF Within, Pages
    <3> QED BY <3>1, <2>4, <1>13, SetTelling
  <2>6. Unsettled(q, R)
    BY <2>4, <2>5, <1>1, <1>10, KeptAlone DEF Unsettled
  <2>7. Exchanging(q) \subseteq X \cup {c}
    BY <2>4, <1>7, <1>13, SameMessagesExchanging
  <2>8. FreshPage(q, R)
    BY <2>4, <2>7, <1>12, FreshFewer DEF FreshPage
  <2> QED BY <2>4, <2>6, <2>8 DEF Agreeing, Written
<1>14. CASE /\ \A v \in Windows : s.local[v] = c.value
            /\ InDoc(s) = Removed(InDoc(r), c)
            /\ Exchanging(s) \subseteq Exchanging(r)
  <2> DEFINE k == ForClient(c)
  <2>1. k.sync = {"client"} /\ k.time = c.time
    BY <1>1, ForClientIs
  <2>2. ~OfServer(k) /\ ~ForWindows(k)
    BY <2>1 DEF OfServer, ForWindows
  <2> HIDE DEF k
  <2>3. InDoc(s) = D \cup {k}
    <3>1. \A d \in D : SyncKey(d) # SyncKey(c) /\ SyncKey(d) # SyncKey(k)
      BY <2>1, <1>2, <1>4 DEF SyncKey
    <3>2. {d \in D \cup {c} : SyncKey(d) # SyncKey(c)} = D
      BY <3>1
    <3> QED BY <3>1, <3>2, <1>1, <1>7, <1>14 DEF Removed, k
  <2>4. Newest(InDoc(s), k) /\ Distinct(InDoc(s))
    BY <2>1, <2>3, <1>2, <1>3, <1>4 DEF Newest, Fresh, Distinct
  <2>5. Applies(s, q, w, k)
    BY <2>2, <2>4, <1>8, <1>9, OwnNewest
  <2>6. InDoc(q) = {k} /\ SameMessages(s, q) /\ q.local = s.local
    BY <2>2, <2>5 DEF Applies
  <2>7. Settled(q)
    BY <2>2, <2>6, <1>14 DEF Settled
  <2>8. Exchanging(q) \subseteq X
    BY <2>6, <1>7, <1>14, SameMessagesExchanging
  <2>9. Fresh({k}, X \cup {k}, R)
    <3>1. Unsent(k, R)
      <4> SUFFICES ASSUME NEW i \in Requests
                   PROVE  /\ SyncKey(k) \notin KeysOf(Carried(R, i)) /\ SyncKey(k) \notin Deleted(R, i)
                          /\ \A d \in Set(R, i) : d.time # k.time
        BY DEF Unsent
      <4>1. /\ \A d \in Carried(R, i) : d.time \in T
            /\ \A d \in Set(R, i) : d.time \in T
            /\ \A e \in Deleted(R, i) : e[2] \in T
        BY DEF RequestsWithin
      <4> QED BY <4>1, <2>1, <1>4 DEF KeysOf, SyncKey
    <3>2. \A d \in X : d.time # k.time
      BY <2>1, <1>2, <1>4
    <3> QED BY <3>1, <3>2, <2>2, <1>11, FreshAlone
  <2>10. FreshPage(q, R)
    BY <2>6, <2>8, <2>9, FreshFewer DEF FreshPage
  <2>11. Written(q, c)
    BY <2>6, <1>14 DEF Written, k
  <2> QED BY <2>7, <2>10, <2>11 DEF Agreeing
<1> QED
  BY <1>8, <1>13, <1>14 DEF Spread

-----------------------------------------------------------------------------
(* What an iframe asks for, and what becomes of it. *)

LEMMA FirstStart ==
    ASSUME NEW T, NEW p, Within(p, T), NEW x \in CrossDomain, p.toTop[x] # <<>>,
           Head(p.toTop[x]).cmd = "start",
           NEW c, c = CHOOSE d \in Head(p.toTop[x]).cookie : TRUE
    PROVE  /\ c \in SyncCookies /\ Asks(p, x, 1, c) /\ c \in Exchanging(p)
           /\ c.sync \in WindowKinds /\ c.time \in T
           /\ \A d : Asks(p, x, 1, d) => d = c
<1>1. p.toTop[x] \in Seq(ToTops)
  BY DEF Within, Pages
<1>2. 1 \in DOMAIN p.toTop[x] /\ Head(p.toTop[x]) = p.toTop[x][1]
  BY <1>1
<1>3. PICK d \in SyncCookies : p.toTop[x][1].cookie = {d}
  BY <1>2, MessagesAreOfSyncs
<1>4. c = d
  BY <1>2, <1>3
<1>5. Asks(p, x, 1, c)
  BY <1>2, <1>3, <1>4 DEF Asks
<1>6. c \in Exchanging(p)
  BY <1>3, <1>4, <1>5 DEF Exchanging, Asked, Places
<1> QED
  BY <1>3, <1>4, <1>5, <1>6 DEF Within, Asks

(* The page between the receipt of c and its further way. *)
Forwards(T, p, r, s, x, c) ==
    /\ Taken(p, r, x) /\ Within(s, T) /\ s.doc = p.doc /\ SameMessages(r, s)
    /\ s.local = IF c \in InDoc(p) THEN [p.local EXCEPT ![Top] = c.value] ELSE p.local

(* The top window sets its own copy before it passes the cookie on. *)
LEMMA ForwardsIs ==
    ASSUME NEW T, NEW p, NEW x \in CrossDomain, NEW c \in SyncCookies,
           NEW r, Within(r, T), Taken(p, r, x),
           NEW s, s = SyncWindowCookie(r, {Top}, c)
    PROVE  Forwards(T, p, r, s, x, c)
<1>1. Within(r, T) /\ Taken(p, r, x)
  OBVIOUS
<1>2. {Top} \in SUBSET Windows /\ r.local \in [Windows -> Values \cup {NoValue}]
  BY <1>1 DEF Windows, Within, Pages
<1>3. r.doc = p.doc /\ r.local = p.local /\ InDoc(r) = InDoc(p)
  BY <1>1 DEF Taken, InDoc
<1>4. /\ Within(s, T)
      /\ c \in InDoc(r) => s.local = [v \in Windows |-> IF v \in {Top} THEN c.value ELSE r.local[v]]
      /\ c \notin InDoc(r) => s = r
      /\ s.doc = r.doc /\ s.syncs = r.syncs /\ s.toFrame = r.toFrame /\ s.toTop = r.toTop
  BY <1>1, <1>2, SyncWindowCookieIs
<1>5. s.local = IF c \in InDoc(p) THEN [p.local EXCEPT ![Top] = c.value] ELSE p.local
  <2>1. CASE c \in InDoc(p)
    <3>1. s.local = [v \in Windows |-> IF v \in {Top} THEN c.value ELSE r.local[v]]
      BY <2>1, <1>3, <1>4
    <3>2. s.local = [p.local EXCEPT ![Top] = c.value]
      BY <3>1, <1>2, <1>3
    <3> QED BY <2>1, <3>2
  <2>2. CASE c \notin InDoc(p)
    BY <2>2, <1>3, <1>4
  <2> QED BY <2>1, <2>2
<1>6. SameMessages(r, s) /\ s.doc = p.doc
  BY <1>3, <1>4 DEF SameMessages
<1> QED
  BY <1>1, <1>4, <1>5, <1>6 DEF Forwards

(* What the top window does with the request of an iframe keeps windows in agreement: it    *)
(* takes over telling of the cookie, or the cookie is outdated.                             *)
LEMMA StartSettles ==
    ASSUME NEW T, NEW p, Within(p, T), NEW R, FreshPage(p, R),
           NEW x \in CrossDomain, NEW c \in SyncCookies,
           Asks(p, x, 1, c), c \in Exchanging(p), c.sync \in WindowKinds, c.time \in T,
           \A d : Asks(p, x, 1, d) => d = c,
           NEW r, NEW s, Forwards(T, p, r, s, x, c),
           NEW q, q = SyncFromTop(s, c, x)
    PROVE  FreshPage(q, R) /\ (Agreeing(p, R) => Agreeing(q, R))
<1> DEFINE D == InDoc(p)
           X == Exchanging(p)
<1>1. Fresh(D, X, R) /\ D \in SUBSET SyncCookies
  BY DocumentIsOfCookies DEF FreshPage, Within
<1>2. Within(s, T) /\ InDoc(s) = D /\ Exchanging(s) = Exchanging(r) /\ Exchanging(r) \subseteq X
  <2>1. InDoc(s) = D
    BY DEF Forwards, InDoc
  <2>2. Exchanging(s) = Exchanging(r)
    BY SameMessagesExchanging DEF Forwards
  <2> QED BY <2>1, <2>2, TakenExchanging DEF Forwards
<1>3. ForWindows(c) /\ ~OfServer(c)
  BY DEF WindowKinds, ForWindows, OfServer
<1>4. x \in Windows /\ x # Top /\ Top \in Windows /\ p.local \in [Windows -> Values \cup {NoValue}]
  BY WindowsAssumption DEF Windows, Iframes, Within, Pages
<1>5. CASE c \notin D
  <2>1. s.local = p.local
    BY <1>5 DEF Forwards
  <2>2. /\ q.local = s.local /\ TellsOthers(s, q, c)
        /\ InDoc(q) = InDoc(s) \/ InDoc(q) = Removed(InDoc(s), c)
        /\ Exchanging(q) \subseteq Exchanging(s) \cup {c}
    <3>1. c \notin InDoc(s)
      BY <1>2, <1>5
    <3> QED BY <3>1, <1>2, <1>4, FromTopOld
  <2>3. Exchanging(q) \subseteq X
    BY <2>2, <1>2
  <2>4. InDoc(q) = D
    <3>1. \A d \in D : SyncKey(d) # SyncKey(c)
      <4> SUFFICES ASSUME NEW d \in D, SyncKey(d) = SyncKey(c) PROVE FALSE
        OBVIOUS
      <4>1. ForWindows(d) /\ d.time = c.time
        BY <1>3 DEF SyncKey, ForWindows
      <4>2. d = c
        BY <4>1, <1>1 DEF Fresh, Same
      <4> QED BY <4>2, <1>5
    <3>2. Removed(D, c) = D
      BY <3>1, <1>5 DEF Removed
    <3> QED BY <3>2, <2>2, <1>2
  <2>5. FreshPage(q, R)
    BY <2>3, <2>4, <1>1, FreshFewer DEF FreshPage
  <2>6. Settled(p) => Settled(q)
    BY <2>1, <2>2, <2>4 DEF Settled
  <2>7. Unsettled(p, R) => Unsettled(q, R)
    <3> SUFFICES ASSUME Unsettled(p, R), NEW d \in D, ForWindows(d) PROVE Telling(q, d)
      BY <2>4 DEF Unsettled
    <3>1. Telling(p, d) /\ d # c
      BY <1>5 DEF Unsettled
    <3>2. Telling(r, d)
      BY <3>1, TakenTelling DEF Forwards
    <3>3. Telling(s, d)
      BY <3>2, <2>1, SameTelling DEF Forwards, Taken
    <3> QED BY <3>1, <3>3, <2>2 DEF TellsOthers
  <2> QED BY <2>5, <2>6, <2>7 DEF Agreeing
<1>6. CASE c \in D
  <2>1. s.local = [p.local EXCEPT ![Top] = c.value]
    BY <1>6 DEF Forwards
  <2>2. ~Settled(p)
    BY <1>3, <1>6 DEF Settled
  <2>3. CASE Unsettled(p, R)
    <3>1. Telling(p, c)
      BY <2>3, <1>3, <1>6 DEF Unsettled
    <3>2. c \notin Exchanging(r) /\ p.local[x] = c.value
      BY <3>1, TakenAsked DEF Forwards
    <3>3. s.local[Top] = c.value /\ s.local[x] = c.value
      BY <3>2, <2>1, <1>4
    <3>4. Spread(s, q, c)
      BY <3>2, <3>3, <1>2, <1>4, <1>6, FromTopSpreads
    <3>5. Kept(InDoc(s), R) /\ NewestMatters(InDoc(s))
      BY <2>3, <1>2 DEF Unsettled
    <3>6. Fresh(InDoc(s), Exchanging(s) \cup {c}, R)
      BY <1>1, <1>2, FreshFewer
    <3> QED BY <3>4, <3>5, <3>6, <1>2, <1>6, SpreadSettles
  <2>4. FreshPage(q, R)
    <3>1. /\ q.toTop = s.toTop
          /\ Remote(x) = {} => InDoc(q) = Removed(InDoc(s), c) /\ q.syncs = s.syncs
          /\ Remote(x) # {} => Starts(s, q, c, Remote(x))
      <4>1. /\ Within(q, T)
            /\ q.toTop = s.toTop
            /\ c \in InDoc(s) => q.local = [w \in Windows |-> IF w \in Called(x) THEN c.value
                                                             ELSE s.local[w]]
            /\ c \notin InDoc(s) => q.local = s.local
            /\ Remote(x) = {} => InDoc(q) = Removed(InDoc(s), c) /\ q.syncs = s.syncs
            /\ Remote(x) # {} => Starts(s, q, c, Remote(x))
        BY <1>2, <1>4, SyncFromTopIs
      <4> QED BY <4>1
    <3>2. CASE Remote(x) = {}
      <4>1. Exchanging(q) = Exchanging(s)
        <5>1. SameMessages(s, q)
          BY <3>1, <3>2 DEF SameMessages
        <5> QED BY <5>1, SameMessagesExchanging
      <4>2. Fresh(Removed(D, c), X, R)
        BY <1>1, FreshRemoved
      <4> QED BY <3>1, <3>2, <4>1, <4>2, <1>2, FreshFewer DEF FreshPage
    <3>3. CASE Remote(x) # {}
      <4>1. InDoc(q) = D /\ Exchanging(q) \subseteq X
        BY <3>1, <3>3, <1>2, StartsExchanging DEF Exchanging
      <4> QED BY <4>1, <1>1, FreshFewer DEF FreshPage
    <3> QED BY <3>2, <3>3
  <2> QED BY <2>2, <2>3, <2>4 DEF Agreeing
<1> QED
  BY <1>5, <1>6

-----------------------------------------------------------------------------
(* What windows answer. *)

LEMMA FreshResolves ==
    ASSUME NEW T, NEW p, Within(p, T), NEW R, FreshPage(p, R),
           NEW id \in DOMAIN p.syncs, NEW x \in CrossDomain, NEW q, Resolves(p, q, id, x)
    PROVE  FreshPage(q, R)
<1>1. Exchanging(q) = Exchanging(p)
  BY SameExchanging DEF Resolves
<1>2. p.syncs[id].cookie \in SyncCookies /\ p.syncs[id].cookie.sync \in WindowKinds
  <2>1. p.syncs \in Seq(Syncs)
    BY DEF Within, Pages
  <2>2. p.syncs[id] \in Syncs
    BY <2>1
  <2> QED BY <2>2 DEF Syncs, Within, Exchanging, Syncing
<1>3. Fresh(InDoc(p), Exchanging(p), R) /\ InDoc(p) \in SUBSET SyncCookies
  BY DocumentIsOfCookies DEF FreshPage, Within
<1>4. Fresh(Removed(InDoc(p), p.syncs[id].cookie), Exchanging(p), R)
  BY <1>2, <1>3, FreshRemoved
<1> QED
  BY <1>1, <1>3, <1>4 DEF Resolves, FreshPage

(* A window that is no longer waited for, and knows the cookie unless it is outdated,       *)
(* keeps windows in agreement.                                                              *)
LEMMA ResolveSettles ==
    ASSUME NEW T, NEW p, Within(p, T), NEW R, FreshPage(p, R),
           NEW id \in DOMAIN p.syncs, NEW x \in CrossDomain, NEW q, Resolves(p, q, id, x),
           NEW c, c = p.syncs[id].cookie, c \in InDoc(p) => p.local[x] = c.value, Agreeing(p, R)
    PROVE  Agreeing(q, R)
<1> DEFINE D == InDoc(p)
<1>1. c = p.syncs[id].cookie
  OBVIOUS
<1>2. c \in SyncCookies /\ c.sync \in WindowKinds /\ c \in Exchanging(p)
  <2>1. p.syncs \in Seq(Syncs)
    BY DEF Within, Pages
  <2>2. p.syncs[id] \in Syncs
    BY <2>1
  <2> QED BY <2>2, <1>1 DEF Syncs, Within, Exchanging, Syncing
<1>3. ForWindows(c) /\ ~OfServer(c) /\ (OfClient(c) => ~ForWindows(ForClient(c)))
  BY <1>2, ForClientIs DEF WindowKinds, ForWindows, OfServer
<1>4. D \in SUBSET SyncCookies /\ \A d \in D : d.sync \in Kinds
  BY DocumentIsOfCookies DEF Within
<1>5. q.local = p.local
  BY DEF Resolves, SameExchange
<1>6. InDoc(q) = IF p.syncs[id].waiting = {x} THEN Removed(D, c) ELSE D
  BY <1>1 DEF Resolves
<1>7. \A d \in Removed(D, c) : ForWindows(d) => d \in D /\ d # c
  <2>1. \A d \in Removed(D, c) :
           \/ d \in D /\ SyncKey(d) # SyncKey(c)
           \/ c \in D /\ OfClient(c) /\ d = ForClient(c)
    BY <1>2, <1>4, RemovedIs
  <2> QED BY <2>1, <1>3
<1>8. Settled(p) => Settled(q)
  <2>1. (\A d \in D : ~ForWindows(d)) => \A d \in InDoc(q) : ~ForWindows(d)
    BY <1>6, <1>7
  <2> QED BY <2>1, <1>5 DEF Settled
<1> SUFFICES ASSUME Unsettled(p, R) PROVE Agreeing(q, R)
  BY <1>8 DEF Agreeing
<1>9. CASE c \notin D
  <2>1. Removed(D, c) = D
    <3>1. \A d \in D : SyncKey(d) # SyncKey(c)
      <4> SUFFICES ASSUME NEW d \in D, SyncKey(d) = SyncKey(c) PROVE FALSE
        OBVIOUS
      <4>1. ForWindows(d) /\ d.time = c.time
        BY <1>3 DEF SyncKey, ForWindows
      <4>2. d = c
        BY <4>1, <1>2 DEF FreshPage, Fresh, Same
      <4> QED BY <4>2, <1>9
    <3> QED BY <3>1, <1>9 DEF Removed
  <2>2. InDoc(q) = D
    BY <2>1, <1>6
  <2>3. ASSUME NEW d \in D, ForWindows(d) PROVE Telling(q, d)
    <3>1. Telling(p, d) /\ p.syncs[id].cookie # d
      BY <2>3, <1>1, <1>9 DEF Unsettled
    <3>2. KnowsOwn(p, id, x, d)
      BY <3>1 DEF KnowsOwn
    <3>3. GoesOn(p, q, id, x, d)
      BY <3>1, <3>2, ResolvesTelling
    <3> QED BY <3>1, <3>3 DEF GoesOn, Ends
  <2>4. Unsettled(q, R)
    BY <2>2, <2>3 DEF Unsettled
  <2> QED BY <2>4 DEF Agreeing
<1>10. CASE c \in D
  <2>1. Telling(p, c) /\ p.local[x] = c.value
    BY <1>1, <1>3, <1>10 DEF Unsettled
  <2>2. \A d \in D : ForWindows(d) => d = c
    <3>1. \A d \in D : ForWindows(d) => ~OfServer(d)
      BY <1>4, KindsOfCookies
    <3> QED BY <3>1, <1>3, <1>10 DEF FreshPage, Fresh, Single
  <2>3. GoesOn(p, q, id, x, c)
    <3>1. KnowsOwn(p, id, x, c)
      BY <2>1 DEF KnowsOwn
    <3> QED BY <2>1, <3>1, ResolvesTelling
  <2>4. CASE Telling(q, c) /\ ~Ends(p, id, x, c)
    <3>1. InDoc(q) = D
      BY <2>4, <1>1, <1>6 DEF Ends
    <3>2. Unsettled(q, R)
      BY <3>1, <2>2, <2>4 DEF Unsettled
    <3> QED BY <3>2 DEF Agreeing
  <2>5. CASE Ends(p, id, x, c) /\ \A w \in Windows : q.local[w] = c.value
    <3>1. \A d \in InDoc(q) : ~ForWindows(d)
      BY <2>2, <2>5, <1>6, <1>7 DEF Ends
    <3>2. Settled(q)
      BY <3>1, <2>5 DEF Settled
    <3> QED BY <3>2 DEF Agreeing
  <2> QED BY <2>3, <2>4, <2>5 DEF GoesOn
<1> QED
  BY <1>9, <1>10

(* So does the answer of an iframe. *)
LEMMA DoneSettles ==
    ASSUME NEW T, NEW p, Within(p, T), NEW R, FreshPage(p, R),
           NEW x \in CrossDomain, 1 \in DOMAIN p.toTop[x], p.toTop[x][1].cmd = "done",
           NEW id, id = p.toTop[x][1].id,
           NEW r, Within(r, T), Taken(p, r, x), NEW q, q = Resolve(r, id, x)
    PROVE  FreshPage(q, R) /\ (Agreeing(p, R) => Agreeing(q, R))
<1>1. p.toTop[x][1].cookie = {} /\ id \in DOMAIN p.syncs
  BY MessagesAreOfSyncs
<1>2. r.syncs = p.syncs /\ r.local = p.local /\ InDoc(r) = InDoc(p) /\ Exchanging(r) \subseteq Exchanging(p)
  BY TakenExchanging DEF Taken
<1>3. id \in DOMAIN r.syncs
  BY <1>1, <1>2
<1>4. Resolves(r, q, id, x)
  BY <1>3, ResolveIs
<1>5. FreshPage(r, R)
  BY <1>2, FreshFewer DEF FreshPage
<1>6. FreshPage(q, R)
  BY <1>3, <1>4, <1>5, FreshResolves
<1>7. \A d : ~Asks(p, x, 1, d)
  BY <1>1 DEF Asks
<1>8. \A d : Telling(p, d) => Telling(r, d)
  BY <1>7, TakenTelling
<1>9. Agreeing(p, R) => Agreeing(r, R)
  <2>1. Settled(p) => Settled(r)
    BY <1>2 DEF Settled
  <2>2. Unsettled(p, R) => Unsettled(r, R)
    BY <1>2, <1>8 DEF Unsettled
  <2> QED BY <2>1, <2>2 DEF Agreeing
<1>10. PICK c : c = r.syncs[id].cookie
  OBVIOUS
<1>11. Telling(p, c) => p.local[x] = c.value
  <2> SUFFICES ASSUME Telling(p, c) PROVE p.local[x] = c.value
    OBVIOUS
  <2>1. c \in Syncing(p)
    BY <1>1, <1>2, <1>10 DEF Syncing
  <2>2. SyncedBy(p, c)
    BY <2>1 DEF Telling, AskedFor
  <2>3. PICK i \in DOMAIN p.syncs : SyncedIn(p, c, i)
    BY <2>2 DEF SyncedBy
  <2>4. i = id
    BY <2>3, <1>1, <1>2, <1>10 DEF SyncedIn
  <2> QED BY <2>3, <2>4 DEF SyncedIn
<1>12. ForWindows(c)
  <2>1. c \in Exchanging(p)
    BY <1>1, <1>2, <1>10 DEF Exchanging, Syncing
  <2> QED BY <2>1 DEF Within, WindowKinds, ForWindows
<1>13. Agreeing(p, R) => (c \in InDoc(r) => r.local[x] = c.value)
  BY <1>2, <1>11, <1>12 DEF Agreeing, Settled, Unsettled
<1>14. ASSUME c \in InDoc(r) => r.local[x] = c.value, Agreeing(r, R)
       PROVE  Agreeing(q, R)
  BY <1>3, <1>4, <1>5, <1>10, <1>14, ResolveSettles
<1> QED
  BY <1>6, <1>9, <1>13, <1>14

(* So does an iframe that answers. *)
LEMMA FrameSettles ==
    ASSUME NEW T, NEW p, Within(p, T), NEW R, FreshPage(p, R),
           NEW x \in CrossDomain, NEW m, NEW q, FrameAnswers(p, q, x, m)
    PROVE  FreshPage(q, R) /\ (Agreeing(p, R) => Agreeing(q, R))
<1>1. q.doc = p.doc /\ InDoc(q) = InDoc(p) /\ Exchanging(q) = Exchanging(p)
  BY DEF FrameAnswers, Answered, SameAsked, InDoc, Exchanging, Syncing, Asked
<1>2. FreshPage(q, R)
  BY <1>1 DEF FreshPage
<1>3. m.cookie \in Exchanging(p)
  BY DEF FrameAnswers, Answered, Exchanging, Syncing
<1>4. ForWindows(m.cookie) /\ ~OfServer(m.cookie)
  BY <1>3 DEF Within, WindowKinds, ForWindows, OfServer
<1>5. Settled(p) => Settled(q)
  <2> SUFFICES ASSUME Settled(p) PROVE Settled(q)
    OBVIOUS
  <2>1. m.cookie \notin InDoc(p)
    BY <1>4 DEF Settled
  <2>2. q.local = p.local
    BY <2>1 DEF FrameAnswers
  <2> QED BY <2>2, <1>1 DEF Settled
<1>6. Unsettled(p, R) => Unsettled(q, R)
  <2> SUFFICES ASSUME Unsettled(p, R), NEW c \in InDoc(p), ForWindows(c) PROVE Telling(q, c)
    BY <1>1 DEF Unsettled
  <2>1. Telling(p, c)
    BY DEF Unsettled
  <2>2. ~OfServer(c)
    BY KindsOfCookies DEF Within
  <2>3. m.cookie \in InDoc(p) => m.cookie = c
    BY <2>2, <1>4 DEF FreshPage, Fresh, Single
  <2> QED BY <2>1, <2>3, FrameAnswersTelling
<1> QED
  BY <1>2, <1>5, <1>6 DEF Agreeing

(* So does a message that is sent again. *)
LEMMA AgainSettles ==
    ASSUME NEW p, NEW R, FreshPage(p, R), NEW id \in DOMAIN p.syncs,
           NEW q, SameExchange(p, q, id), q.syncs[id].waiting = p.syncs[id].waiting, q.doc = p.doc
    PROVE  FreshPage(q, R) /\ (Agreeing(p, R) => Agreeing(q, R))
<1>1. InDoc(q) = InDoc(p) /\ Exchanging(q) = Exchanging(p) /\ Syncing(q) = Syncing(p) /\ Asked(q) = Asked(p)
  BY SameExchanging DEF InDoc
<1>2. \A i \in DOMAIN p.syncs : /\ q.syncs[i].cookie = p.syncs[i].cookie
                                /\ q.syncs[i].waiting = p.syncs[i].waiting
  BY SameExchanging DEF SameExchange
<1>3. DOMAIN q.syncs = DOMAIN p.syncs /\ q.local = p.local /\ q.toTop = p.toTop
  BY DEF SameExchange
<1>4. ASSUME NEW c, Telling(p, c) PROVE Telling(q, c)
  <2>1. CASE AskedFor(p, c)
    <3>1. AskedFor(q, c)
      BY <2>1, <1>1, <1>3 DEF AskedFor, Asks
    <3> QED BY <3>1 DEF Telling
  <2>2. CASE SyncedBy(p, c)
    <3>1. PICK i \in DOMAIN p.syncs : SyncedIn(p, c, i)
      BY <2>2 DEF SyncedBy
    <3>2. SyncedIn(q, c, i)
      BY <3>1, <1>2, <1>3 DEF SyncedIn
    <3> QED BY <3>2, <2>2, <1>1, <1>3 DEF Telling, SyncedBy
  <2> QED BY <2>1, <2>2, <1>4 DEF Telling
<1>5. Settled(p) => Settled(q)
  BY <1>1, <1>3 DEF Settled
<1>6. Unsettled(p, R) => Unsettled(q, R)
  BY <1>1, <1>4 DEF Unsettled
<1> QED
  BY <1>1, <1>5, <1>6 DEF FreshPage, Agreeing

-----------------------------------------------------------------------------
(* The times of cookies.  A window knows the second of its change, the proxy the millisecond. *)
Stamp(d)  == IF d.by = "page" THEN Seconds(d.time) ELSE d.time
Stamps    == {Stamp(changes[i]) : i \in DOMAIN changes}

Changes   == [by : {"page", "server"}, time : Times]
Past      == now \in Times /\ changes \in Seq(Changes) /\ \A i \in DOMAIN changes : changes[i].time <= now

(* A change is newer than all that were before. *)
LEMMA NewStamp ==
    ASSUME Past, NEW d \in Changes, d.time = now, changes' = Append(changes, d), ~Ambiguous'
    PROVE  ~Ambiguous /\ \A t \in Stamps : t \in Nat /\ t < Stamp(d)
<1> DEFINE n == Len(changes) + 1
<1>1. /\ DOMAIN changes' = DOMAIN changes \cup {n} /\ n \in Nat
      /\ \A i \in DOMAIN changes : i \in Nat /\ i < n /\ changes'[i] = changes[i] /\ changes[i] \in Changes
      /\ changes'[n] = d
  <2>1. changes \in Seq(Changes)
    BY DEF Past
  <2> QED BY <2>1
<1> HIDE DEF n
<1>2. ~Ambiguous
  BY <1>1 DEF Ambiguous
<1>3. ASSUME NEW i \in DOMAIN changes PROVE Stamp(changes[i]) \in Nat /\ Stamp(changes[i]) < Stamp(d)
  <2>1. changes[i].time \in Nat /\ now \in Nat /\ changes[i].time <= now
    BY <1>1 DEF Past, Changes, Times
  <2>2. IF "page" \in {changes[i].by, d.by} THEN Seconds(changes[i].time) # Seconds(now)
        ELSE changes[i].time # now
    BY <1>1 DEF Ambiguous
  <2>3. Seconds(changes[i].time) \in Nat /\ Seconds(changes[i].time) <= changes[i].time
    BY <2>1, SecondsBefore
  <2>4. Seconds(now) \in Nat /\ Seconds(now) <= now
    BY <2>1, SecondsBefore
  <2>5. Stamp(changes[i]) \in Nat /\ Stamp(changes[i]) <= changes[i].time
    BY <2>1, <2>3 DEF Stamp
  <2>6. Stamp(d) \in Nat /\ Seconds(now) <= Stamp(d)
    BY <2>1, <2>4 DEF Stamp
  <2>7. CASE "page" \in {changes[i].by, d.by}
    <3>1. Seconds(changes[i].time) # Seconds(now)
      BY <2>2, <2>7
    <3>2. changes[i].time < Seconds(now)
      BY <3>1, <2>1, SecondsApart
    <3> QED BY <3>2, <2>1, <2>4, <2>5, <2>6
  <2>8. CASE "page" \notin {changes[i].by, d.by}
    <3>1. changes[i].time # now /\ Stamp(d) = now
      BY <2>2, <2>8 DEF Stamp
    <3> QED BY <3>1, <2>1, <2>5
  <2> QED BY <2>7, <2>8
<1> QED
  BY <1>2, <1>3 DEF Stamps

(* The times of cookies after a change. *)
LEMMA NextStamps ==
    ASSUME Past, NEW d \in Changes, d.time = now, changes' = Append(changes, d), now' = now
    PROVE  /\ Stamps' = Stamps \cup {Stamp(d)} /\ Past'
           /\ Stamp(d) \in Times
<1>1. changes \in Seq(Changes) /\ now \in Nat
  BY DEF Past, Times
<1> DEFINE n == Len(changes) + 1
<1>2. /\ DOMAIN changes' = DOMAIN changes \cup {n}
      /\ \A i \in DOMAIN changes : changes'[i] = changes[i]
      /\ changes'[n] = d
  BY <1>1
<1> HIDE DEF n
<1>3. Stamps' = Stamps \cup {Stamp(d)}
  BY <1>2 DEF Stamps
<1>4. \A i \in DOMAIN changes' : changes'[i].time <= now'
  BY <1>1, <1>2 DEF Past
<1>5. Past'
  BY <1>1, <1>4 DEF Past
<1>6. Seconds(now) \in Nat /\ Seconds(now) <= now
  BY <1>1, SecondsBefore
<1>7. Stamp(d) \in Times
  BY <1>1, <1>6, BoundsAssumption DEF Past, Stamp, Times
<1> QED
  BY <1>3, <1>5, <1>7

-----------------------------------------------------------------------------
(* What a request and its answer do. *)

SentWith(R, r, doc) == [R EXCEPT ![r].state = "sent", ![r].carried = doc]

(* A request that is sent carries document.cookie, and nothing else of the requests         *)
(* changes.                                                                                 *)
LEMMA SentIs ==
    ASSUME NEW R \in [Requests -> PageRequests], NEW r \in Requests, NEW doc \in Seq(SyncCookies),
           NEW S, S = SentWith(R, r, doc)
    PROVE  /\ S \in [Requests -> PageRequests]
           /\ \A q \in Requests : S[q].answer = R[q].answer
           /\ S[r].carried = doc /\ \A q \in Requests : q # r => S[q].carried = R[q].carried
<1> DEFINE a == [R[r] EXCEPT !.state = "sent", !.carried = doc]
<1>1. R[r] \in PageRequests
  OBVIOUS
<1>2. a \in PageRequests /\ a.answer = R[r].answer /\ a.carried = doc
  BY <1>1 DEF PageRequests
<1>3. S = [R EXCEPT ![r] = a]
  BY <1>1 DEF PageRequests, SentWith
<1> HIDE DEF a
<1>4. S \in [Requests -> PageRequests]
  BY <1>2, <1>3
<1>5. S[r] = a /\ \A q \in Requests : q # r => S[q] = R[q]
  BY <1>3
<1> QED
  BY <1>2, <1>4, <1>5

(* It keeps windows in agreement: what its answer may delete is what is in document.cookie  *)
(* now, and the newest of it is not deleted.                                                *)
LEMMA SendKeeps ==
    ASSUME NEW T, NEW p, Within(p, T), NEW R, RequestsWithin(R, T), NEW r \in Requests,
           NEW S, S = SentWith(R, r, p.doc)
    PROVE  /\ RequestsWithin(S, T)
           /\ FreshPage(p, R) => FreshPage(p, S)
           /\ Agreeing(p, R) => Agreeing(p, S)
<1>1. R \in [Requests -> PageRequests] /\ p.doc \in Seq(SyncCookies) /\ Once(p.doc)
  BY DEF RequestsWithin, Within, Pages
<1>2. /\ S \in [Requests -> PageRequests]
      /\ \A q \in Requests : S[q].answer = R[q].answer
      /\ S[r].carried = p.doc /\ \A q \in Requests : q # r => S[q].carried = R[q].carried
  BY <1>1, SentIs
<1>3. /\ \A q \in Requests : Set(S, q) = Set(R, q) /\ Deleted(S, q) = Deleted(R, q)
      /\ Carried(S, r) = InDoc(p) /\ \A q \in Requests : q # r => Carried(S, q) = Carried(R, q)
  BY <1>2 DEF Set, Deleted, Carried, InDoc
<1>4. RequestsWithin(S, T)
  <2> SUFFICES ASSUME NEW q \in Requests
               PROVE  /\ Once(S[q].carried)
                      /\ \A c \in Carried(S, q) : c.sync \in Kinds /\ c.time \in T
                      /\ \A c \in Set(S, q) : c.sync = {"server"} /\ c.time \in T
                      /\ \A k \in Deleted(S, q) : k[2] \in T
    BY <1>2 DEF RequestsWithin
  <2>1. CASE q = r
    BY <2>1, <1>1, <1>2, <1>3 DEF RequestsWithin, Within
  <2>2. CASE q # r
    BY <2>2, <1>2, <1>3 DEF RequestsWithin
  <2> QED BY <2>1, <2>2
<1>5. ASSUME FreshPage(p, R) PROVE FreshPage(p, S)
  <2> DEFINE D == InDoc(p)
             X == Exchanging(p)
  <2>1. Fresh(D, X, R) /\ \A c \in D : c.sync \in Kinds
    BY <1>5 DEF FreshPage, Within
  <2> HIDE DEF D, X
  <2>2. \A q \in Requests : Carried(S, q) = D \/ Carried(S, q) = Carried(R, q)
    BY <1>3 DEF D
  <2>3. Unread(D, X, S)
    <3> SUFFICES ASSUME NEW g \in D, OfServer(g)
                 PROVE  /\ \A c \in X : c.time # g.time
                        /\ \A q \in Requests :
                            /\ \A c \in Carried(S, q) : ForWindows(c) => c.time # g.time
                            /\ \A k \in Deleted(S, q) : "window" \in k[1] => k[2] # g.time
      BY DEF Unread
    <3>1. /\ \A c \in X : c.time # g.time
          /\ \A q \in Requests :
              /\ \A c \in Carried(R, q) : ForWindows(c) => c.time # g.time
              /\ \A k \in Deleted(R, q) : "window" \in k[1] => k[2] # g.time
      BY <2>1 DEF Fresh, Unread
    <3>2. \A c \in D : ForWindows(c) => c.time # g.time
      <4>1. \A c \in D : ForWindows(c) => ~OfServer(c)
        BY <2>1, KindsOfCookies
      <4> QED BY <4>1, <2>1 DEF Fresh, Distinct
    <3> QED BY <3>1, <3>2, <2>2, <1>3
  <2>4. Unseen(D, X, S)
    <3> SUFFICES ASSUME NEW q \in Requests, NEW s \in Set(R, q)
                 PROVE  /\ \A c \in D \cup X : c.time # s.time
                        /\ \A i \in Requests :
                            /\ \A c \in Carried(S, i) : c.time # s.time
                            /\ \A k \in Deleted(S, i) : k[2] # s.time
                            /\ i # q => \A c \in Set(S, i) : c.time # s.time
      BY <1>3 DEF Unseen
    <3>1. /\ \A c \in D \cup X : c.time # s.time
          /\ \A i \in Requests :
              /\ \A c \in Carried(R, i) : c.time # s.time
              /\ \A k \in Deleted(R, i) : k[2] # s.time
              /\ i # q => \A c \in Set(R, i) : c.time # s.time
      BY <2>1 DEF Fresh, Unseen
    <3> QED BY <3>1, <2>2, <1>3
  <2>5. \A q \in Requests : Distinct(Carried(S, q))
    BY <2>1, <2>2 DEF Fresh
  <2>6. Distinct(D) /\ Single(D) /\ Same(D, X)
    BY <2>1 DEF Fresh
  <2>7. Fresh(D, X, S)
    BY <2>3, <2>4, <2>5, <2>6 DEF Fresh
  <2> QED BY <2>7 DEF FreshPage, D, X
<1>6. ASSUME Agreeing(p, R) PROVE Agreeing(p, S)
  <2>1. CASE Settled(p)
    BY <2>1 DEF Agreeing
  <2>2. CASE Unsettled(p, R)
    <3>1. Kept(InDoc(p), S)
      <4> SUFFICES ASSUME NEW d \in InDoc(p), Matters(d), NEW q \in Requests
                   PROVE  /\ SyncKey(d) \in KeysOf(Carried(S, q)) /\ Newer(Carried(S, q), d)
                              => Newer(InDoc(p), d)
                          /\ SyncKey(d) \in Deleted(S, q) => Newer(InDoc(p) \cup Set(S, q), d)
        BY DEF Kept
      <4>1. /\ SyncKey(d) \in KeysOf(Carried(R, q)) /\ Newer(Carried(R, q), d) => Newer(InDoc(p), d)
            /\ SyncKey(d) \in Deleted(R, q) => Newer(InDoc(p) \cup Set(R, q), d)
        BY <2>2 DEF Unsettled, Kept
      <4>2. CASE q = r
        BY <4>1, <4>2, <1>3
      <4>3. CASE q # r
        BY <4>1, <4>3, <1>3
      <4> QED BY <4>2, <4>3
    <3>2. Unsettled(p, S)
      BY <2>2, <3>1 DEF Unsettled
    <3> QED BY <3>2 DEF Agreeing
  <2> QED BY <2>1, <2>2, <1>6 DEF Agreeing
<1> QED
  BY <1>4, <1>5, <1>6

HandledWith(R, r) == [R EXCEPT ![r].state = "handled"]

(* A request that the proxy has handled carries the same cookies. *)
LEMMA HandledKeeps ==
    ASSUME NEW T, NEW p, NEW R, RequestsWithin(R, T), NEW r \in Requests,
           NEW S, S = HandledWith(R, r)
    PROVE  /\ RequestsWithin(S, T)
           /\ FreshPage(p, R) => FreshPage(p, S)
           /\ Agreeing(p, R) => Agreeing(p, S)
<1> DEFINE a == [R[r] EXCEPT !.state = "handled"]
<1>1. R \in [Requests -> PageRequests] /\ R[r] \in PageRequests
  BY DEF RequestsWithin
<1>2. a \in PageRequests /\ a.answer = R[r].answer /\ a.carried = R[r].carried
  BY <1>1 DEF PageRequests
<1>3. S = [R EXCEPT ![r] = a]
  BY <1>1 DEF PageRequests, HandledWith
<1> HIDE DEF a
<1>4. S \in [Requests -> PageRequests]
  BY <1>1, <1>2, <1>3
<1>5. \A q \in Requests : S[q].carried = R[q].carried /\ S[q].answer = R[q].answer
  BY <1>1, <1>2, <1>3
<1>6. \A q \in Requests : Carried(S, q) = Carried(R, q) /\ Set(S, q) = Set(R, q) /\ Deleted(S, q) = Deleted(R, q)
  BY <1>5 DEF Carried, Set, Deleted
<1>7. RequestsWithin(S, T)
  BY <1>4, <1>5, <1>6 DEF RequestsWithin
<1>8. FreshPage(p, R) => FreshPage(p, S)
  <2>1. Unread(InDoc(p), Exchanging(p), R) => Unread(InDoc(p), Exchanging(p), S)
    BY <1>6 DEF Unread
  <2>2. Unseen(InDoc(p), Exchanging(p), R) => Unseen(InDoc(p), Exchanging(p), S)
    BY <1>6 DEF Unseen
  <2> QED BY <2>1, <2>2, <1>6 DEF FreshPage, Fresh
<1>9. Kept(InDoc(p), R) => Kept(InDoc(p), S)
  BY <1>6 DEF Kept
<1> QED
  BY <1>7, <1>8, <1>9 DEF Agreeing, Unsettled

(* What an answer deletes was carried. *)
DeletesFor(carried, C) == DeletesCarried(carried) \cup Replaces(carried, C)

(* Its keys are those of carried cookies. *)
LEMMA DeletedIsCarried ==
    ASSUME NEW carried \in Seq(SyncCookies), NEW C, NEW k \in DeletesFor(carried, C)
    PROVE  \E c \in Range(carried) : k = SyncKey(c)
<1>1. Outdated(carried) \subseteq Range(carried) /\ Actual(carried) \subseteq Range(carried)
  BY DEF Outdated, Actual, Range
<1>2. CASE k \in DeletesCarried(carried)
  BY <1>1, <1>2 DEF DeletesCarried, KeysOf
<1>3. CASE k \in Replaces(carried, C)
  BY <1>1, <1>3 DEF Replaces, KeysOf
<1> QED
  BY <1>2, <1>3 DEF DeletesFor

(* generateSyncCookie and isOutdatedSyncCookie: a cookie that matters is deleted for a      *)
(* newer one, carried or set.                                                               *)
LEMMA DeletedForNewer ==
    ASSUME NEW carried \in Seq(SyncCookies), Once(carried), Distinct(Range(carried)),
           \A c \in Range(carried) : c.sync \in Kinds,
           NEW C, NEW d \in SyncCookies, Matters(d), SyncKey(d) \in DeletesFor(carried, C)
    PROVE  Newer(Range(carried), d) \/ Newer(C, d)
<1> DEFINE D == Range(carried)
<1>1. D \in SUBSET SyncCookies
  BY InRange
<1>2. D # {}
  BY DeletedIsCarried
<1>3. PICK m \in D : Newest(D, m)
  BY <1>1, <1>2, NewestOfDistinct
<1>4. Outdated(carried) = D \ {m} /\ Actual(carried) = {m}
  BY <1>3, OthersAreOutdated, NewestIsActual DEF Newest
<1>5. ASSUME SyncKey(d) \in DeletesCarried(carried) PROVE Newer(D, d)
  <2>1. PICK c \in (D \ {m}) \cup {b \in {m} : "client" \in b.sync /\ "window" \notin b.sync} :
           SyncKey(d) = SyncKey(c)
    BY <1>4, <1>5 DEF DeletesCarried, KeysOf
  <2>2. d.time = c.time /\ d.sync = c.sync
    BY <2>1 DEF SyncKey
  <2>3. CASE c \in D \ {m}
    BY <2>2, <2>3, <1>3 DEF Newest, Newer
  <2>4. CASE c = m /\ "client" \in m.sync /\ "window" \notin m.sync
    <3>1. d.sync = {"client"}
      BY <2>2, <2>4, <1>3 DEF Kinds, WindowKinds
    <3> QED BY <3>1 DEF Matters
  <2> QED BY <2>1, <2>3, <2>4
<1>6. ASSUME SyncKey(d) \in Replaces(carried, C) PROVE Newer(C, d)
  <2>1. PICK c \in D : SyncKey(d) = SyncKey(c) /\ \E s \in C : "server" \in c.sync /\ s.time > c.time
    BY <1>4, <1>6 DEF Replaces, KeysOf
  <2>2. d.time = c.time
    BY <2>1 DEF SyncKey
  <2> QED BY <2>1, <2>2 DEF Newer
<1> QED
  BY <1>5, <1>6 DEF DeletesFor

(* The requests after r was answered with the cookies C. *)
AnsweredWith(R, r, C) ==
    [R EXCEPT ![r].state = "answered",
              ![r].answer = [delete |-> DeletesFor(R[r].carried, C), set |-> C]]
SetsCookie(C, U) ==
    C = {} \/ \E s \in SyncCookies : C = {s} /\ s.sync = {"server"} /\ s.time \in U

(* The answer of r is what changes of the requests. *)
LEMMA AnsweredWithIs ==
    ASSUME NEW T, NEW R, RequestsWithin(R, T), NEW r \in Requests, NEW U, T \subseteq U,
           NEW C, SetsCookie(C, U), NEW S, S = AnsweredWith(R, r, C)
    PROVE  /\ RequestsWithin(S, U)
           /\ \A q \in Requests : Carried(S, q) = Carried(R, q)
           /\ \A q \in Requests : q # r => Set(S, q) = Set(R, q) /\ Deleted(S, q) = Deleted(R, q)
           /\ Set(S, r) = C /\ Deleted(S, r) = DeletesFor(R[r].carried, C)
<1> DEFINE answer == [delete |-> DeletesFor(R[r].carried, C), set |-> C]
           a == [R[r] EXCEPT !.state = "answered", !.answer = answer]
<1>1. R \in [Requests -> PageRequests] /\ R[r] \in PageRequests /\ R[r].carried \in Seq(SyncCookies)
  BY DEF RequestsWithin, PageRequests
<1>2. \A k \in DeletesFor(R[r].carried, C) : \E c \in Carried(R, r) : k = SyncKey(c)
  BY <1>1, DeletedIsCarried DEF Carried
<1>3. Carried(R, r) \subseteq SyncCookies
  BY <1>1, InRange DEF Carried
<1>4. DeletesFor(R[r].carried, C) \subseteq (SUBSET {"server", "client", "window"}) \X Times
  BY <1>2, <1>3 DEF SyncKey, SyncCookies
<1>5. C \in {{}} \cup {{c} : c \in SyncCookies}
  BY DEF SetsCookie
<1>6. answer \in Answers
  BY <1>4, <1>5 DEF Answers
<1>7. answer.set = C /\ answer.delete = DeletesFor(R[r].carried, C)
  OBVIOUS
<1> HIDE DEF answer
<1>8. a \in PageRequests /\ a.answer = answer /\ a.carried = R[r].carried
  BY <1>1, <1>6 DEF PageRequests
<1>9. S = [R EXCEPT ![r] = a]
  BY <1>1 DEF PageRequests, AnsweredWith, answer
<1> HIDE DEF a
<1>10. S \in [Requests -> PageRequests] /\ S[r] = a /\ \A q \in Requests : q # r => S[q] = R[q]
  BY <1>1, <1>8, <1>9
<1>11. /\ \A q \in Requests : S[q].carried = R[q].carried /\ Carried(S, q) = Carried(R, q)
       /\ \A q \in Requests : q # r => Set(S, q) = Set(R, q) /\ Deleted(S, q) = Deleted(R, q)
       /\ Set(S, r) = C /\ Deleted(S, r) = DeletesFor(R[r].carried, C)
  <2>1. \A q \in Requests : S[q].carried = R[q].carried
    BY <1>8, <1>10
  <2> QED BY <2>1, <1>7, <1>8, <1>10 DEF Carried, Set, Deleted
<1>12. RequestsWithin(S, U)
  <2> SUFFICES ASSUME NEW q \in Requests
               PROVE  /\ Once(S[q].carried)
                      /\ \A c \in Carried(S, q) : c.sync \in Kinds /\ c.time \in U
                      /\ \A c \in Set(S, q) : c.sync = {"server"} /\ c.time \in U
                      /\ \A k \in Deleted(S, q) : k[2] \in U
    BY <1>10 DEF RequestsWithin
  <2>1. Once(S[q].carried) /\ \A c \in Carried(S, q) : c.sync \in Kinds /\ c.time \in U
    BY <1>11 DEF RequestsWithin
  <2>2. CASE q = r
    <3>1. \A c \in Set(S, q) : c.sync = {"server"} /\ c.time \in U
      BY <2>2, <1>11 DEF SetsCookie
    <3>2. \A k \in Deleted(S, q) : k[2] \in U
      <4>1. \A c \in Carried(R, r) : c.time \in U
        BY DEF RequestsWithin
      <4> QED BY <4>1, <2>2, <1>2, <1>11 DEF SyncKey
    <3> QED BY <2>1, <3>1, <3>2
  <2>3. CASE q # r
    <3>1. Set(S, q) = Set(R, q) /\ Deleted(S, q) = Deleted(R, q)
      BY <2>3, <1>11
    <3>2. /\ \A c \in Set(R, q) : c.sync = {"server"} /\ c.time \in T
          /\ \A k \in Deleted(R, q) : k[2] \in T
      BY DEF RequestsWithin
    <3> QED BY <2>1, <3>1, <3>2
  <2> QED BY <2>2, <2>3
<1> QED
  BY <1>11, <1>12

(* An answer keeps windows in agreement: it sets at most one cookie, newer than all there   *)
(* are, and deletes nothing that matters but for a newer one.                               *)
LEMMA AnswerKeeps ==
    ASSUME NEW T, \A t \in T : t \in Nat, NEW p, Within(p, T), NEW R, RequestsWithin(R, T),
           NEW r \in Requests, NEW U, T \subseteq U, NEW C, SetsCookie(C, U),
           \A s \in C : s.time \in Nat /\ \A t \in T : t < s.time,
           FreshPage(p, R), NEW S, S = AnsweredWith(R, r, C)
    PROVE  FreshPage(p, S) /\ (Agreeing(p, R) => Agreeing(p, S))
<1> DEFINE D == InDoc(p)
           X == Exchanging(p)
<1>1. /\ \A q \in Requests : Carried(S, q) = Carried(R, q)
      /\ \A q \in Requests : q # r => Set(S, q) = Set(R, q) /\ Deleted(S, q) = Deleted(R, q)
      /\ Set(S, r) = C /\ Deleted(S, r) = DeletesFor(R[r].carried, C)
  BY AnsweredWithIs
<1>2. Fresh(D, X, R) /\ D \in SUBSET SyncCookies /\ \A c \in D : c.sync \in Kinds
  BY DocumentIsOfCookies DEF FreshPage, Within
<1>3. \A c \in D \cup X : c.time \in T
  BY DEF Within
<1>4. /\ R[r].carried \in Seq(SyncCookies) /\ Once(R[r].carried)
      /\ \A c \in Carried(R, r) : c.sync \in Kinds
  BY DEF RequestsWithin, PageRequests
<1>5. \A q \in Requests : /\ \A c \in Carried(R, q) \cup Set(R, q) : c.time \in T
                          /\ \A k \in Deleted(R, q) : k[2] \in T
  BY DEF RequestsWithin
<1> HIDE DEF D, X
<1>6. \A k \in Deleted(S, r) : \E c \in Carried(R, r) : k[1] = c.sync /\ k[2] = c.time
  <2>1. \A k \in Deleted(S, r) : \E c \in Carried(R, r) : k = SyncKey(c)
    BY <1>1, <1>4, DeletedIsCarried DEF Carried
  <2> QED BY <2>1 DEF SyncKey
<1>7. \A s \in C : \A t \in T : t # s.time
  OBVIOUS
<1>8. Unread(D, X, S)
  <2> SUFFICES ASSUME NEW g \in D, OfServer(g)
               PROVE  /\ \A c \in X : c.time # g.time
                      /\ \A q \in Requests :
                          /\ \A c \in Carried(S, q) : ForWindows(c) => c.time # g.time
                          /\ \A k \in Deleted(S, q) : "window" \in k[1] => k[2] # g.time
    BY DEF Unread
  <2>1. /\ \A c \in X : c.time # g.time
        /\ \A q \in Requests :
            /\ \A c \in Carried(R, q) : ForWindows(c) => c.time # g.time
            /\ \A k \in Deleted(R, q) : "window" \in k[1] => k[2] # g.time
    BY <1>2 DEF Fresh, Unread
  <2>2. \A k \in Deleted(S, r) : "window" \in k[1] => k[2] # g.time
    BY <2>1, <1>6 DEF ForWindows
  <2> QED BY <2>1, <2>2, <1>1
<1>9. Unseen(D, X, S)
  <2> SUFFICES ASSUME NEW q \in Requests, NEW s \in Set(S, q)
               PROVE  /\ \A c \in D \cup X : c.time # s.time
                      /\ \A i \in Requests :
                          /\ \A c \in Carried(S, i) : c.time # s.time
                          /\ \A k \in Deleted(S, i) : k[2] # s.time
                          /\ i # q => \A c \in Set(S, i) : c.time # s.time
    BY DEF Unseen
  <2>1. CASE q = r
    <3>1. \A t \in T : t # s.time
      BY <2>1, <1>1, <1>7
    <3>2. \A i \in Requests : \A k \in Deleted(S, i) : k[2] \in T
      <4>1. \A k \in Deleted(S, r) : k[2] \in T
        BY <1>5, <1>6
      <4> QED BY <4>1, <1>1, <1>5
    <3>3. \A i \in Requests : i # q => \A c \in Set(S, i) : c.time \in T
      BY <2>1, <1>1, <1>5
    <3>4. \A i \in Requests : \A c \in Carried(S, i) : c.time \in T
      BY <1>1, <1>5
    <3> QED BY <3>1, <3>2, <3>3, <3>4, <1>3
  <2>2. CASE q # r
    <3>1. s \in Set(R, q) /\ s.time \in T
      BY <2>2, <1>1, <1>5
    <3>2. /\ \A c \in D \cup X : c.time # s.time
          /\ \A i \in Requests :
              /\ \A c \in Carried(R, i) : c.time # s.time
              /\ \A k \in Deleted(R, i) : k[2] # s.time
              /\ i # q => \A c \in Set(R, i) : c.time # s.time
      BY <3>1, <1>2 DEF Fresh, Unseen
    <3>3. \A k \in Deleted(S, r) : k[2] # s.time
      BY <3>2, <1>6
    <3>4. \A c \in Set(S, r) : c.time # s.time
      BY <3>1, <1>1, <1>7
    <3> QED BY <3>2, <3>3, <3>4, <1>1
  <2> QED BY <2>1, <2>2
<1>10. Fresh(D, X, S)
  BY <1>1, <1>2, <1>8, <1>9 DEF Fresh
<1>11. ASSUME Unsettled(p, R) PROVE Unsettled(p, S)
  <2>1. Kept(D, S)
    <3> SUFFICES ASSUME NEW d \in D, Matters(d), NEW q \in Requests
                 PROVE  /\ SyncKey(d) \in KeysOf(Carried(S, q)) /\ Newer(Carried(S, q), d) => Newer(D, d)
                        /\ SyncKey(d) \in Deleted(S, q) => Newer(D \cup Set(S, q), d)
      BY DEF Kept
    <3>1. /\ SyncKey(d) \in KeysOf(Carried(R, q)) /\ Newer(Carried(R, q), d) => Newer(D, d)
          /\ SyncKey(d) \in Deleted(R, q) => Newer(D \cup Set(R, q), d)
      BY <1>11 DEF Unsettled, Kept, D
    <3>2. CASE q = r
      <4> SUFFICES ASSUME SyncKey(d) \in Deleted(S, r) PROVE Newer(D \cup C, d)
        BY <3>1, <3>2, <1>1
      <4>1. Newer(Carried(R, r), d) \/ Newer(C, d)
        <5>1. Distinct(Carried(R, r)) /\ d \in SyncCookies
          BY <1>2 DEF Fresh
        <5> QED BY <5>1, <1>1, <1>4, DeletedForNewer DEF Carried
      <4>2. SyncKey(d) \in KeysOf(Carried(R, r))
        <5>1. \E c \in Carried(R, r) : SyncKey(d) = SyncKey(c)
          BY <1>1, <1>4, DeletedIsCarried DEF Carried
        <5> QED BY <5>1 DEF KeysOf
      <4> QED BY <4>1, <4>2, <3>1, <3>2 DEF Newer
    <3>3. CASE q # r
      BY <3>1, <3>3, <1>1
    <3> QED BY <3>2, <3>3
  <2> QED BY <2>1, <1>11 DEF Unsettled, D
<1> QED
  BY <1>10, <1>11 DEF FreshPage, Agreeing, D, X

(* The page after an answer that deletes the keys K and sets the cookies C. *)
Applied(p, K, C) ==
    LET left == Delete(p.doc, K) IN
    [p EXCEPT !.doc = IF C = {} THEN left ELSE Put(left, CHOOSE c \in C : TRUE)]

(* An answer changes document.cookie only, by the keys it deletes and the cookie it sets. *)
LEMMA AppliedIs ==
    ASSUME NEW T, NEW p, Within(p, T), NEW K, NEW C, SetsCookie(C, T), NEW q, q = Applied(p, K, C)
    PROVE  /\ Within(q, T) /\ SameMessages(p, q) /\ q.local = p.local
           /\ InDoc(q) = {d \in InDoc(p) : SyncKey(d) \notin K /\ SyncKey(d) \notin KeysOf(C)} \cup C
<1> DEFINE left == Delete(p.doc, K)
           doc == IF C = {} THEN left ELSE Put(left, CHOOSE c \in C : TRUE)
<1>1. p \in Pages /\ p.doc \in Seq(SyncCookies) /\ Once(p.doc)
  BY DEF Within, Pages
<1>2. left \in Seq(SyncCookies) /\ Once(left) /\ Range(left) = {d \in InDoc(p) : SyncKey(d) \notin K}
  BY <1>1, DeleteKeeps DEF InDoc
<1>3. q = [p EXCEPT !.doc = doc]
  BY DEF Applied
<1> HIDE DEF left
<1>4. /\ doc \in Seq(SyncCookies) /\ Once(doc)
      /\ Range(doc) = {d \in InDoc(p) : SyncKey(d) \notin K /\ SyncKey(d) \notin KeysOf(C)} \cup C
  <2>1. CASE C = {}
    BY <2>1, <1>2 DEF KeysOf
  <2>2. CASE C # {}
    <3>1. PICK s \in SyncCookies : C = {s}
      BY <2>2 DEF SetsCookie
    <3>2. doc = Put(left, s)
      BY <3>1
    <3> HIDE DEF doc
    <3>3. doc \in Seq(SyncCookies) /\ Once(doc) /\ Range(doc) = {d \in Range(left) : SyncKey(d) # SyncKey(s)} \cup {s}
      BY <3>2, <1>2, PutCookie
    <3>4. KeysOf(C) = {SyncKey(s)}
      BY <3>1 DEF KeysOf
    <3> QED BY <3>1, <3>3, <3>4, <1>2
  <2> QED BY <2>1, <2>2
<1> HIDE DEF doc
<1>5. /\ q \in Pages /\ q.doc = doc /\ q.local = p.local
      /\ q.syncs = p.syncs /\ q.toFrame = p.toFrame /\ q.toTop = p.toTop
  BY <1>1, <1>3, <1>4 DEF Pages
<1>6. \A d \in InDoc(q) : d.sync \in Kinds /\ d.time \in T
  <2>1. \A d \in InDoc(q) : d \in InDoc(p) \/ d \in C
    BY <1>4, <1>5 DEF InDoc
  <2> QED BY <2>1 DEF Within, SetsCookie, Kinds
<1>7. Within(q, T)
  BY <1>4, <1>5, <1>6, OnlyDocument
<1> QED
  BY <1>4, <1>5, <1>7 DEF InDoc, SameMessages

(* The requests after the answer of r. *)
OverWith(R, r) ==
    [R EXCEPT ![r].state = "over", ![r].answer = NoAnswer, ![r].carried = <<>>]

(* A request that is over carries, deletes and sets nothing. *)
LEMMA OverIs ==
    ASSUME NEW T, NEW R, RequestsWithin(R, T), NEW r \in Requests, NEW S, S = OverWith(R, r)
    PROVE  /\ RequestsWithin(S, T)
           /\ Carried(S, r) = {} /\ Set(S, r) = {} /\ Deleted(S, r) = {}
           /\ \A q \in Requests : q # r =>
                Carried(S, q) = Carried(R, q) /\ Set(S, q) = Set(R, q) /\ Deleted(S, q) = Deleted(R, q)
<1> DEFINE a == [R[r] EXCEPT !.state = "over", !.answer = NoAnswer, !.carried = <<>>]
<1>1. R \in [Requests -> PageRequests] /\ R[r] \in PageRequests
  BY DEF RequestsWithin
<1>2. NoAnswer \in Answers /\ NoAnswer.set = {} /\ NoAnswer.delete = {}
  BY DEF Answers, NoAnswer
<1>3. a \in PageRequests /\ a.answer = NoAnswer /\ a.carried = <<>>
  <2>0. <<>> \in Seq(SyncCookies)
    OBVIOUS
  <2>1. PICK doc \in Seq(SyncCookies) : doc = <<>>
    BY <2>0, Zenon
  <2>2. a = [R[r] EXCEPT !.state = "over", !.answer = NoAnswer, !.carried = doc]
    BY <2>1
  <2> HIDE DEF a
  <2>3. a \in PageRequests /\ a.answer = NoAnswer /\ a.carried = doc
    BY <2>2, <1>1, <1>2 DEF PageRequests
  <2> QED BY <2>1, <2>3
<1>4. S = [R EXCEPT ![r] = a]
  BY <1>1 DEF PageRequests, OverWith
<1> HIDE DEF a
<1>5. S \in [Requests -> PageRequests] /\ S[r] = a /\ \A q \in Requests : q # r => S[q] = R[q]
  BY <1>1, <1>3, <1>4
<1>6. Carried(S, r) = {} /\ Set(S, r) = {} /\ Deleted(S, r) = {}
  BY <1>2, <1>3, <1>5 DEF Carried, Set, Deleted, Range
<1>7. \A q \in Requests : q # r =>
        Carried(S, q) = Carried(R, q) /\ Set(S, q) = Set(R, q) /\ Deleted(S, q) = Deleted(R, q)
  BY <1>5 DEF Carried, Set, Deleted
<1>8. Once(S[r].carried)
  BY <1>3, <1>5 DEF Once
<1>9. RequestsWithin(S, T)
  BY <1>5, <1>6, <1>7, <1>8 DEF RequestsWithin
<1> QED
  BY <1>6, <1>7, <1>9

(* An answer that is under way sets at most one cookie. *)
LEMMA SetsOne ==
    ASSUME NEW T, NEW R, RequestsWithin(R, T), NEW r \in Requests
    PROVE  SetsCookie(Set(R, r), T)
<1>1. Set(R, r) \in {{}} \cup {{c} : c \in SyncCookies}
  BY DEF RequestsWithin, PageRequests, Answers, Set
<1> QED
  BY <1>1 DEF RequestsWithin, SetsCookie

(* The arrival of an answer keeps windows in agreement, also if answers overtake each       *)
(* other: a cookie that it sets is the server's and newer, or there was a newer one.        *)
LEMMA ReceiveKeeps ==
    ASSUME NEW T, NEW p, Within(p, T), NEW R, RequestsWithin(R, T), NEW r \in Requests,
           FreshPage(p, R),
           NEW q, q = Applied(p, Deleted(R, r), Set(R, r)), NEW S, S = OverWith(R, r)
    PROVE  FreshPage(q, S) /\ (Agreeing(p, R) => Agreeing(q, S))
<1> DEFINE D == InDoc(p)
           X == Exchanging(p)
           C == Set(R, r)
           E == InDoc(q)
<1>1. SetsCookie(C, T)
  BY SetsOne
<1>2. /\ Within(q, T) /\ SameMessages(p, q) /\ q.local = p.local
      /\ E = {d \in D : SyncKey(d) \notin Deleted(R, r) /\ SyncKey(d) \notin KeysOf(C)} \cup C
  <2> HIDE DEF C
  <2>1. q = Applied(p, Deleted(R, r), C)
    BY DEF C
  <2> QED BY <2>1, <1>1, AppliedIs
<1>3. /\ Carried(S, r) = {} /\ Set(S, r) = {} /\ Deleted(S, r) = {}
      /\ \A i \in Requests : i # r =>
            Carried(S, i) = Carried(R, i) /\ Set(S, i) = Set(R, i) /\ Deleted(S, i) = Deleted(R, i)
  BY OverIs
<1>4. Fresh(D, X, R) /\ D \in SUBSET SyncCookies /\ \A c \in D : c.sync \in Kinds
  BY DocumentIsOfCookies DEF FreshPage, Within
<1>5. Exchanging(q) = X
  BY <1>2, SameMessagesExchanging
<1>6. \A s \in C : OfServer(s) /\ ~ForWindows(s) /\ Matters(s) /\ s \in SyncCookies
  BY <1>1 DEF SetsCookie, OfServer, ForWindows, Matters
<1>7. \A s \in C : /\ \A c \in D \cup X : c.time # s.time
                   /\ \A i \in Requests :
                       /\ \A c \in Carried(R, i) : c.time # s.time
                       /\ \A k \in Deleted(R, i) : k[2] # s.time
                       /\ i # r => \A c \in Set(R, i) : c.time # s.time
  BY <1>4 DEF Fresh, Unseen
<1>8. \A c, d \in C : c = d
  BY <1>1 DEF SetsCookie
<1> HIDE DEF D, X, C, E
<1>9. \A d \in E : d \in D \/ d \in C
  BY <1>2
<1>10. Fresh(E, X, S)
  <2>1. Distinct(E)
    <3>1. \A c, d \in D : c.time = d.time => c = d
      BY <1>4 DEF Fresh, Distinct
    <3> QED BY <3>1, <1>7, <1>8, <1>9 DEF Distinct
  <2>2. Single(E)
    BY <1>4, <1>6, <1>9 DEF Fresh, Single
  <2>3. Unread(E, X, S)
    <3> SUFFICES ASSUME NEW g \in E, OfServer(g)
                 PROVE  /\ \A c \in X : c.time # g.time
                        /\ \A i \in Requests :
                            /\ \A c \in Carried(S, i) : ForWindows(c) => c.time # g.time
                            /\ \A k \in Deleted(S, i) : "window" \in k[1] => k[2] # g.time
      BY DEF Unread
    <3>1. /\ \A c \in X : c.time # g.time
          /\ \A i \in Requests :
              /\ \A c \in Carried(R, i) : ForWindows(c) => c.time # g.time
              /\ \A k \in Deleted(R, i) : "window" \in k[1] => k[2] # g.time
      <4>1. CASE g \in D
        BY <4>1, <1>4 DEF Fresh, Unread
      <4>2. CASE g \in C
        BY <4>2, <1>7
      <4> QED BY <4>1, <4>2, <1>9
    <3> QED BY <3>1, <1>3
  <2>4. Same(E, X)
    BY <1>4, <1>6, <1>9 DEF Fresh, Same
  <2>5. Unseen(E, X, S)
    <3> SUFFICES ASSUME NEW i \in Requests, NEW s \in Set(S, i)
                 PROVE  /\ \A c \in E \cup X : c.time # s.time
                        /\ \A j \in Requests :
                            /\ \A c \in Carried(S, j) : c.time # s.time
                            /\ \A k \in Deleted(S, j) : k[2] # s.time
                            /\ j # i => \A c \in Set(S, j) : c.time # s.time
      BY DEF Unseen
    <3>1. i # r /\ s \in Set(R, i)
      BY <1>3
    <3>2. /\ \A c \in D \cup X : c.time # s.time
          /\ \A j \in Requests :
              /\ \A c \in Carried(R, j) : c.time # s.time
              /\ \A k \in Deleted(R, j) : k[2] # s.time
              /\ j # i => \A c \in Set(R, j) : c.time # s.time
      BY <3>1, <1>4 DEF Fresh, Unseen
    <3>3. \A c \in C : c.time # s.time
      BY <3>1, <3>2 DEF C
    <3> QED BY <3>2, <3>3, <1>3, <1>9
  <2>6. \A i \in Requests : Distinct(Carried(S, i))
    BY <1>3, <1>4 DEF Fresh, Distinct
  <2> QED BY <2>1, <2>2, <2>3, <2>4, <2>5, <2>6 DEF Fresh
<1>11. Settled(p) => Settled(q)
  BY <1>2, <1>6, <1>9 DEF Settled, D, E
<1>12. ASSUME Unsettled(p, R) PROVE Unsettled(q, S)
  <2>1. Kept(D, R) /\ NewestMatters(D)
    BY <1>12 DEF Unsettled, D
  <2>2. PICK m \in D \cup C : \A d \in D \cup C : d.time <= m.time
    <3>1. D \cup C \in SUBSET SyncCookies /\ D \cup C # {}
      BY <2>1, <1>4, <1>6 DEF NewestMatters
    <3> QED BY <3>1, NewestExists
  <2>3. \A d \in D \cup C : d.time \in Nat
    BY <1>4, <1>6 DEF SyncCookies, Times
  <2>4. ~Newer(D \cup C, m) /\ ~Newer(D, m)
    BY <2>2, <2>3 DEF Newer
  <2>5. m \in E /\ Matters(m)
    <3>1. CASE m \in C
      BY <3>1, <1>2, <1>6
    <3>2. CASE m \in D
      <4>1. Matters(m)
        BY <3>2, <2>1, <2>4 DEF NewestMatters
      <4>2. SyncKey(m) \notin Deleted(R, r)
        BY <3>2, <4>1, <2>1, <2>4 DEF Kept, C
      <4>3. SyncKey(m) \notin KeysOf(C)
        BY <3>2, <1>7 DEF KeysOf, SyncKey
      <4> QED BY <3>2, <4>1, <4>2, <4>3, <1>2
    <3> QED BY <3>1, <3>2
  <2>6. ASSUME NEW d \in D \cup C, Newer(D \cup C, d) PROVE Newer(E, d)
    BY <2>2, <2>3, <2>5, <2>6 DEF Newer
  <2>7. Kept(E, S)
    <3> SUFFICES ASSUME NEW d \in E, Matters(d), NEW i \in Requests
                 PROVE  /\ SyncKey(d) \in KeysOf(Carried(S, i)) /\ Newer(Carried(S, i), d) => Newer(E, d)
                        /\ SyncKey(d) \in Deleted(S, i) => Newer(E \cup Set(S, i), d)
      BY DEF Kept
    <3>1. CASE i = r
      BY <3>1, <1>3 DEF KeysOf
    <3>2. CASE i # r /\ d \in D
      <4>1. /\ SyncKey(d) \in KeysOf(Carried(R, i)) /\ Newer(Carried(R, i), d) => Newer(D, d)
            /\ SyncKey(d) \in Deleted(R, i) => Newer(D \cup Set(R, i), d)
        BY <3>2, <2>1 DEF Kept
      <4>2. Newer(D, d) => Newer(E, d)
        BY <3>2, <2>6 DEF Newer
      <4>3. Newer(D \cup Set(R, i), d) => Newer(E \cup Set(R, i), d)
        BY <4>2 DEF Newer
      <4> QED BY <3>2, <4>1, <4>2, <4>3, <1>3
    <3>3. CASE i # r /\ d \in C
      <4>1. SyncKey(d) \notin KeysOf(Carried(R, i))
        BY <3>3, <1>7 DEF KeysOf, SyncKey
      <4>2. SyncKey(d) \notin Deleted(R, i)
        BY <3>3, <1>7 DEF SyncKey
      <4> QED BY <3>3, <4>1, <4>2, <1>3
    <3> QED BY <3>1, <3>2, <3>3, <1>9
  <2>8. NewestMatters(E)
    <3>1. \A d \in E : Newer(E, d) \/ Matters(d)
      <4> SUFFICES ASSUME NEW d \in E, ~Matters(d) PROVE Newer(E, d)
        OBVIOUS
      <4>1. d \in D
        BY <1>6, <1>9
      <4>2. Newer(D, d)
        BY <4>1, <2>1 DEF NewestMatters
      <4> QED BY <4>1, <4>2, <2>6 DEF Newer
    <3> QED BY <3>1, <2>5 DEF NewestMatters
  <2>9. ASSUME NEW c \in E, ForWindows(c) PROVE Telling(q, c)
    <3>1. c \in D
      BY <2>9, <1>6, <1>9
    <3>2. Telling(p, c)
      BY <2>9, <3>1, <1>12 DEF Unsettled, D
    <3> QED BY <3>2, <1>2, SameTelling
  <2> QED BY <2>7, <2>8, <2>9 DEF Unsettled, E
<1> QED
  BY <1>5, <1>10, <1>11, <1>12 DEF FreshPage, Agreeing, E

-----------------------------------------------------------------------------
(* The inductive invariant: what all states have in common, then the two parts of it that    *)
(* hold as long as times tell changes apart.                                                 *)
Sound ==
    /\ Past /\ Within(page, Stamps) /\ RequestsWithin(request, Stamps)
    /\ jar \in Values \cup {NoValue} /\ missed \in BOOLEAN /\ stale \in BOOLEAN
FreshCookies == Ambiguous \/ FreshPage(page, request)
Agreement    == Ambiguous \/ missed \/ Agreeing(page, request)
Inv == Sound /\ FreshCookies /\ Agreement

(* The invariant holds of a page that has no cookie yet. *)
LEMMA InitInv ==
    ASSUME Init
    PROVE  Inv
<1>1. Stamps = {} /\ DOMAIN changes = {} /\ changes \in Seq(Changes)
  BY DEF Init, Stamps
<1>2. Past
  BY <1>1, BoundsAssumption DEF Init, Past, Times
<1>3. <<>> \in Seq(SyncCookies) /\ <<>> \in Seq(Syncs) /\ <<>> \in Seq(ToFrames) /\ <<>> \in Seq(ToTops)
  OBVIOUS
<1>4. page \in Pages
  BY <1>3 DEF Init, InitialPage, Pages
<1>5. /\ page.doc = <<>> /\ page.syncs = <<>> /\ page.local = [w \in Windows |-> NoValue]
      /\ \A x \in CrossDomain : page.toFrame[x] = <<>> /\ page.toTop[x] = <<>>
  BY DEF Init, InitialPage
<1>6. InDoc(page) = {} /\ Syncing(page) = {} /\ Asked(page) = {} /\ Exchanging(page) = {}
  BY <1>5 DEF InDoc, Syncing, Asked, Asks, Exchanging, Range
<1>7. Within(page, Stamps)
  BY <1>4, <1>5, <1>6 DEF Within, Once, Messages
<1>8. \A r \in Requests : request[r].carried = <<>> /\ request[r].answer = NoAnswer
  BY DEF Init
<1>9. NoAnswer \in Answers /\ NoAnswer.set = {} /\ NoAnswer.delete = {}
  BY DEF Answers, NoAnswer
<1>10. \A r \in Requests : Carried(request, r) = {} /\ Set(request, r) = {} /\ Deleted(request, r) = {}
  BY <1>8, <1>9 DEF Carried, Set, Deleted, Range
<1>11. request \in [Requests -> PageRequests]
  BY <1>3, <1>9 DEF Init, PageRequests
<1>12. RequestsWithin(request, Stamps)
  BY <1>8, <1>10, <1>11 DEF RequestsWithin, Once
<1>13. FreshPage(page, request)
  BY <1>6, <1>10 DEF FreshPage, Fresh, Distinct, Single, Unread, Same, Unseen
<1>14. Agreeing(page, request)
  BY <1>5, <1>6 DEF Agreeing, Settled
<1> QED
  BY <1>2, <1>7, <1>12, <1>13, <1>14 DEF Inv, Sound, FreshCookies, Agreement, Init

(* A step in which only the page changes, or a window misses its answer. *)
LEMMA PageKeeps ==
    ASSUME Inv, UNCHANGED <<now, changes, jar, request, stale>>, missed' \in BOOLEAN,
           Within(page', Stamps),
           FreshPage(page, request) => FreshPage(page', request),
           FreshPage(page, request) /\ Agreeing(page, request) /\ ~missed'
               => ~missed /\ Agreeing(page', request),
           missed => missed'
    PROVE  Inv'
<1>1. Stamps' = Stamps /\ (Ambiguous' <=> Ambiguous) /\ Past'
  BY DEF Stamps, Ambiguous, Inv, Sound, Past
<1>2. Sound'
  BY <1>1 DEF Inv, Sound
<1>3. FreshCookies'
  BY <1>1 DEF Inv, FreshCookies
<1>4. Agreement'
  BY <1>1 DEF Inv, FreshCookies, Agreement
<1> QED
  BY <1>2, <1>3, <1>4 DEF Inv

(* Every action keeps the invariant. A read, *)
LEMMA ReadInv ==
    ASSUME Inv, NEW w \in Windows, ReadCookie(w)
    PROVE  Inv'
<1>1. Within(page, Stamps) /\ page' = SyncCookie(page, w) /\ Unchanged
  BY DEF Inv, Sound, ReadCookie
<1>2. Within(page', Stamps)
  BY <1>1, SyncCookieWithin
<1>3. FreshPage(page, request) =>
        FreshPage(page', request) /\ (Agreeing(page, request) => Agreeing(page', request))
  BY <1>1, ReadSettles
<1> QED
  BY <1>1, <1>2, <1>3, PageKeeps DEF Unchanged, Inv, Sound

(* the request of an iframe to the top window, *)
LEMMA StartInv ==
    ASSUME Inv, NEW x \in CrossDomain, TopReceivesStart(x)
    PROVE  Inv'
<1>1. /\ Within(page, Stamps) /\ Unchanged
      /\ page.toTop[x] # <<>> /\ Head(page.toTop[x]).cmd = "start"
  BY DEF Inv, Sound, TopReceivesStart
<1>2. PICK c : c = CHOOSE d \in Head(page.toTop[x]).cookie : TRUE
  OBVIOUS
<1>3. PICK r : r = [page EXCEPT !.toTop[x] = Tail(@)]
  OBVIOUS
<1>4. PICK s : s = SyncWindowCookie(r, {Top}, c)
  OBVIOUS
<1>5. page' = SyncFromTop(s, c, x)
  BY <1>2, <1>3, <1>4 DEF TopReceivesStart
<1>6. /\ c \in SyncCookies /\ Asks(page, x, 1, c) /\ c \in Exchanging(page)
      /\ c.sync \in WindowKinds /\ c.time \in Stamps
      /\ \A d : Asks(page, x, 1, d) => d = c
  BY <1>1, <1>2, FirstStart
<1>7. Within(r, Stamps) /\ Taken(page, r, x)
  BY <1>1, <1>3, TakenIs
<1>8. Forwards(Stamps, page, r, s, x, c)
  BY <1>4, <1>6, <1>7, ForwardsIs
<1>9. Within(page', Stamps)
  <2>1. Within(s, Stamps) /\ x \in Windows
    BY <1>8 DEF Forwards, Windows, Iframes
  <2>2. /\ Within(page', Stamps)
        /\ page'.toTop = s.toTop
        /\ c \in InDoc(s) => page'.local = [w \in Windows |-> IF w \in Called(x) THEN c.value
                                                             ELSE s.local[w]]
        /\ c \notin InDoc(s) => page'.local = s.local
        /\ Remote(x) = {} => InDoc(page') = Removed(InDoc(s), c) /\ page'.syncs = s.syncs
        /\ Remote(x) # {} => Starts(s, page', c, Remote(x))
    BY <2>1, <1>5, <1>6, SyncFromTopIs
  <2> QED BY <2>2
<1>10. FreshPage(page, request) =>
         FreshPage(page', request) /\ (Agreeing(page, request) => Agreeing(page', request))
  BY <1>1, <1>5, <1>6, <1>8, StartSettles
<1> QED
  BY <1>1, <1>9, <1>10, PageKeeps DEF Unchanged, Inv, Sound

(* an answer of an iframe, *)
LEMMA DoneInv ==
    ASSUME Inv, NEW x \in CrossDomain, TopReceivesDone(x)
    PROVE  Inv'
<1>1. /\ Within(page, Stamps) /\ Unchanged
      /\ page.toTop[x] # <<>> /\ Head(page.toTop[x]).cmd = "done"
  BY DEF Inv, Sound, TopReceivesDone
<1>2. 1 \in DOMAIN page.toTop[x] /\ Head(page.toTop[x]) = page.toTop[x][1]
  <2>1. page.toTop[x] \in Seq(ToTops)
    BY <1>1 DEF Within, Pages
  <2> QED BY <2>1, <1>1
<1>3. PICK id : id = page.toTop[x][1].id
  OBVIOUS
<1>4. PICK r : r = [page EXCEPT !.toTop[x] = Tail(@)]
  OBVIOUS
<1>5. page' = Resolve(r, id, x)
  BY <1>2, <1>3, <1>4 DEF TopReceivesDone
<1>6. Within(r, Stamps) /\ Taken(page, r, x)
  BY <1>1, <1>4, TakenIs
<1>7. id \in DOMAIN r.syncs /\ page.toTop[x][1].cmd = "done"
  <2>1. id \in DOMAIN page.syncs
    BY <1>1, <1>2, <1>3, MessagesAreOfSyncs
  <2> QED BY <2>1, <1>1, <1>2, <1>6 DEF Taken
<1>8. Within(page', Stamps)
  BY <1>5, <1>6, <1>7, ResolveIs
<1>9. FreshPage(page, request) =>
        FreshPage(page', request) /\ (Agreeing(page, request) => Agreeing(page', request))
  BY <1>1, <1>2, <1>3, <1>5, <1>6, <1>7, DoneSettles
<1> QED
  BY <1>1, <1>8, <1>9, PageKeeps DEF Unchanged, Inv, Sound

(* a message to an iframe, *)
LEMMA FrameInv ==
    ASSUME Inv, NEW x \in CrossDomain, FrameReceivesStart(x)
    PROVE  Inv'
<1>1. Within(page, Stamps) /\ Unchanged /\ page.toFrame[x] # <<>>
  BY DEF Inv, Sound, FrameReceivesStart
<1>2. PICK m : m = Head(page.toFrame[x])
  OBVIOUS
<1>3. page' = SyncWindowCookie(Reply(page, x, m), {x}, m.cookie)
  BY <1>2 DEF FrameReceivesStart, Reply
<1>4. Within(page', Stamps) /\ FrameAnswers(page, page', x, m)
  BY <1>1, <1>2, <1>3, FrameReceivesIs
<1>5. FreshPage(page, request) =>
        FreshPage(page', request) /\ (Agreeing(page, request) => Agreeing(page', request))
  BY <1>1, <1>4, FrameSettles
<1> QED
  BY <1>1, <1>4, <1>5, PageKeeps DEF Unchanged, Inv, Sound

(* a message that was not answered in time, repeated or given up, *)
LEMMA TimeoutInv ==
    ASSUME Inv, NEW x \in CrossDomain, NEW id \in DOMAIN page.syncs, MessageTimeout(id, x)
    PROVE  Inv'
<1>1. Within(page, Stamps) /\ UNCHANGED <<now, changes, jar, request, stale>>
  BY DEF Inv, Sound, MessageTimeout
<1>2. CASE AttemptsLeft(page.syncs[id].attempts[x])
  <2>1. page' = SentAgain(page, id, x) /\ missed' = missed
    BY <1>2 DEF MessageTimeout, SentAgain
  <2>2. /\ Within(page', Stamps) /\ SameExchange(page, page', id)
        /\ page'.syncs[id].waiting = page.syncs[id].waiting /\ page'.doc = page.doc
    BY <1>1, <1>2, <2>1, SendsAgain
  <2>3. FreshPage(page, request) =>
          FreshPage(page', request) /\ (Agreeing(page, request) => Agreeing(page', request))
    BY <2>2, AgainSettles
  <2> QED BY <1>1, <2>1, <2>2, <2>3, PageKeeps DEF Inv, Sound
<1>3. CASE ~AttemptsLeft(page.syncs[id].attempts[x])
  <2>1. page' = Resolve(page, id, x) /\ missed' = TRUE
    BY <1>3 DEF MessageTimeout
  <2>2. Within(page', Stamps) /\ Resolves(page, page', id, x)
    BY <1>1, <2>1, ResolveIs
  <2>3. FreshPage(page, request) => FreshPage(page', request)
    BY <1>1, <2>2, FreshResolves
  <2> QED BY <1>1, <2>1, <2>2, <2>3, PageKeeps
<1> QED
  BY <1>2, <1>3

(* the clock, *)
LEMMA TickInv ==
    ASSUME Inv, Tick
    PROVE  Inv'
<1>1. now' = now + 1 /\ now < MaxTime /\ UNCHANGED <<page, changes, jar, request, missed, stale>>
  BY DEF Tick
<1>2. Past'
  <2>1. now \in 0..MaxTime /\ changes \in Seq(Changes) /\ \A i \in DOMAIN changes : changes[i].time <= now
    BY DEF Inv, Sound, Past, Times
  <2>2. \A i \in DOMAIN changes : changes[i].time \in Nat
    <3>1. \A i \in DOMAIN changes : changes[i] \in Changes
      BY <2>1
    <3> QED BY <3>1 DEF Changes, Times
  <2>3. \A i \in DOMAIN changes : changes[i].time <= now + 1
    BY <2>1, <2>2
  <2> QED BY <1>1, <2>1, <2>3, BoundsAssumption DEF Past, Times
<1>3. Stamps' = Stamps /\ (Ambiguous' <=> Ambiguous)
  BY <1>1 DEF Stamps, Ambiguous
<1> QED
  BY <1>1, <1>2, <1>3 DEF Inv, Sound, FreshCookies, Agreement

(* A step of a request, without a change of the cookie. *)
LEMMA RequestKeeps ==
    ASSUME Inv, UNCHANGED <<now, changes, missed>>, jar' \in Values \cup {NoValue}, stale' \in BOOLEAN,
           Within(page', Stamps), RequestsWithin(request', Stamps),
           FreshPage(page, request) =>
             FreshPage(page', request') /\ (Agreeing(page, request) => Agreeing(page', request'))
    PROVE  Inv'
<1>1. Stamps' = Stamps /\ (Ambiguous' <=> Ambiguous) /\ Past'
  BY DEF Stamps, Ambiguous, Inv, Sound, Past
<1>2. Sound'
  BY <1>1 DEF Inv, Sound
<1>3. FreshCookies'
  BY <1>1 DEF Inv, FreshCookies
<1>4. Agreement'
  BY <1>1 DEF Inv, FreshCookies, Agreement
<1> QED
  BY <1>2, <1>3, <1>4 DEF Inv

(* a request that is sent, *)
LEMMA SendInv ==
    ASSUME Inv, NEW r \in Requests, SendRequest(r)
    PROVE  Inv'
<1>1. /\ request' = SentWith(request, r, page.doc)
      /\ UNCHANGED <<page, now, changes, jar, missed, stale>>
  BY DEF SendRequest, SentWith
<1>2. Within(page, Stamps) /\ RequestsWithin(request, Stamps)
  BY DEF Inv, Sound
<1>3. /\ RequestsWithin(request', Stamps)
      /\ FreshPage(page, request) => FreshPage(page, request')
      /\ Agreeing(page, request) => Agreeing(page, request')
  BY <1>1, <1>2, SendKeeps
<1> QED
  BY <1>1, <1>2, <1>3, RequestKeeps DEF Inv, Sound

(* handled by the proxy, *)
LEMMA ApplyInv ==
    ASSUME Inv, NEW r \in Requests, ApplyClientSyncCookie(r)
    PROVE  Inv'
<1> DEFINE fromClient == {c \in Actual(request[r].carried) : "client" \in c.sync}
<1>1. /\ request' = HandledWith(request, r)
      /\ jar' = IF fromClient = {} THEN jar ELSE (CHOOSE c \in fromClient : TRUE).value
      /\ UNCHANGED <<page, now, changes, missed>>
      /\ stale' = (stale \/ Overtakes(r) \/ \E c \in fromClient : Superseded(c))
  BY DEF ApplyClientSyncCookie, HandledWith
<1>2. Within(page, Stamps) /\ RequestsWithin(request, Stamps)
  BY DEF Inv, Sound
<1>3. /\ RequestsWithin(request', Stamps)
      /\ FreshPage(page, request) => FreshPage(page, request')
      /\ Agreeing(page, request) => Agreeing(page, request')
  BY <1>1, <1>2, HandledKeeps
<1>4. fromClient \subseteq SyncCookies
  <2>1. request[r].carried \in Seq(SyncCookies)
    BY <1>2 DEF RequestsWithin, PageRequests
  <2> QED BY <2>1 DEF Actual
<1>5. jar' \in Values \cup {NoValue}
  <2>1. CASE fromClient = {}
    BY <2>1, <1>1 DEF Inv, Sound
  <2>2. CASE fromClient # {}
    <3>1. (CHOOSE c \in fromClient : TRUE) \in fromClient
      BY <2>2
    <3> QED BY <3>1, <2>2, <1>1, <1>4 DEF SyncCookies
  <2> QED BY <2>1, <2>2
<1>6. stale' \in BOOLEAN
  BY <1>1
<1> QED
  BY <1>1, <1>2, <1>3, <1>5, <1>6, RequestKeeps

(* and answered. *)
LEMMA ReceiveInv ==
    ASSUME Inv, NEW r \in Requests, ReceiveAnswer(r)
    PROVE  Inv'
<1>1. /\ page' = Applied(page, Deleted(request, r), Set(request, r))
      /\ request' = OverWith(request, r)
      /\ UNCHANGED <<now, changes, jar, missed>>
  BY DEF ReceiveAnswer, Applied, Deleted, Set, OverWith
<1>2. stale' \in BOOLEAN
  BY DEF ReceiveAnswer
<1>3. Within(page, Stamps) /\ RequestsWithin(request, Stamps)
  BY DEF Inv, Sound
<1>4. SetsCookie(Set(request, r), Stamps)
  BY <1>3, SetsOne
<1>5. Within(page', Stamps)
  BY <1>1, <1>3, <1>4, AppliedIs
<1>6. RequestsWithin(request', Stamps)
  BY <1>1, <1>3, OverIs
<1>7. FreshPage(page, request) =>
        FreshPage(page', request') /\ (Agreeing(page, request) => Agreeing(page', request'))
  BY <1>1, <1>3, ReceiveKeeps
<1> QED
  BY <1>1, <1>2, <1>5, <1>6, <1>7, RequestKeeps DEF Inv, Sound

(* Requests are also those of the times T and others. *)
LEMMA RequestsMore ==
    ASSUME NEW T, NEW R, RequestsWithin(R, T), NEW U, T \subseteq U
    PROVE  RequestsWithin(R, U)
  BY DEF RequestsWithin

(* A step in which the cookie changes, to be shown for a time newer than all before: if it  *)
(* is not, times do not tell the changes apart.                                             *)
LEMMA ChangeKeeps ==
    ASSUME Inv, NEW d \in Changes, d.time = now, changes' = Append(changes, d),
           UNCHANGED <<now, missed>>, jar' \in Values \cup {NoValue}, stale' \in BOOLEAN,
           Within(page', Stamps \cup {Stamp(d)}), RequestsWithin(request', Stamps \cup {Stamp(d)}),
           (\A t \in Stamps : t \in Nat /\ t < Stamp(d)) /\ FreshPage(page, request) =>
             FreshPage(page', request') /\ (Agreeing(page, request) => Agreeing(page', request'))
    PROVE  Inv'
<1>1. Past
  BY DEF Inv, Sound
<1>2. Stamps' = Stamps \cup {Stamp(d)} /\ Past'
  BY <1>1, NextStamps
<1>3. Sound'
  BY <1>2 DEF Inv, Sound
<1>4. CASE Ambiguous'
  BY <1>3, <1>4 DEF Inv, FreshCookies, Agreement
<1>5. CASE ~Ambiguous'
  <2>1. ~Ambiguous /\ \A t \in Stamps : t \in Nat /\ t < Stamp(d)
    BY <1>1, <1>5, NewStamp
  <2>2. FreshPage(page, request) /\ (missed \/ Agreeing(page, request))
    BY <2>1 DEF Inv, FreshCookies, Agreement
  <2>3. FreshPage(page', request') /\ (missed' \/ Agreeing(page', request'))
    BY <2>1, <2>2
  <2> QED BY <1>3, <2>3 DEF Inv, FreshCookies, Agreement
<1> QED
  BY <1>4, <1>5

(* A write of the page in a window, *)
LEMMA WriteInv ==
    ASSUME Inv, NEW w \in Windows, NEW v \in Values, WriteCookie(w, v)
    PROVE  Inv'
<1>1. PICK c : c = [sync |-> {"client", "window"}, time |-> Seconds(now), value |-> v]
  OBVIOUS
<1>2. PICK d : d = [by |-> "page", time |-> now]
  OBVIOUS
<1>3. /\ changes' = Append(changes, d)
      /\ page' = SyncCookie(SyncClientCookie(SetCookie(page, w, c), w, c), w)
      /\ UNCHANGED <<now, jar, request, missed, stale>>
  BY <1>1, <1>2 DEF WriteCookie
<1>4. Past /\ Within(page, Stamps) /\ RequestsWithin(request, Stamps)
  BY DEF Inv, Sound
<1>5. d \in Changes /\ d.time = now /\ Stamp(d) = Seconds(now)
  BY <1>2, <1>4 DEF Past, Changes, Stamp
<1>6. Stamp(d) \in Times
  BY <1>3, <1>4, <1>5, NextStamps
<1>7. c \in SyncCookies /\ c.sync = {"client", "window"} /\ c.time = Stamp(d)
  BY <1>1, <1>5, <1>6 DEF SyncCookies
<1> DEFINE T == Stamps \cup {Stamp(d)}
<1>8. Within(page, T) /\ RequestsWithin(request', T)
  BY <1>3, <1>4, WithinMore, RequestsMore
<1>9. Within(page', T)
  <2>1. c.sync \in WindowKinds /\ c.time \in T
    BY <1>7 DEF WindowKinds
  <2> QED BY <2>1, <1>3, <1>7, <1>8, WriteWithin
<1>10. ASSUME \A t \in Stamps : t < Stamp(d), FreshPage(page, request)
       PROVE  FreshPage(page', request) /\ Agreeing(page', request)
  <2>1. \A t \in Stamps : t < c.time
    BY <1>7, <1>10
  <2> QED BY <2>1, <1>10, <1>3, <1>4, <1>7, WriteSettles
<1>11. jar' \in Values \cup {NoValue} /\ stale' \in BOOLEAN /\ request' = request
  BY <1>3 DEF Inv, Sound
<1> HIDE DEF T
<1> QED
  BY <1>3, <1>5, <1>8, <1>9, <1>10, <1>11, ChangeKeeps DEF T

(* or of the destination, in its answer to r. *)
LEMMA ProcessInv ==
    ASSUME Inv, NEW r \in Requests, NEW set \in {{}} \cup {{v} : v \in Values},
           ProcessSetCookieHeader(r, set)
    PROVE  Inv'
<1>1. PICK C : C = {[sync |-> {"server"}, time |-> now, value |-> v] : v \in set}
  OBVIOUS
<1>2. PICK d : d = [by |-> "server", time |-> now]
  OBVIOUS
<1>3. /\ jar' = IF set = {} THEN jar ELSE CHOOSE v \in set : TRUE
      /\ changes' = IF set = {} THEN changes ELSE Append(changes, d)
      /\ request' = AnsweredWith(request, r, C)
      /\ stale' = (stale \/ Overtakes(r))
      /\ UNCHANGED <<page, now, missed>>
  BY <1>1, <1>2 DEF ProcessSetCookieHeader, AnsweredWith, DeletesFor
<1>4. Past /\ Within(page, Stamps) /\ RequestsWithin(request, Stamps) /\ stale' \in BOOLEAN
  BY <1>3 DEF Inv, Sound
<1>5. d \in Changes /\ d.time = now /\ Stamp(d) = now /\ now \in Times
  BY <1>2, <1>4 DEF Past, Changes, Stamp
<1>6. \A t \in Stamps : t \in Nat
  <2>1. changes \in Seq(Changes)
    BY <1>4 DEF Past
  <2>2. \A i \in DOMAIN changes : changes[i] \in Changes
    BY <2>1
  <2>3. \A i \in DOMAIN changes : changes[i].time \in Nat
    BY <2>2 DEF Changes, Times
  <2>4. \A i \in DOMAIN changes : Seconds(changes[i].time) \in Nat
    BY <2>3, SecondsBefore
  <2> QED BY <2>3, <2>4 DEF Stamps, Stamp
<1>7. CASE set = {}
  <2>1. C = {} /\ SetsCookie(C, Stamps) /\ changes' = changes /\ jar' = jar
    BY <1>1, <1>3, <1>7 DEF SetsCookie
  <2>2. RequestsWithin(request', Stamps)
    BY <2>1, <1>3, <1>4, AnsweredWithIs
  <2>3. ASSUME FreshPage(page, request)
        PROVE  FreshPage(page, request') /\ (Agreeing(page, request) => Agreeing(page, request'))
    BY <2>1, <2>3, <1>3, <1>4, <1>6, AnswerKeeps
  <2>4. page' = page /\ UNCHANGED <<now, changes, missed>> /\ jar' \in Values \cup {NoValue}
    BY <2>1, <1>3 DEF Inv, Sound
  <2> QED BY <2>2, <2>3, <2>4, <1>4, RequestKeeps
<1>8. CASE set # {}
  <2>1. PICK v \in Values : set = {v}
    BY <1>8
  <2>2. jar' = v /\ changes' = Append(changes, d)
    BY <2>1, <1>3, <1>8
  <2>3. PICK s : s = [sync |-> {"server"}, time |-> now, value |-> v]
    OBVIOUS
  <2>4. C = {s} /\ s \in SyncCookies /\ s.sync = {"server"} /\ s.time = Stamp(d)
    BY <2>1, <2>3, <1>1, <1>5 DEF SyncCookies
  <2> DEFINE U == Stamps \cup {Stamp(d)}
  <2>5. SetsCookie(C, U)
    BY <2>4 DEF SetsCookie
  <2>6. Within(page, U)
    BY <1>4, WithinMore
  <2> HIDE DEF U
  <2>7. Stamps \subseteq U
    BY DEF U
  <2>8. RequestsWithin(request', U)
    BY <2>5, <2>7, <1>3, <1>4, AnsweredWithIs
  <2>9. ASSUME \A t \in Stamps : t < Stamp(d), FreshPage(page, request)
        PROVE  FreshPage(page, request') /\ (Agreeing(page, request) => Agreeing(page, request'))
    <3>1. \A t \in C : t.time \in Nat /\ \A u \in Stamps : u < t.time
      BY <2>4, <2>9, <1>5 DEF Times
    <3> QED BY <3>1, <2>5, <2>7, <2>9, <1>3, <1>4, <1>6, AnswerKeeps
  <2>10. page' = page /\ UNCHANGED <<now, missed>> /\ jar' \in Values \cup {NoValue}
    BY <2>2, <1>3
  <2> QED BY <2>2, <2>6, <2>8, <2>9, <2>10, <1>4, <1>5, ChangeKeeps DEF U
<1> QED
  BY <1>7, <1>8

(* So every step keeps the invariant. *)
LEMMA NextInv ==
    ASSUME Inv, [Next]_vars
    PROVE  Inv'
<1>1. CASE \E w \in Windows, v \in Values : WriteCookie(w, v)
  BY <1>1, WriteInv
<1>2. CASE \E w \in Windows : ReadCookie(w)
  BY <1>2, ReadInv
<1>3. CASE \E x \in CrossDomain : TopReceivesStart(x) \/ TopReceivesDone(x) \/ FrameReceivesStart(x)
  BY <1>3, StartInv, DoneInv, FrameInv
<1>4. CASE \E x \in CrossDomain : \E id \in DOMAIN page.syncs : MessageTimeout(id, x)
  BY <1>4, TimeoutInv
<1>5. CASE Tick
  BY <1>5, TickInv
<1>6. CASE \E r \in Requests : SendRequest(r) \/ ApplyClientSyncCookie(r) \/ ReceiveAnswer(r)
  BY <1>6, SendInv, ApplyInv, ReceiveInv
<1>7. CASE \E r \in Requests : \E set \in {{}} \cup {{v} : v \in Values} : ProcessSetCookieHeader(r, set)
  BY <1>7, ProcessInv
<1>8. CASE UNCHANGED vars
  <2>1. UNCHANGED <<page, now, changes, jar, request, missed, stale>>
    BY <1>8 DEF vars
  <2>2. Stamps' = Stamps /\ (Ambiguous' <=> Ambiguous) /\ (Past' <=> Past)
    BY <2>1 DEF Stamps, Ambiguous, Past
  <2> QED BY <2>1, <2>2 DEF Inv, Sound, FreshCookies, Agreement
<1> QED
  BY <1>1, <1>2, <1>3, <1>4, <1>5, <1>6, <1>7, <1>8 DEF Next

(* The invariant holds in every state. *)
LEMMA Invariant == Spec => []Inv
<1>1. Init => Inv
  BY InitInv
<1>2. Inv /\ [Next]_vars => Inv'
  BY NextInv
<1> QED
  BY <1>1, <1>2, PTL DEF Spec

-----------------------------------------------------------------------------
(* What is left behind.  A window still has to be told of a cookie that is for windows.      *)

WaitedFor(p, c)  == \E i \in DOMAIN p.syncs : p.syncs[i].cookie = c /\ p.syncs[i].waiting # {}
Awaited(p, c)    == c \in Asked(p) \/ WaitedFor(p, c)
AwaitedBut(p, c) == \A d \in InDoc(p) : ForWindows(d) /\ d # c => Awaited(p, d)
AllAwaited(p)    == \A c \in InDoc(p) : ForWindows(c) => Awaited(p, c)

(* Both are preserved when there is less in the document. *)
LEMMA FewerAwaited ==
    ASSUME NEW p, NEW q, SameMessages(p, q), NEW c,
           \A d \in InDoc(q) : ForWindows(d) => d \in InDoc(p)
    PROVE  /\ AllAwaited(p) => AllAwaited(q)
           /\ AwaitedBut(p, c) => AwaitedBut(q, c)
  BY DEF SameMessages, AllAwaited, AwaitedBut, Awaited, WaitedFor, Asked, Asks

(* A cookie that is removed is not for windows any more. *)
LEMMA RemovedForWindows ==
    ASSUME NEW D \in SUBSET SyncCookies, NEW c \in SyncCookies, c.sync \in WindowKinds
    PROVE  \A d \in Removed(D, c) : ForWindows(d) => d \in D /\ d # c
<1> SUFFICES ASSUME NEW d \in Removed(D, c), ForWindows(d)
             PROVE  d \in D /\ d # c
  OBVIOUS
<1>1. CASE d \in D /\ SyncKey(d) # SyncKey(c)
  BY <1>1
<1>2. CASE c \in D /\ OfClient(c) /\ d = ForClient(c)
  BY <1>2, ForClientIs DEF ForWindows
<1> QED
  BY <1>1, <1>2, RemovedIs

(* A cookie of which the top window tells, or has told, the others is awaited or removed. *)
LEMMA FromTopAwaits ==
    ASSUME NEW T, NEW p, Within(p, T), NEW initiator \in Windows,
           NEW c \in SyncCookies, c.sync \in WindowKinds, c.time \in T, AwaitedBut(p, c),
           NEW q, q = SyncFromTop(p, c, initiator)
    PROVE  AllAwaited(q)
<1>1. /\ Within(q, T)
      /\ q.toTop = p.toTop
      /\ c \in InDoc(p) => q.local = [w \in Windows |-> IF w \in Called(initiator) THEN c.value
                                                       ELSE p.local[w]]
      /\ c \notin InDoc(p) => q.local = p.local
      /\ Remote(initiator) = {} => InDoc(q) = Removed(InDoc(p), c) /\ q.syncs = p.syncs
      /\ Remote(initiator) # {} => Starts(p, q, c, Remote(initiator))
  BY SyncFromTopIs
<1>2. InDoc(p) \in SUBSET SyncCookies
  BY DocumentIsOfCookies DEF Within
<1>3. CASE Remote(initiator) = {}
  <2>1. \A d \in InDoc(q) : ForWindows(d) => d \in InDoc(p) /\ d # c
    BY <1>1, <1>2, <1>3, RemovedForWindows
  <2> QED BY <2>1, <1>1, <1>3 DEF AllAwaited, AwaitedBut, Awaited, WaitedFor, Asked, Asks
<1>4. CASE Remote(initiator) # {}
  <2>1. WaitedFor(q, c)
    BY <1>1, <1>4 DEF Starts, WaitedFor
  <2>2. InDoc(q) = InDoc(p) /\ Asked(q) = Asked(p)
    BY <1>1, <1>4 DEF Starts, InDoc, Asked, Asks
  <2>3. \A d : WaitedFor(p, d) => WaitedFor(q, d)
    BY <1>1, <1>4 DEF Starts, WaitedFor
  <2> QED BY <2>1, <2>2, <2>3 DEF AllAwaited, AwaitedBut, Awaited
<1> QED
  BY <1>3, <1>4

(* So is a cookie of which any window tells the others, *)
LEMMA BetweenWindowsAwaits ==
    ASSUME NEW T, NEW p, Within(p, T), NEW w \in Windows,
           NEW c \in SyncCookies, c.sync \in WindowKinds, c.time \in T, AwaitedBut(p, c),
           NEW q, q = SyncBetweenWindows(p, w, c)
    PROVE  AllAwaited(q)
<1>1. Top \notin SameDomain /\ Top \notin CrossDomain /\ SameDomain \cap CrossDomain = {}
  BY WindowsAssumption DEF Iframes
<1>2. CASE w = Top
  <2>1. q = SyncFromTop(p, c, Top)
    BY <1>1, <1>2 DEF SyncBetweenWindows
  <2> QED BY <2>1, <1>2, FromTopAwaits
<1>3. CASE w \in SameDomain
  <2> DEFINE r == SyncWindowCookie(p, {Top}, c)
  <2>1. q = SyncFromTop(r, c, w)
    BY <1>1, <1>3 DEF SyncBetweenWindows
  <2>2. {Top} \in SUBSET Windows
    BY DEF Windows
  <2>3. /\ Within(r, T)
        /\ c \in InDoc(p) => r.local = [v \in Windows |-> IF v \in {Top} THEN c.value ELSE p.local[v]]
        /\ c \notin InDoc(p) => r = p
        /\ r.doc = p.doc /\ r.syncs = p.syncs /\ r.toFrame = p.toFrame /\ r.toTop = p.toTop
    BY <2>2, SyncWindowCookieIs
  <2> HIDE DEF r
  <2>4. SameMessages(p, r) /\ InDoc(r) = InDoc(p)
    BY <2>3 DEF SameMessages, InDoc
  <2>5. AwaitedBut(r, c)
    BY <2>4, FewerAwaited
  <2> QED BY <2>1, <2>3, <2>5, FromTopAwaits
<1>4. CASE w \in CrossDomain
  <2>1. q = [p EXCEPT !.toTop[w] = Append(@, [cmd |-> "start", id |-> NoId, cookie |-> {c}])]
    BY <1>1, <1>4 DEF SyncBetweenWindows
  <2>2. Within(q, T) /\ AsksTop(p, q, w, c)
    BY <2>1, <1>4, AsksStart
  <2>3. c \in Asked(q)
    BY <2>2, <1>4 DEF AsksTop, Asked
  <2>4. InDoc(q) = InDoc(p) /\ \A d : WaitedFor(p, d) => WaitedFor(q, d)
    BY <2>2 DEF AsksTop, InDoc, WaitedFor
  <2>5. Asked(p) \subseteq Asked(q)
    <3> SUFFICES ASSUME NEW d \in Asked(p) PROVE d \in Asked(q)
      OBVIOUS
    <3>1. PICK y \in CrossDomain, j \in Places : Asks(p, y, j, d)
      BY DEF Asked
    <3>2. p.toTop \in [CrossDomain -> Seq(ToTops)] /\ p \in Pages
      BY DocumentIsOfCookies DEF Within
    <3>3. q.toTop = [p.toTop EXCEPT ![w] = Append(@, [cmd |-> "start", id |-> NoId, cookie |-> {c}])]
      BY <2>1, <3>2 DEF Pages
    <3>4. Asks(q, y, j, d)
      <4>1. CASE y = w
        <5>1. q.toTop[w] = Append(p.toTop[w], [cmd |-> "start", id |-> NoId, cookie |-> {c}])
          BY <3>2, <3>3, <1>4
        <5>2. p.toTop[w] \in Seq(ToTops)
          BY <3>2, <1>4
        <5>3. j \in DOMAIN q.toTop[w] /\ q.toTop[w][j] = p.toTop[w][j]
          BY <5>1, <5>2, <3>1, <4>1 DEF Asks
        <5> QED BY <5>3, <3>1, <4>1 DEF Asks
      <4>2. CASE y # w
        BY <3>1, <3>2, <3>3, <4>2 DEF Asks
      <4> QED BY <4>1, <4>2
    <3> QED BY <3>4 DEF Asked
  <2> QED BY <2>3, <2>4, <2>5 DEF AllAwaited, AwaitedBut, Awaited
<1> QED
  BY <1>2, <1>3, <1>4 DEF Windows, Iframes

(* which a window does that reads a cookie of the server, *)
LEMMA SyncCookieAwaits ==
    ASSUME NEW T, NEW p, Within(p, T), AllAwaited(p), NEW w \in Windows, NEW q, q = SyncCookie(p, w)
    PROVE  AllAwaited(q)
<1> DEFINE r == Cleaned(p)
           c == CHOOSE d \in Actual(r.doc) : TRUE
<1>1. q = ApplyActual(r, w) /\ Within(r, T)
  BY CleanedIs DEF SyncCookie, Cleaned
<1>2. AllAwaited(r)
  <2>1. SameMessages(p, r) /\ InDoc(r) \subseteq InDoc(p)
    BY CleanedIs DEF SameMessages
  <2> HIDE DEF r
  <2> QED BY <2>1, FewerAwaited
<1> HIDE DEF r
<1>3. CASE \E d \in Actual(r.doc) : "server" \in d.sync
  <2>1. q = SyncServerCookie(r, w, c) /\ c \in InDoc(r)
    BY <1>1, <1>3, ActualIsInDoc DEF ApplyActual
  <2> HIDE DEF c
  <2>2. PICK s : Within(s, T) /\ Reads(r, s, w, c) /\ q = SyncBetweenWindows(s, w, ToWindows(c))
    <3>1. SpreadsRead(T, r, q, w, c)
      BY <2>1, <1>1, SyncServerCookieIs
    <3> QED BY <3>1 DEF SpreadsRead
  <2>3. c \in SyncCookies /\ c.sync \in Kinds /\ c.time \in T
    BY <2>1, <1>1, DocumentIsOfCookies DEF Within
  <2>4. ToWindows(c) \in SyncCookies /\ ToWindows(c).sync \in WindowKinds /\ ToWindows(c).time \in T
    BY <2>3, ToWindowsIs
  <2>5. AwaitedBut(s, ToWindows(c))
    <3>1. \A d : Awaited(r, d) => Awaited(s, d)
      BY <2>2 DEF Reads, Awaited, WaitedFor, Asked, Asks
    <3> QED BY <3>1, <2>2, <1>2 DEF Reads, AwaitedBut, AllAwaited
  <2> QED BY <2>2, <2>4, <2>5, BetweenWindowsAwaits
<1>4. CASE /\ ~ \E d \in Actual(r.doc) : "server" \in d.sync
           /\ \E d \in Actual(r.doc) : "window" \in d.sync
  <2>1. q = SetCookie(r, w, c) /\ c \in InDoc(r)
    BY <1>1, <1>4, ActualIsInDoc DEF ApplyActual
  <2> HIDE DEF c
  <2>2. c \in SyncCookies
    BY <2>1, <1>1, DocumentIsOfCookies DEF Within
  <2>3. SameMessages(r, q) /\ InDoc(q) = InDoc(r)
    <3>1. q.doc = r.doc /\ q.syncs = r.syncs /\ q.toTop = r.toTop
      BY <2>1, <1>1 DEF Within, Pages, SetCookie
    <3> QED BY <3>1 DEF SameMessages, InDoc
  <2> QED BY <2>3, <1>2, FewerAwaited
<1>5. CASE /\ ~ \E d \in Actual(r.doc) : "server" \in d.sync
           /\ ~ \E d \in Actual(r.doc) : "window" \in d.sync
  BY <1>1, <1>2, <1>5 DEF ApplyActual
<1> QED
  BY <1>3, <1>4, <1>5

(* and one that writes. *)
LEMMA WriteAwaits ==
    ASSUME NEW T, NEW p, Within(p, T), AllAwaited(p), NEW w \in Windows,
           NEW c \in SyncCookies, c.sync \in WindowKinds, c.time \in T,
           NEW q, q = SyncCookie(SyncClientCookie(SetCookie(p, w, c), w, c), w)
    PROVE  AllAwaited(q)
<1>1. PICK s : s = SyncClientCookie(SetCookie(p, w, c), w, c)
  OBVIOUS
<1>2. SpreadsWritten(T, p, s, w, c)
  BY <1>1, SyncClientCookieIs
<1>3. PICK r : Writes(T, p, r, w, c) /\ s = SyncBetweenWindows(r, w, c)
  BY <1>2 DEF SpreadsWritten
<1>4. AwaitedBut(r, c)
  <2>1. \A d : Awaited(p, d) => Awaited(r, d)
    BY <1>3 DEF Writes, SameMessages, Awaited, WaitedFor, Asked, Asks
  <2> QED BY <2>1, <1>3 DEF Writes, AwaitedBut, AllAwaited
<1>5. Within(s, T) /\ AllAwaited(s)
  BY <1>3, <1>4, BetweenWindowsWithin, BetweenWindowsAwaits DEF Writes
<1> QED
  BY <1>1, <1>5, SyncCookieAwaits

(* The top window takes a message, *)
LEMMA TakenAwaits ==
    ASSUME NEW p, NEW q, NEW x \in CrossDomain, Taken(p, q, x), AllAwaited(p)
    PROVE  \A d \in InDoc(q) : ForWindows(d) /\ ~Asks(p, x, 1, d) => Awaited(q, d)
<1> SUFFICES ASSUME NEW d \in InDoc(q), ForWindows(d), ~Asks(p, x, 1, d)
             PROVE  Awaited(q, d)
  OBVIOUS
<1>1. Awaited(p, d)
  BY DEF AllAwaited, Taken, InDoc
<1>2. CASE WaitedFor(p, d)
  BY <1>2 DEF Taken, WaitedFor, Awaited
<1>3. CASE d \in Asked(p)
  <2>1. PICK y \in CrossDomain, j \in Places : Asks(p, y, j, d)
    BY <1>3 DEF Asked
  <2>2. Asks(q, y, IF y = x THEN j - 1 ELSE j, d)
    BY <2>1 DEF Taken
  <2>3. (IF y = x THEN j - 1 ELSE j) \in Places
    BY <2>1 DEF Places
  <2> QED BY <2>2, <2>3, <1>3 DEF Asked, Awaited
<1> QED
  BY <1>1, <1>2, <1>3 DEF Awaited

(* and passes on what it asks for; *)
LEMMA StartAwaits ==
    ASSUME NEW T, NEW p, Within(p, T), AllAwaited(p), NEW x \in CrossDomain,
           NEW c \in SyncCookies, c.sync \in WindowKinds, c.time \in T,
           \A d : Asks(p, x, 1, d) => d = c,
           NEW r, NEW s, Forwards(T, p, r, s, x, c), NEW q, q = SyncFromTop(s, c, x)
    PROVE  AllAwaited(q)
<1>1. \A d \in InDoc(r) : ForWindows(d) /\ d # c => Awaited(r, d)
  BY TakenAwaits DEF Forwards
<1>2. AwaitedBut(r, c) /\ SameMessages(r, s) /\ InDoc(s) = InDoc(r)
  BY <1>1 DEF AwaitedBut, Forwards, Taken, InDoc
<1>3. AwaitedBut(s, c)
  BY <1>2, FewerAwaited
<1>4. Within(s, T) /\ x \in Windows
  BY DEF Forwards, Windows, Iframes
<1> QED
  BY <1>3, <1>4, FromTopAwaits

(* a synchronisation ends with its last answer. *)
LEMMA ResolveAwaits ==
    ASSUME NEW T, NEW p, Within(p, T), AllAwaited(p), NEW id \in DOMAIN p.syncs, NEW x \in CrossDomain,
           NEW q, Resolves(p, q, id, x)
    PROVE  AllAwaited(q)
<1> DEFINE c == p.syncs[id].cookie
<1>1. InDoc(p) \in SUBSET SyncCookies /\ c \in SyncCookies /\ c.sync \in WindowKinds
  <2>1. p.syncs \in Seq(Syncs) /\ InDoc(p) \subseteq SyncCookies
    BY DocumentIsOfCookies DEF Within
  <2>2. p.syncs[id] \in Syncs
    BY <2>1
  <2>3. c \in Exchanging(p)
    BY DEF Exchanging, Syncing
  <2> QED BY <2>1, <2>2, <2>3 DEF Within, Syncs
<1>2. \A d : d \in Asked(p) => d \in Asked(q)
  BY DEF Resolves, SameExchange, Asked, Asks
<1>3. CASE p.syncs[id].waiting = {x}
  <2>1. \A d \in InDoc(q) : ForWindows(d) => d \in InDoc(p) /\ d # c
    <3>1. InDoc(q) = Removed(InDoc(p), c)
      BY <1>3 DEF Resolves
    <3> HIDE DEF c
    <3> QED BY <3>1, <1>1, RemovedForWindows
  <2>2. \A d : d # c /\ WaitedFor(p, d) => WaitedFor(q, d)
    BY DEF Resolves, SameExchange, WaitedFor
  <2> QED BY <2>1, <2>2, <1>2 DEF AllAwaited, Awaited
<1>4. CASE p.syncs[id].waiting # {x}
  <2>1. InDoc(q) = InDoc(p)
    BY <1>4 DEF Resolves
  <2>2. \A d : WaitedFor(p, d) => WaitedFor(q, d)
    <3> SUFFICES ASSUME NEW d, NEW i \in DOMAIN p.syncs, p.syncs[i].cookie = d, p.syncs[i].waiting # {}
                 PROVE  WaitedFor(q, d)
      BY DEF WaitedFor
    <3>1. i \in DOMAIN q.syncs /\ q.syncs[i].cookie = d
      BY DEF Resolves, SameExchange
    <3>2. q.syncs[i].waiting # {}
      BY <1>4 DEF Resolves, SameExchange
    <3> QED BY <3>1, <3>2 DEF WaitedFor
  <2> QED BY <2>1, <2>2, <1>2 DEF AllAwaited, Awaited
<1> QED
  BY <1>3, <1>4

-----------------------------------------------------------------------------
(* What becomes of the last change, at n, to v, by the page or not.                          *)

(* A cookie of the last change has its value; only the page's is for the proxy. *)
OfLast(c, n, v, byPage) == c.time = n => c.value = v /\ (OfClient(c) => byPage)
ValuesOfLast(n, v, byPage, p, R) ==
    /\ \A c \in InDoc(p) : OfLast(c, n, v, byPage)
    /\ \A r \in Requests :
        /\ \A c \in Carried(R, r) : OfLast(c, n, v, byPage)
        /\ \A s \in Set(R, r) : s.time = n => s.value = v /\ ~byPage

(* The windows: the answer that sets the last value is under way, nobody has read it, all    *)
(* are being told, or all have it.                                                           *)
NothingSet(R) == \A r \in Requests : Set(R, r) = {}
Coming(n, byPage, R)     == ~byPage /\ \E r \in Requests : \E s \in Set(R, r) : s.time = n
Arrived(n, byPage, p, R) == ~byPage /\ NothingSet(R) /\ \E c \in InDoc(p) : OfServer(c) /\ c.time = n
Told(n, byPage, p, R) ==
    /\ byPage \/ NothingSet(R)
    /\ \E c : ForWindows(c) /\ c.time = n /\ InDoc(p) = {c}
Known(n, v, byPage, p, R) ==
    /\ byPage \/ NothingSet(R)
    /\ \A w \in Windows : p.local[w] = v
    /\ \A c \in InDoc(p) : c.sync = {"client"} /\ c.time = n
Phase(n, v, byPage, p, R) ==
    \/ Coming(n, byPage, R) \/ Arrived(n, byPage, p, R)
    \/ Told(n, byPage, p, R) \/ Known(n, v, byPage, p, R)

(* Requests are handled in their order, and an answer deletes what a newer one replaces.     *)
Rank(state) ==
    IF state = "unsent" THEN 0 ELSE IF state = "sent" THEN 1 ELSE IF state = "handled" THEN 2
    ELSE IF state = "answered" THEN 3 ELSE 4
InTurn(R) ==
    /\ \A q, r \in Requests : q < r => Rank(R[r].state) <= Rank(R[q].state)
    /\ \A q, r \in Requests : q < r => \A a \in Set(R, q), b \in Set(R, r) : a.time < b.time
    /\ \A r \in Requests :
        /\ Set(R, r) # {} => R[r].state = "answered"
        /\ R[r].state = "unsent" => Carried(R, r) = {}
        /\ \A k \in Deleted(R, r) : \E c \in Carried(R, r) :
              k = SyncKey(c) /\ (Matters(c) => Newer(Carried(R, r) \cup Set(R, r), c))

(* The proxy: it has the last value, or the page's cookie will bring it. *)
Brings(R, r, n) == \E c \in Carried(R, r) : OfClient(c) /\ c.time = n
Brought(n, v, R, j) ==
    j = v /\ \A r \in Requests : R[r].state = "sent" =>
                 \A c \in Actual(R[r].carried) : OfClient(c) => c.time = n
HasClient(p) == \E c \in InDoc(p) : OfClient(c)
JarFollows(n, v, byPage, p, R, j) ==
    /\ ~byPage => j = v
    /\ byPage =>
        /\ HasClient(p) \/ Brought(n, v, R, j)
        /\ (\E r \in Requests : R[r].state \in {"handled", "answered"} /\ Brings(R, r, n)) => Brought(n, v, R, j)
        /\ \A q, r \in Requests : q < r /\ Brings(R, q, n) => \A c \in Carried(R, r) : c.time = n

Follows(n, v, byPage, p, R, j) ==
    /\ ValuesOfLast(n, v, byPage, p, R) /\ Phase(n, v, byPage, p, R)
    /\ InTurn(R) /\ JarFollows(n, v, byPage, p, R, j)

Latest   == IF changes = <<>> THEN -1 ELSE Stamp(changes[Len(changes)])
PageLast == changes # <<>> /\ changes[Len(changes)].by = "page"
Following ==
    \/ Ambiguous \/ missed \/ stale
    \/ /\ \A t \in Stamps : t <= Latest
       /\ \E v \in Values \cup {NoValue} : Follows(Latest, v, PageLast, page, request, jar)

-----------------------------------------------------------------------------
(* Steps of the page: what q shares with p, and that the last change goes on.                *)

Descends(p, q) ==
    \A d \in InDoc(q) : \E c \in InDoc(p) :
        d.time = c.time /\ d.value = c.value /\ (OfClient(d) => OfClient(c))
Goes(n, v, byPage, p, q, R) ==
    /\ Descends(p, q) /\ Phase(n, v, byPage, q, R)
    /\ byPage /\ HasClient(p) => HasClient(q)

(* Such a step keeps what is known of the last change. *)
LEMMA GoesFollows ==
    ASSUME NEW n, NEW v, NEW byPage, NEW p, NEW q, NEW R, NEW j, Follows(n, v, byPage, p, R, j),
           Goes(n, v, byPage, p, q, R)
    PROVE  Follows(n, v, byPage, q, R, j)
<1>1. ValuesOfLast(n, v, byPage, q, R)
  BY DEF Follows, Goes, ValuesOfLast, Descends, OfLast
<1>2. JarFollows(n, v, byPage, q, R, j)
  BY DEF Follows, Goes, JarFollows
<1> QED
  BY <1>1, <1>2 DEF Follows, Goes

(* The document stays, and the copies do, unless a cookie is for windows, *)
LEMMA SameDocumentGoes ==
    ASSUME NEW n, NEW v, NEW byPage, NEW p, NEW q, NEW R, Phase(n, v, byPage, p, R),
           InDoc(q) = InDoc(p), (\E c \in InDoc(p) : ForWindows(c)) \/ q.local = p.local
    PROVE  Goes(n, v, byPage, p, q, R)
<1>1. Descends(p, q) /\ (HasClient(p) => HasClient(q))
  BY DEF Descends, HasClient
<1>2. Known(n, v, byPage, p, R) => Known(n, v, byPage, q, R)
  BY DEF Known, ForWindows
<1>3. Phase(n, v, byPage, q, R)
  BY <1>2 DEF Phase, Coming, Arrived, Told
<1> QED
  BY <1>1, <1>3 DEF Goes

(* A cookie of the document is told to all windows that are called, or all know it. *)
LEMMA SpreadGoes ==
    ASSUME NEW n, NEW v, NEW byPage, NEW T, NEW p, Within(p, T), NEW R,
           ValuesOfLast(n, v, byPage, p, R), Phase(n, v, byPage, p, R), Distinct(InDoc(p)),
           NEW c \in InDoc(p), c.sync \in WindowKinds, NEW q,
           \/ InDoc(q) = InDoc(p)
           \/ (\A w \in Windows : q.local[w] = c.value) /\ InDoc(q) = Removed(InDoc(p), c)
    PROVE  Goes(n, v, byPage, p, q, R)
<1>1. InDoc(p) \in SUBSET SyncCookies /\ c \in SyncCookies
  BY DocumentIsOfCookies DEF Within
<1>2. ForWindows(c) /\ ~OfServer(c)
  BY DEF WindowKinds, ForWindows, OfServer
<1>3. CASE InDoc(q) = InDoc(p)
  BY <1>2, <1>3, SameDocumentGoes
<1>4. CASE (\A w \in Windows : q.local[w] = c.value) /\ InDoc(q) = Removed(InDoc(p), c)
  <2>1. \A d \in InDoc(q) :
           \/ d \in InDoc(p) /\ SyncKey(d) # SyncKey(c)
           \/ c \in InDoc(p) /\ OfClient(c) /\ d = ForClient(c)
    BY <1>1, <1>4, RemovedIs
  <2>2. OfClient(c) => /\ ForClient(c).sync = {"client"} /\ ForClient(c).time = c.time
                       /\ ForClient(c).value = c.value
    BY <1>1, ForClientIs
  <2>3. Descends(p, q)
    BY <2>1, <2>2 DEF Descends
  <2>4. Coming(n, byPage, R) => Goes(n, v, byPage, p, q, R)
    BY <2>3 DEF Coming, Goes, Phase
  <2>5. ASSUME Arrived(n, byPage, p, R)
        PROVE  Goes(n, v, byPage, p, q, R)
    <3>1. PICK g \in InDoc(p) : OfServer(g) /\ g.time = n
      BY <2>5 DEF Arrived
    <3>2. g.time # c.time
      BY <3>1, <1>2 DEF Distinct
    <3>3. SyncKey(g) # SyncKey(c) /\ (OfClient(c) => SyncKey(g) # SyncKey(ForClient(c)))
      BY <3>2, <2>2 DEF SyncKey
    <3>4. g \in InDoc(q)
      BY <3>3, <1>4 DEF Removed
    <3> QED BY <3>1, <3>4, <2>3, <2>5 DEF Goes, Arrived, Phase
  <2>6. ASSUME Told(n, byPage, p, R)
        PROVE  Goes(n, v, byPage, p, q, R)
    <3>1. InDoc(p) = {c} /\ c.time = n /\ c.value = v
      BY <2>6 DEF Told, ValuesOfLast, OfLast
    <3>2. CASE OfClient(c)
      <4>1. InDoc(q) = {ForClient(c)}
        BY <3>1, <3>2, <1>4 DEF Removed
      <4>2. Known(n, v, byPage, q, R) /\ HasClient(q)
        BY <4>1, <3>1, <3>2, <2>2, <2>6, <1>4 DEF Known, Told, HasClient, OfClient
      <4> QED BY <4>2, <2>3 DEF Goes, Phase
    <3>3. CASE ~OfClient(c)
      <4>1. InDoc(q) = {}
        BY <3>1, <3>3, <1>4 DEF Removed
      <4>2. Known(n, v, byPage, q, R) /\ ~HasClient(p)
        BY <4>1, <3>1, <3>3, <2>6, <1>4 DEF Known, Told, HasClient
      <4> QED BY <4>2, <2>3 DEF Goes, Phase
    <3> QED BY <3>2, <3>3
  <2>7. ~Known(n, v, byPage, p, R)
    BY <1>2 DEF Known, ForWindows
  <2> QED BY <2>4, <2>5, <2>6, <2>7 DEF Phase
<1> QED
  BY <1>3, <1>4

(* A window reads the cookie. *)
LEMMA ReadGoes ==
    ASSUME NEW n \in Int, NEW v, NEW byPage \in BOOLEAN, NEW T, \A t \in T : t <= n, NEW p, Within(p, T),
           NEW R, FreshPage(p, R),
           ValuesOfLast(n, v, byPage, p, R), Phase(n, v, byPage, p, R),
           NEW w \in Windows, NEW q, q = SyncCookie(p, w)
    PROVE  Goes(n, v, byPage, p, q, R)
<1> DEFINE D == InDoc(p)
<1>1. Fresh(D, Exchanging(p), R) /\ D \subseteq SyncCookies
  BY DocumentIsOfCookies DEF FreshPage, Within
<1>2. \A d \in D : d.time \in Nat /\ d.time <= n /\ d.sync \in Kinds
  BY <1>1 DEF Within, SyncCookies, Times
<1>3. SyncsCookie(T, p, q, w)
  BY <1>1, SyncCookieIs DEF Fresh
<1>4. CASE InDoc(p) = {} /\ InDoc(q) = {} /\ q.local = p.local
  BY <1>4, SameDocumentGoes
<1>5. ASSUME NEW m, Newest(D, m), NEW g \in D, g.time = n
      PROVE  g = m
  BY <1>2, <1>5 DEF Newest
<1>6. ASSUME NEW m, Applies(p, q, w, m)
      PROVE  Goes(n, v, byPage, p, q, R)
  <2>1. Newest(D, m) /\ m \in D /\ ~OfServer(m) /\ InDoc(q) = {m}
    BY <1>6 DEF Applies, Newest
  <2>2. Descends(p, q)
    BY <2>1 DEF Descends
  <2>3. Coming(n, byPage, R) => Goes(n, v, byPage, p, q, R)
    BY <2>2 DEF Coming, Goes, Phase
  <2>4. ~Arrived(n, byPage, p, R)
    BY <2>1, <1>5 DEF Arrived
  <2>5. Told(n, byPage, p, R) => InDoc(q) = InDoc(p) /\ ForWindows(m)
    BY <2>1 DEF Told
  <2>6. Told(n, byPage, p, R) => Goes(n, v, byPage, p, q, R)
    BY <2>1, <2>5, SameDocumentGoes
  <2>7. ASSUME Known(n, v, byPage, p, R)
        PROVE  Goes(n, v, byPage, p, q, R)
    <3>1. m.sync = {"client"} /\ m.time = n
      BY <2>1, <2>7 DEF Known
    <3>2. q.local = p.local /\ OfClient(m)
      BY <3>1, <1>6 DEF Applies, ForWindows, OfClient
    <3>3. Known(n, v, byPage, q, R) /\ HasClient(q)
      BY <2>1, <2>7, <3>1, <3>2 DEF Known, HasClient
    <3> QED BY <3>3, <2>2 DEF Goes, Phase
  <2> QED BY <2>3, <2>4, <2>6, <2>7 DEF Phase
<1>7. ASSUME NEW m, NEW r, ReadsNewest(T, p, r, w, m), q = SyncBetweenWindows(r, w, ToWindows(m))
      PROVE  Goes(n, v, byPage, p, q, R)
  <2>1. Newest(D, m) /\ m \in D /\ OfServer(m) /\ m \in SyncCookies /\ m.sync \in Kinds
    BY <1>1, <1>2, <1>7 DEF ReadsNewest, Newest
  <2>2. PICK c : c = ToWindows(m)
    OBVIOUS
  <2>3. /\ c \in SyncCookies /\ c.sync \in WindowKinds /\ c.sync = {"window"}
        /\ c.time = m.time /\ c.value = m.value
    BY <2>1, <2>2, ToWindowsIs
  <2>4. ForWindows(c) /\ ~OfClient(c)
    BY <2>3 DEF ForWindows, OfClient
  <2>5. /\ Within(r, T) /\ InDoc(r) = {c} /\ Exchanging(r) = Exchanging(p)
        /\ r.local = [p.local EXCEPT ![w] = c.value]
    BY <1>7, <2>2, <2>3, SameMessagesExchanging DEF ReadsNewest
  <2>6. c \notin Exchanging(r)
    BY <1>1, <2>1, <2>3, <2>5 DEF Fresh, Unread
  <2>7. r.local[w] = c.value
    BY <2>5, DocumentIsOfCookies DEF Within
  <2>8. Spread(r, q, c)
    BY <1>7, <2>2, <2>3, <2>5, <2>6, <2>7, BetweenWindowsSpreads
  <2>9. InDoc(q) = {c} \/ ((\A u \in Windows : q.local[u] = c.value) /\ InDoc(q) = {})
    <3>1. Removed({c}, c) = {}
      BY <2>4 DEF Removed
    <3> QED BY <3>1, <2>5, <2>8 DEF Spread, InDoc
  <2>10. Descends(p, q)
    BY <2>1, <2>3, <2>4, <2>9 DEF Descends
  <2>11. Coming(n, byPage, R) => Goes(n, v, byPage, p, q, R)
    BY <2>10 DEF Coming, Goes, Phase
  <2>12. ASSUME Arrived(n, byPage, p, R)
         PROVE  Goes(n, v, byPage, p, q, R)
    <3>1. c.time = n /\ c.value = v
      <4>1. m.time = n
        BY <2>1, <2>12, <1>5 DEF Arrived
      <4> QED BY <4>1, <2>1, <2>3 DEF ValuesOfLast, OfLast
    <3>2. Told(n, byPage, q, R) \/ Known(n, v, byPage, q, R)
      BY <3>1, <2>4, <2>9, <2>12 DEF Told, Known, Arrived
    <3> QED BY <3>2, <2>10, <2>12 DEF Goes, Phase, Arrived
  <2>13. ~Told(n, byPage, p, R)
    BY <2>1, KindsOfCookies DEF Told
  <2>14. ~Known(n, v, byPage, p, R)
    BY <2>1 DEF Known, OfServer
  <2> QED BY <2>11, <2>12, <2>13, <2>14 DEF Phase
<1> QED
  BY <1>3, <1>4, <1>6, <1>7 DEF SyncsCookie

(* A cookie that is exchanged and outdated is not in the document, nor is one of its key. *)
LEMMA OutdatedRemoved ==
    ASSUME NEW D, NEW X, NEW R, Fresh(D, X, R), NEW c \in X, c.sync \in WindowKinds, c \notin D
    PROVE  Removed(D, c) = D
<1>1. \A d \in D : SyncKey(d) # SyncKey(c)
  <2> SUFFICES ASSUME NEW d \in D, SyncKey(d) = SyncKey(c) PROVE FALSE
    OBVIOUS
  <2>1. ForWindows(d) /\ d.time = c.time
    BY DEF SyncKey, ForWindows, WindowKinds
  <2>2. d = c
    BY <2>1 DEF Fresh, Same
  <2> QED BY <2>2
<1> QED
  BY <1>1 DEF Removed

(* The top window passes on what an iframe asks for. *)
LEMMA StartGoes ==
    ASSUME NEW n, NEW v, NEW byPage, NEW T, NEW p, Within(p, T), NEW R, FreshPage(p, R), Agreeing(p, R),
           ValuesOfLast(n, v, byPage, p, R), Phase(n, v, byPage, p, R),
           NEW x \in CrossDomain, NEW c \in SyncCookies,
           Asks(p, x, 1, c), c \in Exchanging(p), c.sync \in WindowKinds, c.time \in T,
           NEW r, NEW s, Forwards(T, p, r, s, x, c),
           NEW q, q = SyncFromTop(s, c, x)
    PROVE  Goes(n, v, byPage, p, q, R)
<1> DEFINE D == InDoc(p)
<1>1. Fresh(D, Exchanging(p), R) /\ D \in SUBSET SyncCookies
  BY DocumentIsOfCookies DEF FreshPage, Within
<1>2. Within(s, T) /\ InDoc(s) = D /\ Exchanging(s) = Exchanging(r)
  <2>1. InDoc(s) = D
    BY DEF Forwards, InDoc
  <2>2. Exchanging(s) = Exchanging(r)
    BY SameMessagesExchanging DEF Forwards
  <2> QED BY <2>1, <2>2 DEF Forwards
<1>3. ForWindows(c)
  BY DEF WindowKinds, ForWindows
<1>4. x \in Windows /\ x # Top /\ Top \in Windows /\ p.local \in [Windows -> Values \cup {NoValue}]
  BY WindowsAssumption DEF Windows, Iframes, Within, Pages
<1>5. CASE c \notin D
  <2>1. s.local = p.local
    BY <1>5 DEF Forwards
  <2>2. q.local = s.local /\ (InDoc(q) = InDoc(s) \/ InDoc(q) = Removed(InDoc(s), c))
    <3>1. c \notin InDoc(s)
      BY <1>2, <1>5
    <3> QED BY <3>1, <1>2, <1>4, FromTopOld
  <2>3. InDoc(q) = D /\ q.local = p.local
    BY <2>1, <2>2, <1>1, <1>2, <1>5, OutdatedRemoved
  <2> QED BY <2>3, SameDocumentGoes
<1>6. CASE c \in D
  <2>1. s.local = [p.local EXCEPT ![Top] = c.value]
    BY <1>6 DEF Forwards
  <2>2. Telling(p, c)
    BY <1>3, <1>6 DEF Agreeing, Settled, Unsettled
  <2>3. c \notin Exchanging(r) /\ p.local[x] = c.value
    BY <2>2, TakenAsked DEF Forwards
  <2>4. s.local[Top] = c.value /\ s.local[x] = c.value
    BY <2>3, <2>1, <1>4
  <2>5. Spread(s, q, c)
    BY <2>3, <2>4, <1>2, <1>4, <1>6, FromTopSpreads
  <2>6. \/ InDoc(q) = D
        \/ (\A w \in Windows : q.local[w] = c.value) /\ InDoc(q) = Removed(D, c)
    BY <2>5, <1>2 DEF Spread, InDoc
  <2> QED BY <2>6, <1>1, <1>6, SpreadGoes DEF Fresh
<1> QED
  BY <1>5, <1>6

(* A synchronisation goes on without x. *)
LEMMA ResolveGoes ==
    ASSUME NEW n, NEW v, NEW byPage, NEW T, NEW p, Within(p, T), NEW R, FreshPage(p, R), Agreeing(p, R),
           ValuesOfLast(n, v, byPage, p, R), Phase(n, v, byPage, p, R),
           NEW id \in DOMAIN p.syncs, NEW x \in CrossDomain, NEW q, Resolves(p, q, id, x),
           NEW c, c = p.syncs[id].cookie, c \in InDoc(p) => p.local[x] = c.value
    PROVE  Goes(n, v, byPage, p, q, R)
<1> DEFINE D == InDoc(p)
<1>1. Fresh(D, Exchanging(p), R)
  BY DEF FreshPage
<1>2. c.sync \in WindowKinds /\ c \in Exchanging(p) /\ ForWindows(c)
  BY DEF Within, Exchanging, Syncing, WindowKinds, ForWindows
<1>3. q.local = p.local
  BY DEF Resolves, SameExchange
<1>4. InDoc(q) = IF p.syncs[id].waiting = {x} THEN Removed(D, c) ELSE D
  BY DEF Resolves
<1>5. CASE c \notin D
  <2>1. InDoc(q) = D
    BY <1>1, <1>2, <1>4, <1>5, OutdatedRemoved
  <2> QED BY <2>1, <1>3, SameDocumentGoes
<1>6. CASE c \in D
  <2>1. Telling(p, c) /\ p.local[x] = c.value
    BY <1>2, <1>6 DEF Agreeing, Settled, Unsettled
  <2>2. KnowsOwn(p, id, x, c)
    BY <2>1 DEF KnowsOwn
  <2>3. GoesOn(p, q, id, x, c)
    BY <2>1, <2>2, ResolvesTelling
  <2>4. \/ InDoc(q) = D
        \/ (\A w \in Windows : q.local[w] = c.value) /\ InDoc(q) = Removed(D, c)
    BY <2>3, <1>4 DEF GoesOn, Ends
  <2> QED BY <2>4, <1>1, <1>2, <1>6, SpreadGoes DEF Fresh
<1> QED
  BY <1>5, <1>6

(* The last message of x is an answer. *)
LEMMA DoneGoes ==
    ASSUME NEW n, NEW v, NEW byPage, NEW T, NEW p, Within(p, T), NEW R, FreshPage(p, R), Agreeing(p, R),
           ValuesOfLast(n, v, byPage, p, R), Phase(n, v, byPage, p, R),
           NEW x \in CrossDomain, 1 \in DOMAIN p.toTop[x], p.toTop[x][1].cmd = "done",
           NEW id, id = p.toTop[x][1].id,
           NEW r, Within(r, T), Taken(p, r, x), NEW q, q = Resolve(r, id, x)
    PROVE  Goes(n, v, byPage, p, q, R)
<1>1. p.toTop[x][1].cookie = {} /\ id \in DOMAIN p.syncs
  BY MessagesAreOfSyncs
<1>2. r.syncs = p.syncs /\ r.local = p.local /\ InDoc(r) = InDoc(p) /\ Exchanging(r) \subseteq Exchanging(p)
  BY TakenExchanging DEF Taken
<1>3. id \in DOMAIN r.syncs
  BY <1>1, <1>2
<1>4. Resolves(r, q, id, x)
  BY <1>3, ResolveIs
<1>5. FreshPage(r, R)
  BY <1>2, FreshFewer DEF FreshPage
<1>6. Agreeing(r, R)
  <2>1. \A d : Telling(p, d) => Telling(r, d)
    BY <1>1, TakenTelling DEF Asks
  <2>2. Settled(p) => Settled(r)
    BY <1>2 DEF Settled
  <2>3. Unsettled(p, R) => Unsettled(r, R)
    BY <2>1, <1>2 DEF Unsettled
  <2> QED BY <2>2, <2>3 DEF Agreeing
<1>7. PICK c : c = r.syncs[id].cookie
  OBVIOUS
<1>8. c \in InDoc(r) => r.local[x] = c.value
  <2> SUFFICES ASSUME c \in InDoc(p) PROVE p.local[x] = c.value
    BY <1>2
  <2>1. c \in Syncing(p) /\ ForWindows(c)
    <3>1. c \in Syncing(p)
      BY <1>1, <1>2, <1>7 DEF Syncing
    <3> QED BY <3>1 DEF Exchanging, Within, WindowKinds, ForWindows
  <2>2. SyncedBy(p, c)
    BY <2>1 DEF Agreeing, Settled, Unsettled, Telling, AskedFor
  <2>3. PICK i \in DOMAIN p.syncs : SyncedIn(p, c, i)
    BY <2>2 DEF SyncedBy
  <2>4. i = id
    BY <2>3, <1>1, <1>2, <1>7 DEF SyncedIn
  <2> QED BY <2>3, <2>4 DEF SyncedIn
<1>9. ValuesOfLast(n, v, byPage, r, R) /\ Phase(n, v, byPage, r, R)
  BY <1>2 DEF ValuesOfLast, Phase, Coming, Arrived, Told, Known
<1>10. Goes(n, v, byPage, r, q, R)
  BY <1>3, <1>4, <1>5, <1>6, <1>7, <1>8, <1>9, ResolveGoes
<1> QED
  BY <1>2, <1>10 DEF Goes, Descends, HasClient

-----------------------------------------------------------------------------
(* Steps of the requests *)

States == {"unsent", "sent", "handled", "answered", "over"}

(* The actual cookies are some of the document, *)
LEMMA ActualIsCarried ==
    ASSUME NEW doc \in Seq(SyncCookies)
    PROVE  Actual(doc) \subseteq Range(doc)
  BY DEF Actual, Range

(* and a request is in one of its states. *)
LEMMA StatesOfRequests ==
    ASSUME NEW T, NEW R, RequestsWithin(R, T), NEW r \in Requests
    PROVE  R[r].state \in States /\ R[r].carried \in Seq(SyncCookies)
  BY DEF RequestsWithin, PageRequests, States

(* The order of two requests says how far they can be. *)
LEMMA Ahead ==
    ASSUME NEW T, NEW R, RequestsWithin(R, T), InTurn(R), NEW q \in Requests, NEW r \in Requests, q < r
    PROVE  /\ R[q].state = "unsent" => R[r].state = "unsent"
           /\ R[q].state = "sent" => R[r].state \in {"unsent", "sent"}
           /\ R[q].state = "handled" => R[r].state \in {"unsent", "sent", "handled"}
           /\ R[r].state = "over" => R[q].state = "over"
<1>1. R[q].state \in States /\ R[r].state \in States
  BY StatesOfRequests
<1>2. Rank(R[r].state) <= Rank(R[q].state)
  BY DEF InTurn
<1> QED
  BY <1>1, <1>2 DEF Rank, States

(* If r is the first request in its state, it may go on to the next one. *)
Advances(R, S, r, from, to) ==
    /\ S[r].state = to /\ R[r].state = from /\ Rank(to) = Rank(from) + 1
    /\ \A q \in Requests : q < r => R[q].state # from
    /\ \A q \in Requests : q # r => S[q].state = R[q].state

(* so that requests stay in their order. *)
LEMMA AdvancesInTurn ==
    ASSUME NEW T, NEW R, RequestsWithin(R, T), InTurn(R), NEW r \in Requests,
           NEW from \in States, NEW to \in States, NEW S, Advances(R, S, r, from, to)
    PROVE  \A q, s \in Requests : q < s => Rank(S[s].state) <= Rank(S[q].state)
<1> SUFFICES ASSUME NEW q \in Requests, NEW s \in Requests, q < s
             PROVE  Rank(S[s].state) <= Rank(S[q].state)
  OBVIOUS
<1>1. Rank(R[s].state) <= Rank(R[q].state)
  BY DEF InTurn
<1>2. R[q].state \in States /\ R[s].state \in States
  BY StatesOfRequests
<1>3. q \in Int /\ s \in Int /\ r \in Int
  BY DEF Requests
<1>4. CASE s = r
  <2>1. S[q].state = R[q].state /\ R[q].state # from /\ S[s].state = to /\ R[s].state = from
    BY <1>3, <1>4 DEF Advances
  <2> QED BY <2>1, <1>1, <1>2 DEF Advances, Rank, States
<1>5. CASE q = r
  <2>1. S[s].state = R[s].state /\ S[q].state = to /\ R[q].state = from
    BY <1>3, <1>5 DEF Advances
  <2> QED BY <2>1, <1>1, <1>2 DEF Advances, Rank, States
<1>6. CASE s # r /\ q # r
  BY <1>1, <1>6 DEF Advances
<1> QED
  BY <1>4, <1>5, <1>6

(* The cookies of the document are of the last change, if the page made it. *)
LEMMA PageIsLast ==
    ASSUME NEW n, NEW v, NEW p, NEW R, Phase(n, v, TRUE, p, R)
    PROVE  \A c \in InDoc(p) : c.time = n
  BY DEF Phase, Coming, Arrived, Told, Known

(* A request is sent with the cookies of the document. *)
LEMMA SendFollows ==
    ASSUME NEW n \in Int, NEW v, NEW byPage \in BOOLEAN, NEW T, NEW p, Within(p, T),
           NEW R, RequestsWithin(R, T), NEW j, Follows(n, v, byPage, p, R, j),
           NEW r \in Requests, R[r].state = "unsent", \A q \in 1..(r - 1) : R[q].state # "unsent",
           NEW S, S = SentWith(R, r, p.doc)
    PROVE  Follows(n, v, byPage, p, S, j)
<1>1. /\ S \in [Requests -> PageRequests]
      /\ \A q \in Requests : S[q].answer = R[q].answer
      /\ S[r].carried = p.doc /\ \A q \in Requests : q # r => S[q].carried = R[q].carried
  <2>1. p.doc \in Seq(SyncCookies)
    BY DocumentIsOfCookies DEF Within
  <2> QED BY <2>1, SentIs DEF RequestsWithin
<1>2. /\ \A q \in Requests : Set(S, q) = Set(R, q) /\ Deleted(S, q) = Deleted(R, q)
      /\ \A q \in Requests : q # r => Carried(S, q) = Carried(R, q)
      /\ Carried(S, r) = InDoc(p) /\ Carried(R, r) = {}
  BY <1>1 DEF Set, Deleted, Carried, InDoc, Follows, InTurn
<1>3. S[r].state = "sent" /\ \A q \in Requests : q # r => S[q].state = R[q].state
  BY DEF SentWith, RequestsWithin, PageRequests
<1>4. \A q \in Requests : q < r => R[q].state # "unsent"
  BY DEF Requests
<1>5. Advances(R, S, r, "unsent", "sent")
  BY <1>3, <1>4 DEF Advances, Rank
<1>6. Set(R, r) = {} /\ Deleted(R, r) = {}
  BY <1>2 DEF Follows, InTurn
<1>7. ValuesOfLast(n, v, byPage, p, S)
  BY <1>2 DEF Follows, ValuesOfLast
<1>8. Phase(n, v, byPage, p, S)
  BY <1>2 DEF Follows, Phase, Coming, Arrived, Told, Known, NothingSet
<1>9. InTurn(S)
  <2>1. \A q, s \in Requests : q < s => Rank(S[s].state) <= Rank(S[q].state)
    BY <1>5, AdvancesInTurn DEF Follows, States
  <2>2. \A s \in Requests :
          /\ Set(S, s) # {} => S[s].state = "answered"
          /\ S[s].state = "unsent" => Carried(S, s) = {}
    BY <1>2, <1>3, <1>6 DEF Follows, InTurn
  <2>3. \A s \in Requests : \A k \in Deleted(S, s) : \E c \in Carried(S, s) :
            k = SyncKey(c) /\ (Matters(c) => Newer(Carried(S, s) \cup Set(S, s), c))
    BY <1>2, <1>6 DEF Follows, InTurn
  <2> QED BY <2>1, <2>2, <2>3, <1>2 DEF Follows, InTurn
<1>10. ASSUME byPage
       PROVE  JarFollows(n, v, byPage, p, S, j)
  <2>1. \A c \in InDoc(p) : c.time = n
    BY <1>10, PageIsLast DEF Follows
  <2>2. Actual(p.doc) \subseteq InDoc(p)
    BY ActualIsCarried, DocumentIsOfCookies DEF Within, InDoc
  <2>3. Brought(n, v, R, j) => Brought(n, v, S, j)
    BY <2>1, <2>2, <1>1, <1>3 DEF Brought
  <2>4. \A q \in Requests : S[q].state \in {"handled", "answered"} /\ Brings(S, q, n)
            => R[q].state \in {"handled", "answered"} /\ Brings(R, q, n)
    BY <1>2, <1>3 DEF Brings
  <2>5. ASSUME NEW q \in Requests, NEW s \in Requests, q < s, Brings(S, q, n)
        PROVE  \A c \in Carried(S, s) : c.time = n
    <3>1. CASE s = r
      BY <3>1, <2>1, <1>2
    <3>2. CASE q = r
      <4>1. R[s].state = "unsent" /\ s # r
        BY <2>5, <3>2, Ahead DEF Follows, Requests
      <4> QED BY <4>1, <1>2 DEF Follows, InTurn
    <3>3. CASE s # r /\ q # r
      BY <2>5, <3>3, <1>2, <1>10 DEF Follows, JarFollows, Brings
    <3> QED BY <3>1, <3>2, <3>3
  <2> QED BY <2>3, <2>4, <2>5, <1>10 DEF Follows, JarFollows
<1>11. ~byPage => JarFollows(n, v, byPage, p, S, j)
  BY DEF Follows, JarFollows
<1> QED
  BY <1>7, <1>8, <1>9, <1>10, <1>11 DEF Follows

(* The newest of several cookies is the actual one. *)
LEMMA OnlyNewestIsActual ==
    ASSUME NEW doc \in Seq(SyncCookies), Distinct(Range(doc)), NEW c \in Actual(doc)
    PROVE  Actual(doc) = {c} /\ Newest(Range(doc), c)
<1>1. c \in Range(doc) /\ Range(doc) \in SUBSET SyncCookies
  BY ActualIsCarried, InRange
<1>2. PICK m \in Range(doc) : Newest(Range(doc), m)
  <2> DEFINE D == Range(doc)
  <2>1. D \in SUBSET SyncCookies /\ D # {} /\ Distinct(D)
    BY <1>1
  <2> HIDE DEF D
  <2>2. \E m \in D : Newest(D, m)
    BY <2>1, NewestOfDistinct
  <2> QED BY <2>2 DEF D
<1>3. Actual(doc) = {m}
  BY <1>2, NewestIsActual DEF Newest
<1> QED
  BY <1>2, <1>3

(* The proxy takes over the page's cookie, if the request has one that is actual. *)
LEMMA ApplyFollows ==
    ASSUME NEW n \in Int, NEW v, NEW byPage \in BOOLEAN, NEW T, \A t \in T : t \in Nat /\ t <= n,
           NEW p, NEW R, RequestsWithin(R, T), \A q \in Requests : Distinct(Carried(R, q)),
           NEW j, Follows(n, v, byPage, p, R, j),
           NEW r \in Requests, R[r].state = "sent", \A q \in Requests : q < r => R[q].state # "sent",
           NEW F, F = {c \in Actual(R[r].carried) : OfClient(c)}, ~byPage => \A c \in F : c.time = n,
           NEW k, k = IF F = {} THEN j ELSE (CHOOSE c \in F : TRUE).value,
           NEW S, S = HandledWith(R, r)
    PROVE  Follows(n, v, byPage, p, S, k)
<1>1. /\ \A q \in Requests : S[q].answer = R[q].answer /\ S[q].carried = R[q].carried
      /\ S[r].state = "handled" /\ \A q \in Requests : q # r => S[q].state = R[q].state
  BY DEF HandledWith, RequestsWithin, PageRequests
<1>2. \A q \in Requests : Set(S, q) = Set(R, q) /\ Deleted(S, q) = Deleted(R, q) /\ Carried(S, q) = Carried(R, q)
  BY <1>1 DEF Set, Deleted, Carried
<1>3. ValuesOfLast(n, v, byPage, p, S) /\ Phase(n, v, byPage, p, S)
  BY <1>2 DEF Follows, ValuesOfLast, Phase, Coming, Arrived, Told, Known, NothingSet
<1>4. InTurn(S)
  <2>1. Advances(R, S, r, "sent", "handled")
    BY <1>1 DEF Advances, Rank
  <2>2. \A q, s \in Requests : q < s => Rank(S[s].state) <= Rank(S[q].state)
    BY <2>1, AdvancesInTurn DEF Follows, States
  <2>3. \A s \in Requests :
          /\ Set(S, s) # {} => S[s].state = "answered"
          /\ S[s].state = "unsent" => Carried(S, s) = {}
    BY <1>1, <1>2 DEF Follows, InTurn
  <2> QED BY <2>2, <2>3, <1>2 DEF Follows, InTurn
<1>5. R[r].carried \in Seq(SyncCookies) /\ Distinct(Carried(R, r)) /\ Carried(R, r) \subseteq SyncCookies
  BY StatesOfRequests, InRange DEF Carried
<1>6. F \subseteq Actual(R[r].carried) /\ Actual(R[r].carried) \subseteq Carried(R, r)
  BY <1>5, ActualIsCarried DEF Carried
<1>7. \A c \in F : Actual(R[r].carried) = {c} /\ Newest(Carried(R, r), c) /\ OfClient(c) /\ c \in Carried(R, r)
  <2> SUFFICES ASSUME NEW c \in F
               PROVE  Actual(R[r].carried) = {c} /\ Newest(Carried(R, r), c)
    BY <1>6
  <2> QED BY <1>5, <1>6, OnlyNewestIsActual DEF Carried
<1>8. \A c \in Carried(R, r) : c.time \in Nat /\ c.time <= n
  BY DEF RequestsWithin
<1>9. CASE ~byPage
  <2>1. F = {}
    BY <1>7, <1>9 DEF Follows, ValuesOfLast, OfLast
  <2> QED BY <2>1, <1>3, <1>4, <1>9 DEF Follows, JarFollows
<1>10. CASE byPage
  <2>1. \A q, s \in Requests : q < s /\ Brings(S, q, n) => \A c \in Carried(S, s) : c.time = n
    BY <1>2, <1>10 DEF Follows, JarFollows, Brings
  <2>2. HasClient(p) \/ Brought(n, v, R, j)
    BY <1>10 DEF Follows, JarFollows
  <2>3. (\E s \in Requests : R[s].state \in {"handled", "answered"} /\ Brings(R, s, n)) => Brought(n, v, R, j)
    BY <1>10 DEF Follows, JarFollows
  <2>4. \A s \in Requests : s # r /\ S[s].state \in {"handled", "answered"} /\ Brings(S, s, n)
            => R[s].state \in {"handled", "answered"} /\ Brings(R, s, n)
    BY <1>1, <1>2 DEF Brings
  <2>5. CASE F = {}
    <3>1. k = j
      BY <2>5
    <3>2. Brought(n, v, R, j) => Brought(n, v, S, k)
      BY <3>1, <1>1 DEF Brought
    <3>3. ~Brings(S, r, n)
      <4> SUFFICES ASSUME NEW c \in Carried(R, r), OfClient(c), c.time = n PROVE FALSE
        BY <1>2 DEF Brings
      <4>1. \A d \in Carried(R, r) : d # c => d.time < c.time
        <5>1. \A d \in Carried(R, r) : d # c => d.time # c.time
          BY <1>5 DEF Distinct
        <5> QED BY <5>1, <1>8
      <4>2. c \in Actual(R[r].carried)
        BY <4>1, <1>5, NewestIsActual DEF Carried
      <4> QED BY <4>2, <2>5
    <3> QED BY <2>1, <2>2, <2>3, <2>4, <3>2, <3>3, <1>3, <1>4, <1>10 DEF Follows, JarFollows
  <2>6. CASE F # {}
    <3>1. PICK c \in F : k = c.value
      BY <2>6
    <3>2. CASE c.time = n
      <4>1. k = v
        BY <3>1, <3>2, <1>7 DEF Follows, ValuesOfLast, OfLast
      <4>2. Brings(R, r, n)
        BY <3>1, <3>2, <1>7 DEF Brings
      <4>3. Brought(n, v, S, k)
        <5> SUFFICES ASSUME NEW s \in Requests, S[s].state = "sent", NEW d \in Actual(S[s].carried)
                     PROVE  d.time = n
          BY <4>1 DEF Brought
        <5>1. s # r /\ R[s].state = "sent" /\ S[s].carried = R[s].carried
          BY <1>1
        <5>2. r < s
          BY <5>1 DEF Requests
        <5>3. d \in Carried(R, s)
          BY <5>1, StatesOfRequests, ActualIsCarried DEF Carried
        <5> QED BY <4>2, <5>2, <5>3, <1>10 DEF Follows, JarFollows
      <4> QED BY <2>1, <4>3, <1>3, <1>4, <1>10 DEF Follows, JarFollows
    <3>3. CASE c.time # n
      <4>1. ~Brought(n, v, R, j)
        BY <3>1, <3>3, <1>6, <1>7 DEF Brought
      <4>2. ~Brings(S, r, n)
        <5>1. c.time < n
          BY <3>1, <3>3, <1>7, <1>8
        <5>2. \A d \in Carried(R, r) : d.time < n
          BY <5>1, <3>1, <1>7, <1>8 DEF Newest
        <5> QED BY <5>2, <1>2 DEF Brings
      <4> QED BY <2>1, <2>2, <2>3, <2>4, <4>1, <4>2, <1>3, <1>4, <1>10 DEF Follows, JarFollows
    <3> QED BY <3>2, <3>3
  <2> QED BY <2>5, <2>6
<1> QED
  BY <1>9, <1>10

GetsAnswer(R, S, r, C) ==
    /\ S[r].state = "answered" /\ \A q \in Requests : q # r => S[q].state = R[q].state
    /\ \A q \in Requests : Carried(S, q) = Carried(R, q) /\ S[q].carried = R[q].carried
    /\ \A q \in Requests : q # r => Set(S, q) = Set(R, q)
    /\ Set(S, r) = C /\ Set(R, r) = {}

(* The proxy answers: what it sets is newer than all before. *)
LEMMA AnswerInTurn ==
    ASSUME NEW T, \A t \in T : t \in Nat, NEW R, RequestsWithin(R, T), InTurn(R),
           NEW r \in Requests, Distinct(Carried(R, r)),
           R[r].state = "handled", \A q \in Requests : q < r => R[q].state # "handled",
           NEW U, T \subseteq U, NEW C, SetsCookie(C, U), \A s \in C : \A t \in T : t < s.time,
           NEW S, S = AnsweredWith(R, r, C)
    PROVE  InTurn(S) /\ GetsAnswer(R, S, r, C)
<1>1. /\ RequestsWithin(S, U)
      /\ \A q \in Requests : Carried(S, q) = Carried(R, q)
      /\ \A q \in Requests : q # r => Set(S, q) = Set(R, q) /\ Deleted(S, q) = Deleted(R, q)
      /\ Set(S, r) = C /\ Deleted(S, r) = DeletesFor(R[r].carried, C)
  BY AnsweredWithIs
<1>2. /\ S[r].state = "answered" /\ \A q \in Requests : q # r => S[q].state = R[q].state
      /\ \A q \in Requests : S[q].carried = R[q].carried
  BY DEF AnsweredWith, RequestsWithin, PageRequests
<1>3. Set(R, r) = {}
  BY DEF InTurn
<1>4. \A q, s \in Requests : q < s => Rank(S[s].state) <= Rank(S[q].state)
  <2>1. Advances(R, S, r, "handled", "answered")
    BY <1>2 DEF Advances, Rank
  <2> QED BY <2>1, AdvancesInTurn DEF States
<1>5. ASSUME NEW q \in Requests, NEW s \in Requests, q < s, NEW a \in Set(S, q), NEW b \in Set(S, s)
      PROVE  a.time < b.time
  <2>1. q # s
    BY <1>5 DEF Requests
  <2>2. CASE s = r
    <3>1. a \in Set(R, q) /\ b \in C
      BY <1>1, <2>1, <2>2
    <3>2. a.time \in T
      BY <3>1 DEF RequestsWithin
    <3> QED BY <3>1, <3>2
  <2>3. CASE q = r
    <3>1. R[s].state \in {"unsent", "sent", "handled"}
      BY <1>5, <2>3, Ahead
    <3>2. Set(R, s) = {} /\ Set(S, s) = Set(R, s)
      BY <3>1, <2>1, <2>3, <1>1 DEF InTurn
    <3> QED BY <3>2
  <2>4. CASE q # r /\ s # r
    BY <1>1, <1>5, <2>4 DEF InTurn
  <2> QED BY <2>2, <2>3, <2>4
<1>6. ASSUME NEW k \in Deleted(S, r)
      PROVE  \E c \in Carried(S, r) : k = SyncKey(c) /\ (Matters(c) => Newer(Carried(S, r) \cup Set(S, r), c))
  <2>1. /\ R[r].carried \in Seq(SyncCookies) /\ Once(R[r].carried) /\ Distinct(Range(R[r].carried))
        /\ \A c \in Range(R[r].carried) : c.sync \in Kinds
    BY StatesOfRequests DEF RequestsWithin, Carried
  <2>2. k \in DeletesFor(R[r].carried, C)
    BY <1>1, <1>6
  <2>3. PICK c \in Range(R[r].carried) : k = SyncKey(c)
    BY <2>1, <2>2, DeletedIsCarried
  <2>4. c \in SyncCookies
    BY <2>1, InRange
  <2>5. Matters(c) => Newer(Range(R[r].carried), c) \/ Newer(C, c)
    BY <2>1, <2>2, <2>3, <2>4, DeletedForNewer
  <2> QED BY <2>3, <2>5, <1>1 DEF Newer, Carried
<1>7. \A q \in Requests :
        /\ Set(S, q) # {} => S[q].state = "answered"
        /\ S[q].state = "unsent" => Carried(S, q) = {}
  BY <1>1, <1>2 DEF InTurn
<1>8. \A q \in Requests : \A k \in Deleted(S, q) : \E c \in Carried(S, q) :
          k = SyncKey(c) /\ (Matters(c) => Newer(Carried(S, q) \cup Set(S, q), c))
  <2> SUFFICES ASSUME NEW q \in Requests, q # r, NEW k \in Deleted(S, q)
               PROVE  \E c \in Carried(S, q) :
                        k = SyncKey(c) /\ (Matters(c) => Newer(Carried(S, q) \cup Set(S, q), c))
    BY <1>6
  <2>1. Carried(S, q) = Carried(R, q) /\ Set(S, q) = Set(R, q) /\ k \in Deleted(R, q)
    BY <1>1
  <2> QED BY <2>1 DEF InTurn
<1>9. InTurn(S)
  BY <1>4, <1>5, <1>7, <1>8 DEF InTurn
<1> QED
  BY <1>1, <1>2, <1>3, <1>9 DEF GetsAnswer

(* The destination does not set the cookie, *)
LEMMA AnswerFollows ==
    ASSUME NEW n \in Int, NEW v, NEW byPage \in BOOLEAN, NEW T, \A t \in T : t \in Nat,
           NEW p, NEW R, RequestsWithin(R, T), NEW j, Follows(n, v, byPage, p, R, j),
           NEW r \in Requests, Distinct(Carried(R, r)),
           R[r].state = "handled", \A q \in Requests : q < r => R[q].state # "handled",
           NEW C, C = {}, NEW S, S = AnsweredWith(R, r, C)
    PROVE  Follows(n, v, byPage, p, S, j)
<1>1. InTurn(S) /\ GetsAnswer(R, S, r, C)
  <2>1. SetsCookie(C, T) /\ \A s \in C : \A u \in T : u < s.time
    BY DEF SetsCookie
  <2> QED BY <2>1, AnswerInTurn DEF Follows
<1>2. \A q \in Requests : Set(S, q) = Set(R, q)
  BY <1>1 DEF GetsAnswer
<1>3. ValuesOfLast(n, v, byPage, p, S) /\ Phase(n, v, byPage, p, S)
  BY <1>1, <1>2 DEF GetsAnswer, Follows, ValuesOfLast, Phase, Coming, Arrived, Told, Known, NothingSet
<1>4. JarFollows(n, v, byPage, p, S, j)
  <2>1. Brought(n, v, R, j) => Brought(n, v, S, j)
    BY <1>1 DEF GetsAnswer, Brought
  <2>2. \A q \in Requests : S[q].state \in {"handled", "answered"} /\ Brings(S, q, n)
            => R[q].state \in {"handled", "answered"} /\ Brings(R, q, n)
    BY <1>1 DEF GetsAnswer, Brings
  <2>3. \A q \in Requests : Brings(S, q, n) => Brings(R, q, n)
    BY <1>1 DEF GetsAnswer, Brings
  <2> QED BY <2>1, <2>2, <2>3, <1>1 DEF GetsAnswer, Follows, JarFollows
<1> QED
  BY <1>1, <1>3, <1>4 DEF Follows

(* or sets it, which is the last change from now on. *)
LEMMA SetFollows ==
    ASSUME NEW T, \A t \in T : t \in Nat, NEW p, Within(p, T), NEW R, RequestsWithin(R, T), InTurn(R),
           NEW r \in Requests, Distinct(Carried(R, r)),
           R[r].state = "handled", \A q \in Requests : q < r => R[q].state # "handled",
           NEW U, T \subseteq U, NEW s \in SyncCookies, NEW C, C = {s}, SetsCookie(C, U), \A t \in T : t < s.time,
           NEW S, S = AnsweredWith(R, r, C)
    PROVE  Follows(s.time, s.value, FALSE, p, S, s.value)
<1>1. InTurn(S) /\ GetsAnswer(R, S, r, C)
  <2>1. \A c \in C : \A t \in T : t < c.time
    OBVIOUS
  <2> QED BY <2>1, AnswerInTurn
<1>2. s.time \notin T
  BY DEF SyncCookies, Times
<1>3. ValuesOfLast(s.time, s.value, FALSE, p, S)
  <2>1. \A c \in InDoc(p) : c.time # s.time
    BY <1>2 DEF Within
  <2>2. \A q \in Requests : /\ \A c \in Carried(S, q) : c.time # s.time
                            /\ \A c \in Set(S, q) : c.time # s.time \/ c = s
    BY <1>1, <1>2 DEF GetsAnswer, RequestsWithin
  <2> QED BY <2>1, <2>2 DEF ValuesOfLast, OfLast
<1>4. Coming(s.time, FALSE, S)
  BY <1>1 DEF GetsAnswer, Coming
<1> QED
  BY <1>1, <1>3, <1>4 DEF Follows, Phase, JarFollows

(* A cookie that the answer to r deletes, and that is of the last change, is the page's alone *)
(* and was brought to the proxy.                                                              *)
LEMMA DeletesLast ==
    ASSUME NEW n \in Int, NEW T, \A t \in T : t \in Nat /\ t <= n, NEW R, RequestsWithin(R, T), InTurn(R),
           NEW r \in Requests, NEW c, c.time = n, SyncKey(c) \in Deleted(R, r)
    PROVE  c.sync = {"client"} /\ Brings(R, r, n)
<1>1. PICK d \in Carried(R, r) :
        SyncKey(c) = SyncKey(d) /\ (Matters(d) => Newer(Carried(R, r) \cup Set(R, r), d))
  BY DEF InTurn
<1>2. d.sync = c.sync /\ d.time = n
  BY <1>1 DEF SyncKey
<1>3. \A e \in Carried(R, r) \cup Set(R, r) : e.time \in Nat /\ e.time <= n
  BY DEF RequestsWithin
<1>4. ~Matters(d)
  BY <1>1, <1>2, <1>3 DEF Newer
<1>5. c.sync = {"client"} /\ OfClient(d)
  BY <1>2, <1>4 DEF Matters, OfClient
<1> QED
  BY <1>1, <1>2, <1>5 DEF Brings

(* The answer to r reaches the page. *)
LEMMA ReceiveFollows ==
    ASSUME NEW n \in Int, NEW v, NEW byPage \in BOOLEAN, NEW T, \A t \in T : t \in Nat /\ t <= n,
           NEW p, Within(p, T), NEW R, RequestsWithin(R, T), NEW j, Follows(n, v, byPage, p, R, j),
           NEW r \in Requests, R[r].state = "answered", \A q \in Requests : q < r => R[q].state # "answered",
           byPage => \A c \in Set(R, r) : ~(c.time < n),
           NEW q, q = Applied(p, Deleted(R, r), Set(R, r)), NEW S, S = OverWith(R, r)
    PROVE  Follows(n, v, byPage, q, S, j)
<1> DEFINE D == InDoc(p)
           K == Deleted(R, r)
           C == Set(R, r)
<1>1. /\ SameMessages(p, q) /\ q.local = p.local
      /\ InDoc(q) = {d \in D : SyncKey(d) \notin K /\ SyncKey(d) \notin KeysOf(C)} \cup C
  <2>1. SetsCookie(C, T)
    BY SetsOne
  <2> HIDE DEF C, K
  <2> QED BY <2>1, AppliedIs DEF C, K
<1>2. /\ RequestsWithin(S, T) /\ Carried(S, r) = {} /\ Set(S, r) = {} /\ Deleted(S, r) = {}
      /\ \A s \in Requests : s # r =>
           Carried(S, s) = Carried(R, s) /\ Set(S, s) = Set(R, s) /\ Deleted(S, s) = Deleted(R, s)
  BY OverIs
<1>3. /\ S[r].state = "over"
      /\ \A s \in Requests : s # r => S[s].state = R[s].state /\ S[s].carried = R[s].carried
  BY DEF OverWith, RequestsWithin, PageRequests
<1>4. \A c \in C : c.sync = {"server"} /\ c.time \in Nat /\ c.time <= n /\ ~OfClient(c) /\ OfServer(c)
  BY DEF RequestsWithin, OfClient, OfServer
<1>5. byPage => C = {}
  <2> SUFFICES ASSUME byPage, NEW c \in C PROVE FALSE
    OBVIOUS
  <2>1. c.time = n
    BY <1>4
  <2> QED BY <2>1 DEF Follows, ValuesOfLast
<1>6. ValuesOfLast(n, v, byPage, q, S)
  <2>1. \A c \in InDoc(q) : OfLast(c, n, v, byPage)
    BY <1>1, <1>4 DEF Follows, ValuesOfLast, OfLast
  <2>2. \A s \in Requests : Carried(S, s) \subseteq Carried(R, s) /\ Set(S, s) \subseteq Set(R, s)
    BY <1>2
  <2> QED BY <2>1, <2>2 DEF Follows, ValuesOfLast
<1>7. InTurn(S)
  <2>1. Advances(R, S, r, "answered", "over")
    BY <1>3 DEF Advances, Rank
  <2>2. \A s, t \in Requests : s < t => Rank(S[t].state) <= Rank(S[s].state)
    BY <2>1, AdvancesInTurn DEF Follows, States
  <2>3. \A s, t \in Requests : s < t => \A a \in Set(S, s), b \in Set(S, t) : a.time < b.time
    BY <1>2 DEF Follows, InTurn
  <2>4. \A s \in Requests :
          /\ Set(S, s) # {} => S[s].state = "answered"
          /\ S[s].state = "unsent" => Carried(S, s) = {}
    BY <1>2, <1>3 DEF Follows, InTurn
  <2>5. \A s \in Requests : \A k \in Deleted(S, s) : \E c \in Carried(S, s) :
            k = SyncKey(c) /\ (Matters(c) => Newer(Carried(S, s) \cup Set(S, s), c))
    BY <1>2 DEF Follows, InTurn
  <2> QED BY <2>2, <2>3, <2>4, <2>5 DEF InTurn
<1>8. NothingSet(R) => NothingSet(S) /\ C = {}
  BY <1>2 DEF NothingSet
<1>9. \A d \in D : d.time = n /\ d.sync # {"client"} => SyncKey(d) \notin K
  BY DeletesLast DEF Follows
<1>10. Phase(n, v, byPage, q, S)
  <2>1. CASE Coming(n, byPage, R)
    <3>1. PICK s \in Requests : \E c \in Set(R, s) : c.time = n
      BY <2>1 DEF Coming
    <3>2. PICK c \in Set(R, s) : c.time = n
      BY <3>1
    <3>3. CASE s = r
      <4>1. c \in InDoc(q) /\ OfServer(c)
        BY <3>2, <3>3, <1>1, <1>4
      <4>2. NothingSet(S)
        <5> SUFFICES ASSUME NEW t \in Requests, t # r, NEW e \in Set(R, t) PROVE FALSE
          BY <1>2 DEF NothingSet
        <5>1. R[t].state = "answered"
          BY DEF Follows, InTurn
        <5>2. r < t
          BY <5>1 DEF Requests
        <5>3. c.time < e.time
          BY <3>2, <3>3, <5>2 DEF Follows, InTurn
        <5>4. e.time \in Nat /\ e.time <= n
          BY DEF RequestsWithin
        <5> QED BY <5>3, <5>4, <3>2
      <4> QED BY <4>1, <4>2, <3>2, <2>1 DEF Phase, Arrived, Coming
    <3>4. CASE s # r
      BY <3>1, <3>4, <2>1, <1>2 DEF Phase, Coming
    <3> QED BY <3>3, <3>4
  <2>2. CASE Arrived(n, byPage, p, R)
    <3>1. PICK c \in D : OfServer(c) /\ c.time = n
      BY <2>2 DEF Arrived
    <3>2. SyncKey(c) \notin K
      BY <3>1, <1>9 DEF OfServer
    <3>3. C = {} /\ NothingSet(S)
      BY <2>2, <1>8 DEF Arrived
    <3>4. c \in InDoc(q)
      BY <3>2, <3>3, <1>1 DEF KeysOf
    <3> QED BY <3>1, <3>3, <3>4, <2>2 DEF Phase, Arrived
  <2>3. CASE Told(n, byPage, p, R)
    <3>1. PICK c : ForWindows(c) /\ c.time = n /\ D = {c}
      BY <2>3 DEF Told
    <3>2. SyncKey(c) \notin K
      BY <3>1, <1>9 DEF ForWindows
    <3>3. C = {} /\ (byPage \/ NothingSet(S))
      BY <2>3, <1>5, <1>8 DEF Told
    <3>4. InDoc(q) = {c}
      BY <3>1, <3>2, <3>3, <1>1 DEF KeysOf
    <3> QED BY <3>1, <3>3, <3>4 DEF Phase, Told
  <2>4. CASE Known(n, v, byPage, p, R)
    <3>1. C = {} /\ (byPage \/ NothingSet(S))
      BY <2>4, <1>5, <1>8 DEF Known
    <3>2. InDoc(q) \subseteq D
      BY <3>1, <1>1
    <3> QED BY <3>1, <3>2, <2>4, <1>1 DEF Phase, Known
  <2> QED BY <2>1, <2>2, <2>3, <2>4 DEF Follows, Phase
<1>11. ASSUME byPage
       PROVE  JarFollows(n, v, byPage, q, S, j)
  <2>1. Brought(n, v, R, j) => Brought(n, v, S, j)
    BY <1>3 DEF Brought
  <2>2. (\E s \in Requests : R[s].state \in {"handled", "answered"} /\ Brings(R, s, n)) => Brought(n, v, R, j)
    BY <1>11 DEF Follows, JarFollows
  <2>3. HasClient(q) \/ Brought(n, v, S, j)
    <3>1. CASE Brought(n, v, R, j)
      BY <3>1, <2>1
    <3>2. CASE ~Brought(n, v, R, j)
      <4>1. PICK c \in D : OfClient(c)
        BY <3>2, <1>11 DEF Follows, JarFollows, HasClient
      <4>2. c.time = n
        BY <4>1, <1>11, PageIsLast DEF Follows
      <4>3. SyncKey(c) \notin K
        BY <4>2, <3>2, <2>2, DeletesLast DEF Follows
      <4>4. c \in InDoc(q)
        BY <4>3, <1>1, <1>5, <1>11 DEF KeysOf
      <4> QED BY <4>1, <4>4 DEF HasClient
    <3> QED BY <3>1, <3>2
  <2>4. \A s \in Requests : S[s].state \in {"handled", "answered"} /\ Brings(S, s, n)
            => R[s].state \in {"handled", "answered"} /\ Brings(R, s, n)
    BY <1>2, <1>3 DEF Brings
  <2>5. \A s \in Requests : Carried(S, s) \subseteq Carried(R, s)
    BY <1>2
  <2>6. \A s, t \in Requests : s < t /\ Brings(S, s, n) => \A c \in Carried(S, t) : c.time = n
    BY <2>5, <1>11 DEF Follows, JarFollows, Brings
  <2> QED BY <2>1, <2>2, <2>3, <2>4, <2>6, <1>11 DEF JarFollows
<1>12. ~byPage => JarFollows(n, v, byPage, q, S, j)
  BY DEF Follows, JarFollows
<1> QED
  BY <1>6, <1>7, <1>10, <1>11, <1>12 DEF Follows

(* The page writes the cookie, which is the last change from now on. *)
LEMMA WriteFollows ==
    ASSUME NEW T, NEW R, RequestsWithin(R, T), InTurn(R), NEW q, NEW j,
           NEW c \in SyncCookies, c.sync = {"client", "window"}, \A t \in T : t < c.time, Written(q, c)
    PROVE  Follows(c.time, c.value, TRUE, q, R, j)
<1>1. OfClient(c) /\ ForWindows(c) /\ c.sync \in WindowKinds
  BY DEF OfClient, ForWindows, WindowKinds
<1>2. ForClient(c).sync = {"client"} /\ ForClient(c).time = c.time /\ ForClient(c).value = c.value
  BY <1>1, ForClientIs
<1>3. \A r \in Requests : /\ \A d \in Carried(R, r) : d.time # c.time
                          /\ \A d \in Set(R, r) : d.time # c.time
  BY DEF RequestsWithin, SyncCookies, Times
<1>4. ValuesOfLast(c.time, c.value, TRUE, q, R)
  BY <1>2, <1>3 DEF ValuesOfLast, OfLast, Written
<1>5. Phase(c.time, c.value, TRUE, q, R)
  BY <1>1, <1>2 DEF Phase, Told, Known, Written
<1>6. HasClient(q)
  BY <1>1, <1>2 DEF HasClient, Written, OfClient
<1>7. JarFollows(c.time, c.value, TRUE, q, R, j)
  BY <1>3, <1>6 DEF JarFollows, Brings
<1> QED
  BY <1>4, <1>5, <1>7 DEF Follows

-----------------------------------------------------------------------------
(* The last change *)

(* Its time is the newest, and it is a change to stamp. *)
LEMMA LatestIs ==
    ASSUME Past, \A t \in Stamps : t <= Latest
    PROVE  /\ Latest \in Int /\ PageLast \in BOOLEAN
           /\ \A t \in Stamps : t \in Nat /\ t <= Latest
           /\ changes # <<>> => /\ Len(changes) \in DOMAIN changes
                                /\ Latest <= changes[Len(changes)].time
                                /\ ~PageLast => changes[Len(changes)].by = "server"
                                /\ changes[Len(changes)].time \in Nat /\ Latest \in Nat
           /\ changes = <<>> => Stamps = {}
<1>1. changes \in Seq(Changes)
  BY DEF Past
<1>2. \A i \in DOMAIN changes : changes[i].by \in {"page", "server"} /\ changes[i].time \in Nat
  <2>1. \A i \in DOMAIN changes : changes[i] \in Changes
    BY <1>1
  <2> QED BY <2>1 DEF Changes, Times
<1>3. \A i \in DOMAIN changes : Stamp(changes[i]) \in Nat /\ Stamp(changes[i]) <= changes[i].time
  BY <1>2, SecondsBefore DEF Stamp
<1>4. \A t \in Stamps : t \in Nat
  BY <1>3 DEF Stamps
<1>5. CASE changes = <<>>
  BY <1>5 DEF Latest, PageLast, Stamps
<1>6. CASE changes # <<>>
  <2>1. Len(changes) \in DOMAIN changes
    BY <1>1, <1>6
  <2>2. Latest = Stamp(changes[Len(changes)])
    BY <1>6 DEF Latest
  <2> QED BY <2>1, <2>2, <1>2, <1>3, <1>4, <1>6 DEF PageLast
<1> QED
  BY <1>5, <1>6

(* What is set aside by a change of the other side is not newer than the last change. *)
LEMMA NotSuperseded ==
    ASSUME Past, \A t \in Stamps : t <= Latest, NEW c, c.time \in Stamps, ~Superseded(c),
           OfClient(c) <=> ~PageLast
    PROVE  ~(c.time < Latest)
<1>1. /\ changes # <<>> => /\ Len(changes) \in DOMAIN changes
                           /\ Latest <= changes[Len(changes)].time
                           /\ ~PageLast => changes[Len(changes)].by = "server"
                           /\ changes[Len(changes)].time \in Nat /\ Latest \in Nat
      /\ changes = <<>> => Stamps = {}
      /\ c.time \in Nat
  BY LatestIs
<1>2. changes # <<>>
  BY <1>1
<1>3. PageLast => changes[Len(changes)].by = "page"
  BY DEF PageLast
<1>4. ~(changes[Len(changes)].time > c.time)
  BY <1>1, <1>2, <1>3 DEF Superseded, OfClient
<1> QED
  BY <1>1, <1>2, <1>4

(* A new change is the last one, if times tell it apart. *)
LEMMA NewLatest ==
    ASSUME Past, NEW d \in Changes, d.time = now, changes' = Append(changes, d), now' = now, ~Ambiguous'
    PROVE  /\ ~Ambiguous /\ \A t \in Stamps : t \in Nat /\ t < Stamp(d)
           /\ Latest' = Stamp(d) /\ (PageLast' <=> d.by = "page")
           /\ \A t \in Stamps' : t <= Latest'
<1>1. ~Ambiguous /\ \A t \in Stamps : t \in Nat /\ t < Stamp(d)
  BY NewStamp
<1>2. Stamps' = Stamps \cup {Stamp(d)} /\ Stamp(d) \in Nat
  <2>1. Stamps' = Stamps \cup {Stamp(d)} /\ Stamp(d) \in Times
    BY NextStamps
  <2> QED BY <2>1 DEF Times
<1>3. changes' # <<>> /\ changes'[Len(changes')] = d
  BY DEF Past
<1>4. Latest' = Stamp(d) /\ (PageLast' <=> d.by = "page")
  BY <1>3 DEF Latest, PageLast, Stamp, Seconds
<1> QED
  BY <1>1, <1>2, <1>4

-----------------------------------------------------------------------------
(* The steps.  No cookie for windows is left behind, whatever the times are, and the last    *)
(* change goes its way as long as they tell it, no answer is missed and none is overtaken.   *)

Settling == AllAwaited(page) /\ Following

(* The last change is at n, to v. *)
OfPage(n, v, byPage) ==
    /\ n \in Int /\ byPage \in BOOLEAN /\ \A t \in Stamps : t <= n
    /\ FreshPage(page, request) /\ Agreeing(page, request)
    /\ ValuesOfLast(n, v, byPage, page, request) /\ Phase(n, v, byPage, page, request)

(* A step in which only the page changes, or a window misses its answer. *)
LEMMA PageSettles ==
    ASSUME Inv, Settling, UNCHANGED <<now, changes, jar, request, stale>>, missed => missed',
           AllAwaited(page'),
           ~missed' => \A n, v, byPage : OfPage(n, v, byPage) => Goes(n, v, byPage, page, page', request)
    PROVE  Settling'
<1>1. Stamps' = Stamps /\ Latest' = Latest /\ PageLast' = PageLast /\ (Ambiguous' <=> Ambiguous)
  BY DEF Stamps, Latest, PageLast, Ambiguous, Stamp, Seconds
<1>2. Past
  BY DEF Inv, Sound
<1>3. Following'
  <2> SUFFICES ASSUME ~Ambiguous', ~missed', ~stale' PROVE Following'
    BY DEF Following
  <2>1. FreshPage(page, request) /\ Agreeing(page, request) /\ \A t \in Stamps : t <= Latest
    BY <1>1 DEF Inv, FreshCookies, Agreement, Settling, Following
  <2>2. PICK v \in Values \cup {NoValue} : Follows(Latest, v, PageLast, page, request, jar)
    BY <1>1 DEF Settling, Following
  <2>3. Latest \in Int /\ PageLast \in BOOLEAN
    BY <1>2, <2>1, LatestIs
  <2>4. OfPage(Latest, v, PageLast)
    BY <2>1, <2>2, <2>3 DEF OfPage, Follows
  <2>5. Goes(Latest, v, PageLast, page, page', request)
    BY <2>4
  <2>6. Follows(Latest, v, PageLast, page', request, jar)
    BY <2>2, <2>5, GoesFollows
  <2> QED BY <2>1, <2>6, <1>1 DEF Following
<1> QED
  BY <1>3 DEF Settling

(* A read, *)
LEMMA ReadSettling ==
    ASSUME Inv, Settling, NEW w \in Windows, ReadCookie(w)
    PROVE  Settling'
<1>1. Within(page, Stamps) /\ page' = SyncCookie(page, w)
      /\ UNCHANGED <<now, changes, jar, request, missed, stale>>
  BY DEF Inv, Sound, ReadCookie, Unchanged
<1>2. AllAwaited(page')
  BY <1>1, SyncCookieAwaits DEF Settling
<1>3. ASSUME NEW n, NEW v, NEW byPage, OfPage(n, v, byPage)
      PROVE  Goes(n, v, byPage, page, page', request)
  BY <1>1, <1>3, ReadGoes DEF OfPage
<1> QED
  BY <1>1, <1>2, <1>3, PageSettles

(* a message between windows, *)

(* a message between windows that an iframe starts, *)
LEMMA StartSettling ==
    ASSUME Inv, Settling, NEW x \in CrossDomain, TopReceivesStart(x)
    PROVE  Settling'
<1>1. /\ Within(page, Stamps) /\ AllAwaited(page) /\ page.toTop[x] # <<>>
      /\ Head(page.toTop[x]).cmd = "start"
      /\ UNCHANGED <<now, changes, jar, request, missed, stale>>
  BY DEF Inv, Sound, Settling, TopReceivesStart, Unchanged
<1>2. PICK c : c = CHOOSE d \in Head(page.toTop[x]).cookie : TRUE
  OBVIOUS
<1>3. PICK r : r = [page EXCEPT !.toTop[x] = Tail(@)]
  OBVIOUS
<1>4. PICK s : s = SyncWindowCookie(r, {Top}, c)
  OBVIOUS
<1>5. page' = SyncFromTop(s, c, x)
  BY <1>2, <1>3, <1>4 DEF TopReceivesStart
<1>6. /\ c \in SyncCookies /\ Asks(page, x, 1, c) /\ c \in Exchanging(page)
      /\ c.sync \in WindowKinds /\ c.time \in Stamps
      /\ \A d : Asks(page, x, 1, d) => d = c
  BY <1>1, <1>2, FirstStart
<1>7. Within(r, Stamps) /\ Taken(page, r, x)
  BY <1>1, <1>3, TakenIs
<1>8. Forwards(Stamps, page, r, s, x, c)
  BY <1>4, <1>6, <1>7, ForwardsIs
<1>9. AllAwaited(page')
  BY <1>1, <1>5, <1>6, <1>8, StartAwaits
<1>10. ASSUME NEW n, NEW v, NEW byPage, OfPage(n, v, byPage)
       PROVE  Goes(n, v, byPage, page, page', request)
  BY <1>10, <1>1, <1>5, <1>6, <1>8, StartGoes DEF OfPage
<1> QED
  BY <1>1, <1>9, <1>10, PageSettles

(* answers, *)
LEMMA DoneSettling ==
    ASSUME Inv, Settling, NEW x \in CrossDomain, TopReceivesDone(x)
    PROVE  Settling'
<1>1. /\ Within(page, Stamps) /\ AllAwaited(page) /\ page.toTop[x] # <<>>
      /\ Head(page.toTop[x]).cmd = "done"
      /\ UNCHANGED <<now, changes, jar, request, missed, stale>>
  BY DEF Inv, Sound, Settling, TopReceivesDone, Unchanged
<1>2. 1 \in DOMAIN page.toTop[x] /\ Head(page.toTop[x]) = page.toTop[x][1]
  <2>1. page.toTop[x] \in Seq(ToTops)
    BY <1>1 DEF Within, Pages
  <2> QED BY <2>1, <1>1
<1>3. PICK id : id = page.toTop[x][1].id
  OBVIOUS
<1>4. PICK r : r = [page EXCEPT !.toTop[x] = Tail(@)]
  OBVIOUS
<1>5. page' = Resolve(r, id, x)
  BY <1>2, <1>3, <1>4 DEF TopReceivesDone
<1>6. Within(r, Stamps) /\ Taken(page, r, x)
  BY <1>1, <1>4, TakenIs
<1>7. page.toTop[x][1].cookie = {} /\ id \in DOMAIN r.syncs
  <2>1. page.toTop[x][1].cookie = {} /\ id \in DOMAIN page.syncs
    BY <1>1, <1>2, <1>3, MessagesAreOfSyncs
  <2> QED BY <2>1, <1>6 DEF Taken
<1>8. AllAwaited(r)
  <2>1. \A d : ~Asks(page, x, 1, d)
    BY <1>7 DEF Asks
  <2>2. \A d \in InDoc(r) : ForWindows(d) => Awaited(r, d)
    BY <2>1, <1>6, <1>1, TakenAwaits
  <2> QED BY <2>2 DEF AllAwaited
<1>9. Resolves(r, page', id, x)
  BY <1>5, <1>6, <1>7, ResolveIs
<1>10. AllAwaited(page')
  BY <1>6, <1>7, <1>8, <1>9, ResolveAwaits
<1>11. ASSUME NEW n, NEW v, NEW byPage, OfPage(n, v, byPage)
       PROVE  Goes(n, v, byPage, page, page', request)
  BY <1>11, <1>1, <1>2, <1>3, <1>5, <1>6, DoneGoes DEF OfPage
<1> QED
  BY <1>1, <1>10, <1>11, PageSettles

(* or an iframe takes, *)
LEMMA FrameSettling ==
    ASSUME Inv, Settling, NEW x \in CrossDomain, FrameReceivesStart(x)
    PROVE  Settling'
<1>1. /\ Within(page, Stamps) /\ AllAwaited(page) /\ page.toFrame[x] # <<>>
      /\ UNCHANGED <<now, changes, jar, request, missed, stale>>
  BY DEF Inv, Sound, Settling, FrameReceivesStart, Unchanged
<1>2. PICK m : m = Head(page.toFrame[x])
  OBVIOUS
<1>3. page' = SyncWindowCookie(Reply(page, x, m), {x}, m.cookie)
  BY <1>2 DEF FrameReceivesStart, Reply
<1>4. FrameAnswers(page, page', x, m)
  BY <1>1, <1>2, <1>3, FrameReceivesIs
<1>5. InDoc(page') = InDoc(page) /\ \A d : Awaited(page, d) => Awaited(page', d)
  BY <1>4 DEF FrameAnswers, Answered, InDoc, SameAsked, Asked, WaitedFor, Awaited
<1>6. AllAwaited(page')
  BY <1>5, <1>1 DEF AllAwaited
<1>7. (\E c \in InDoc(page) : ForWindows(c)) \/ page'.local = page.local
  <2>1. m.cookie \in Exchanging(page)
    BY <1>4 DEF FrameAnswers, Answered, Exchanging, Syncing
  <2>2. ForWindows(m.cookie)
    BY <2>1, <1>1 DEF Within, WindowKinds, ForWindows
  <2> QED BY <2>2, <1>4 DEF FrameAnswers
<1>8. ASSUME NEW n, NEW v, NEW byPage, OfPage(n, v, byPage)
      PROVE  Goes(n, v, byPage, page, page', request)
  BY <1>8, <1>5, <1>7, SameDocumentGoes DEF OfPage
<1> QED
  BY <1>1, <1>6, <1>8, PageSettles

(* a message that is repeated or given up, *)
LEMMA TimeoutSettling ==
    ASSUME Inv, Settling, NEW x \in CrossDomain, NEW id \in DOMAIN page.syncs, MessageTimeout(id, x)
    PROVE  Settling'
<1>1. Within(page, Stamps) /\ AllAwaited(page) /\ UNCHANGED <<now, changes, jar, request, stale>>
  BY DEF Inv, Sound, Settling, MessageTimeout
<1>2. CASE AttemptsLeft(page.syncs[id].attempts[x])
  <2>1. page' = SentAgain(page, id, x) /\ missed' = missed
    BY <1>2 DEF MessageTimeout, SentAgain
  <2>2. /\ Within(page', Stamps) /\ SameExchange(page, page', id)
        /\ page'.syncs[id].waiting = page.syncs[id].waiting /\ page'.doc = page.doc
    BY <1>1, <1>2, <2>1, SendsAgain
  <2>3. InDoc(page') = InDoc(page) /\ \A d : Awaited(page, d) => Awaited(page', d)
    <3>1. \A d : d \in Asked(page) => d \in Asked(page')
      BY <2>2 DEF SameExchange, Asked, Asks
    <3>2. \A i \in DOMAIN page.syncs :
            /\ i \in DOMAIN page'.syncs /\ page'.syncs[i].cookie = page.syncs[i].cookie
            /\ page'.syncs[i].waiting = page.syncs[i].waiting
      BY <2>2 DEF SameExchange
    <3> QED BY <2>2, <3>1, <3>2 DEF InDoc, WaitedFor, Awaited
  <2>4. AllAwaited(page')
    BY <2>3, <1>1 DEF AllAwaited
  <2>5. page'.local = page.local
    BY <2>2 DEF SameExchange
  <2>6. ASSUME NEW n, NEW v, NEW byPage, OfPage(n, v, byPage)
        PROVE  Goes(n, v, byPage, page, page', request)
    BY <2>6, <2>3, <2>5, SameDocumentGoes DEF OfPage
  <2> QED BY <1>1, <2>1, <2>4, <2>6, PageSettles
<1>3. CASE ~AttemptsLeft(page.syncs[id].attempts[x])
  <2>1. page' = Resolve(page, id, x) /\ missed' = TRUE
    BY <1>3 DEF MessageTimeout
  <2>2. Resolves(page, page', id, x)
    BY <1>1, <2>1, ResolveIs
  <2>3. AllAwaited(page')
    BY <2>2, <1>1, ResolveAwaits
  <2> QED BY <1>1, <2>1, <2>3, PageSettles
<1> QED
  BY <1>2, <1>3

(* the clock, *)
LEMMA TickSettling ==
    ASSUME Settling, UNCHANGED <<page, changes, jar, request, missed, stale>>
    PROVE  Settling'
<1>1. Stamps' = Stamps /\ Latest' = Latest /\ PageLast' = PageLast /\ (Ambiguous' <=> Ambiguous)
  BY DEF Stamps, Latest, PageLast, Ambiguous
<1> QED
  BY <1>1 DEF Settling, Following

(* A step of a request that does not change the cookie. *)
LEMMA RequestSettles ==
    ASSUME Inv, Settling, UNCHANGED <<now, changes, missed>>, stale => stale', AllAwaited(page'),
           ASSUME ~stale', ~Ambiguous, NEW n, NEW v, NEW byPage, n = Latest, byPage = PageLast,
                  OfPage(n, v, byPage), Follows(n, v, byPage, page, request, jar)
           PROVE  Follows(n, v, byPage, page', request', jar')
    PROVE  Settling'
<1>1. Stamps' = Stamps /\ Latest' = Latest /\ PageLast' = PageLast /\ (Ambiguous' <=> Ambiguous)
  BY DEF Stamps, Latest, PageLast, Ambiguous
<1>2. Following'
  <2> SUFFICES ASSUME ~Ambiguous', ~missed', ~stale' PROVE Following'
    BY DEF Following
  <2>1. FreshPage(page, request) /\ Agreeing(page, request) /\ \A t \in Stamps : t <= Latest
    BY <1>1 DEF Inv, FreshCookies, Agreement, Settling, Following
  <2>2. PICK v \in Values \cup {NoValue} : Follows(Latest, v, PageLast, page, request, jar)
    BY <1>1 DEF Settling, Following
  <2>3. Latest \in Int /\ PageLast \in BOOLEAN
    BY <2>1, LatestIs DEF Inv, Sound
  <2>4. OfPage(Latest, v, PageLast)
    BY <2>1, <2>2, <2>3 DEF OfPage, Follows
  <2>5. Follows(Latest, v, PageLast, page', request', jar')
    BY <1>1, <2>2, <2>4
  <2> QED BY <2>1, <2>5, <1>1 DEF Following
<1> QED
  BY <1>2 DEF Settling

(* a request that is sent, *)
LEMMA SendSettling ==
    ASSUME Inv, Settling, NEW r \in Requests, SendRequest(r)
    PROVE  Settling'
<1>1. /\ request' = SentWith(request, r, page.doc) /\ request[r].state = "unsent"
      /\ \A q \in 1..(r - 1) : request[q].state # "unsent"
      /\ UNCHANGED <<page, now, changes, jar, missed, stale>>
  BY DEF SendRequest, SentWith
<1>2. Within(page, Stamps) /\ RequestsWithin(request, Stamps) /\ AllAwaited(page')
  BY <1>1 DEF Inv, Sound, Settling
<1>3. ASSUME ~stale', ~Ambiguous, NEW n, NEW v, NEW byPage, n = Latest, byPage = PageLast,
             OfPage(n, v, byPage), Follows(n, v, byPage, page, request, jar)
      PROVE  Follows(n, v, byPage, page', request', jar')
  <2>1. n \in Int /\ byPage \in BOOLEAN
    BY <1>3 DEF OfPage
  <2>2. Follows(n, v, byPage, page, request', jar)
    BY <2>1, <1>1, <1>2, <1>3, SendFollows
  <2> QED BY <2>2, <1>1
<1> QED
  BY <1>1, <1>2, <1>3, RequestSettles

(* The first of the requests in its state goes on. *)
LEMMA NotOvertaking ==
    ASSUME NEW r \in Requests, ~Overtakes(r)
    PROVE  \A q \in Requests : q < r => request[q].state # request[r].state
  BY DEF Overtakes, Requests

(* handled by the proxy, *)
LEMMA ApplySettling ==
    ASSUME Inv, Settling, NEW r \in Requests, ApplyClientSyncCookie(r)
    PROVE  Settling'
<1>1. PICK F : F = {c \in Actual(request[r].carried) : "client" \in c.sync}
  OBVIOUS
<1>2. /\ request' = HandledWith(request, r) /\ request[r].state = "sent"
      /\ jar' = IF F = {} THEN jar ELSE (CHOOSE c \in F : TRUE).value
      /\ UNCHANGED <<page, now, changes, missed>>
      /\ stale' = (stale \/ Overtakes(r) \/ \E c \in F : Superseded(c))
  BY <1>1 DEF ApplyClientSyncCookie, HandledWith
<1>3. Within(page, Stamps) /\ RequestsWithin(request, Stamps) /\ AllAwaited(page') /\ Past
  BY <1>2 DEF Inv, Sound, Settling
<1>4. F = {c \in Actual(request[r].carried) : OfClient(c)}
  BY <1>1 DEF OfClient
<1>5. \A c \in F : c.time \in Stamps /\ OfClient(c)
  <2>1. request[r].carried \in Seq(SyncCookies)
    BY <1>3, StatesOfRequests
  <2>2. F \subseteq Carried(request, r)
    BY <2>1, <1>4, ActualIsCarried DEF Carried
  <2> QED BY <2>2, <1>3, <1>4 DEF RequestsWithin
<1>6. ASSUME ~stale', ~Ambiguous, NEW n, NEW v, NEW byPage, n = Latest, byPage = PageLast,
             OfPage(n, v, byPage), Follows(n, v, byPage, page, request, jar)
      PROVE  Follows(n, v, byPage, page', request', jar')
  <2>1. n \in Int /\ byPage \in BOOLEAN /\ \A t \in Stamps : t \in Nat /\ t <= n
    BY <1>3, <1>6, LatestIs DEF OfPage
  <2>2. ~Overtakes(r) /\ \A c \in F : ~Superseded(c)
    BY <1>2, <1>6
  <2>3. \A q \in Requests : q < r => request[q].state # "sent"
    BY <2>2, <1>2, NotOvertaking
  <2>4. ASSUME ~byPage, NEW c \in F
        PROVE  c.time = n
    <3>1. ~(c.time < n)
      <4>1. ~Superseded(c) /\ c.time \in Stamps /\ OfClient(c) /\ ~PageLast
        BY <2>2, <2>4, <1>5, <1>6
      <4>2. \A t \in Stamps : t <= Latest
        BY <2>1, <1>6
      <4> QED BY <4>1, <4>2, <1>3, <1>6, NotSuperseded
    <3>2. c.time \in Nat /\ c.time <= n
      BY <2>1, <1>5
    <3> QED BY <3>1, <3>2, <2>1
  <2>5. \A q \in Requests : Distinct(Carried(request, q))
    BY <1>6 DEF OfPage, FreshPage, Fresh
  <2>6. Follows(n, v, byPage, page, request', jar')
    <3> HIDE DEF Follows
    <3> QED BY <2>1, <2>3, <2>4, <2>5, <1>2, <1>3, <1>4, <1>6, ApplyFollows
  <2> QED BY <2>6, <1>2
<1> QED
  BY <1>2, <1>3, <1>6, RequestSettles

(* answered, with a change of the cookie or without, *)
LEMMA ProcessSettling ==
    ASSUME Inv, Settling, NEW r \in Requests, NEW set \in {{}} \cup {{v} : v \in Values},
           ProcessSetCookieHeader(r, set)
    PROVE  Settling'
<1>1. PICK C : C = {[sync |-> {"server"}, time |-> now, value |-> v] : v \in set}
  OBVIOUS
<1>2. PICK d : d = [by |-> "server", time |-> now]
  OBVIOUS
<1>3. /\ jar' = IF set = {} THEN jar ELSE CHOOSE v \in set : TRUE
      /\ changes' = IF set = {} THEN changes ELSE Append(changes, d)
      /\ request' = AnsweredWith(request, r, C) /\ request[r].state = "handled"
      /\ stale' = (stale \/ Overtakes(r))
      /\ UNCHANGED <<page, now, missed>>
  BY <1>1, <1>2 DEF ProcessSetCookieHeader, AnsweredWith, DeletesFor
<1>4. Within(page, Stamps) /\ RequestsWithin(request, Stamps) /\ AllAwaited(page') /\ Past
  BY <1>3 DEF Inv, Sound, Settling
<1>5. ~stale' => ~stale /\ \A q \in Requests : q < r => request[q].state # "handled"
  BY <1>3, NotOvertaking
<1>6. CASE set = {}
  <2>1. C = {} /\ UNCHANGED <<page, now, changes, missed, jar>>
    BY <1>1, <1>3, <1>6
  <2>2. ASSUME ~stale', ~Ambiguous, NEW n, NEW v, NEW byPage, n = Latest, byPage = PageLast,
               OfPage(n, v, byPage), Follows(n, v, byPage, page, request, jar)
        PROVE  Follows(n, v, byPage, page', request', jar')
    <3>1. n \in Int /\ byPage \in BOOLEAN /\ \A t \in Stamps : t \in Nat /\ t <= n
      BY <1>4, <2>2, LatestIs DEF OfPage
    <3>2. Distinct(Carried(request, r))
      BY <2>2 DEF OfPage, FreshPage, Fresh
    <3>3. Follows(n, v, byPage, page, request', jar)
      BY <3>1, <3>2, <2>1, <2>2, <1>3, <1>4, <1>5, AnswerFollows
    <3> QED BY <3>3, <2>1
  <2> QED BY <2>1, <2>2, <1>3, <1>4, RequestSettles
<1>7. CASE set # {}
  <2>1. PICK v \in Values : set = {v}
    BY <1>7
  <2>2. jar' = v /\ changes' = Append(changes, d)
    BY <2>1, <1>3, <1>7
  <2>3. PICK s : s = [sync |-> {"server"}, time |-> now, value |-> v]
    OBVIOUS
  <2>4. d \in Changes /\ d.time = now /\ Stamp(d) = now /\ now \in Times /\ d.by = "server"
    BY <1>2, <1>4 DEF Past, Changes, Stamp
  <2>5. C = {s} /\ s \in SyncCookies /\ s.sync = {"server"} /\ s.time = Stamp(d) /\ s.value = v
    BY <2>1, <2>3, <2>4, <1>1 DEF SyncCookies
  <2> SUFFICES ASSUME ~Ambiguous', ~missed', ~stale' PROVE Following'
    BY <1>4 DEF Settling, Following
  <2>6. /\ ~Ambiguous /\ \A t \in Stamps : t \in Nat /\ t < Stamp(d)
        /\ Latest' = Stamp(d) /\ ~PageLast'
        /\ \A t \in Stamps' : t <= Latest'
    BY <2>2, <2>4, <1>3, <1>4, NewLatest
  <2>7. FreshPage(page, request) /\ InTurn(request)
    BY <2>6, <1>3, <1>5 DEF Inv, FreshCookies, Settling, Following, Follows
  <2> DEFINE U == Stamps \cup {Stamp(d)}
  <2>8. SetsCookie(C, U) /\ Stamps \subseteq U
    BY <2>5 DEF SetsCookie
  <2> HIDE DEF U
  <2>9. \A t \in Stamps : t \in Nat /\ t < s.time
    BY <2>5, <2>6
  <2>10. Distinct(Carried(request, r))
    BY <2>7 DEF FreshPage, Fresh
  <2>11. Follows(s.time, s.value, FALSE, page, request', s.value)
    BY <2>5, <2>7, <2>8, <2>9, <2>10, <1>3, <1>4, <1>5, SetFollows
  <2>12. Latest' = s.time /\ PageLast' = FALSE /\ jar' = s.value /\ page' = page
    BY <2>2, <2>5, <2>6, <1>3 DEF PageLast
  <2>13. s.value \in Values \cup {NoValue}
    BY <2>1, <2>5
  <2> QED BY <2>6, <2>11, <2>12, <2>13 DEF Following
<1> QED
  BY <1>6, <1>7

(* or over. *)
LEMMA ReceiveSettling ==
    ASSUME Inv, Settling, NEW r \in Requests, ReceiveAnswer(r)
    PROVE  Settling'
<1>1. /\ page' = Applied(page, Deleted(request, r), Set(request, r))
      /\ request' = OverWith(request, r) /\ request[r].state = "answered"
      /\ stale' = (stale \/ Overtakes(r) \/ \E c \in Set(request, r) : Superseded(c))
      /\ UNCHANGED <<now, changes, jar, missed>>
  BY DEF ReceiveAnswer, Applied, Deleted, Set, OverWith
<1>2. Within(page, Stamps) /\ RequestsWithin(request, Stamps) /\ AllAwaited(page) /\ Past
  BY DEF Inv, Sound, Settling
<1>3. AllAwaited(page')
  <2>1. SetsCookie(Set(request, r), Stamps)
    BY <1>2, SetsOne
  <2>2. /\ SameMessages(page, page')
        /\ InDoc(page') = {d \in InDoc(page) : /\ SyncKey(d) \notin Deleted(request, r)
                                               /\ SyncKey(d) \notin KeysOf(Set(request, r))}
                          \cup Set(request, r)
    BY <1>1, <1>2, <2>1, AppliedIs
  <2>3. \A d \in InDoc(page') : ForWindows(d) => d \in InDoc(page)
    <3>1. \A d \in Set(request, r) : ~ForWindows(d)
      BY <1>2 DEF RequestsWithin, ForWindows
    <3> QED BY <2>2, <3>1
  <2> QED BY <2>2, <2>3, <1>2, FewerAwaited
<1>4. ASSUME ~stale', ~Ambiguous, NEW n, NEW v, NEW byPage, n = Latest, byPage = PageLast,
             OfPage(n, v, byPage), Follows(n, v, byPage, page, request, jar)
      PROVE  Follows(n, v, byPage, page', request', jar')
  <2>1. n \in Int /\ byPage \in BOOLEAN /\ \A t \in Stamps : t \in Nat /\ t <= n
    BY <1>2, <1>4, LatestIs DEF OfPage
  <2>2. ~Overtakes(r) /\ \A c \in Set(request, r) : ~Superseded(c)
    BY <1>1, <1>4
  <2>3. \A q \in Requests : q < r => request[q].state # "answered"
    BY <2>2, <1>1, NotOvertaking
  <2>4. ASSUME byPage, NEW c \in Set(request, r)
        PROVE  ~(c.time < n)
    <3>1. ~Superseded(c) /\ c.time \in Stamps /\ ~OfClient(c) /\ PageLast
      BY <2>2, <2>4, <1>2, <1>4 DEF RequestsWithin, OfClient
    <3>2. \A t \in Stamps : t <= Latest
      BY <2>1, <1>4
    <3> QED BY <3>1, <3>2, <1>2, <1>4, NotSuperseded
  <2>5. Follows(n, v, byPage, page', request', jar)
    BY <2>1, <2>3, <2>4, <1>1, <1>2, <1>4, ReceiveFollows
  <2> QED BY <2>5, <1>1
<1> QED
  BY <1>1, <1>3, <1>4, RequestSettles

(* A write of the page. *)
LEMMA WriteSettling ==
    ASSUME Inv, Settling, NEW w \in Windows, NEW v \in Values, WriteCookie(w, v)
    PROVE  Settling'
<1>1. PICK c : c = [sync |-> {"client", "window"}, time |-> Seconds(now), value |-> v]
  OBVIOUS
<1>2. PICK d : d = [by |-> "page", time |-> now]
  OBVIOUS
<1>3. /\ changes' = Append(changes, d)
      /\ page' = SyncCookie(SyncClientCookie(SetCookie(page, w, c), w, c), w)
      /\ UNCHANGED <<now, jar, request, missed, stale>>
  BY <1>1, <1>2 DEF WriteCookie
<1>4. Past /\ Within(page, Stamps) /\ RequestsWithin(request, Stamps) /\ AllAwaited(page)
  BY DEF Inv, Sound, Settling
<1>5. d \in Changes /\ d.time = now /\ Stamp(d) = Seconds(now) /\ d.by = "page"
  BY <1>2, <1>4 DEF Past, Changes, Stamp
<1>6. Stamp(d) \in Times
  BY <1>3, <1>4, <1>5, NextStamps
<1>7. /\ c \in SyncCookies /\ c.sync = {"client", "window"} /\ c.sync \in WindowKinds
      /\ c.time = Stamp(d) /\ c.value = v
  BY <1>1, <1>5, <1>6 DEF SyncCookies, WindowKinds
<1>8. AllAwaited(page')
  <2> DEFINE T == Stamps \cup {Stamp(d)}
  <2>1. Within(page, T) /\ c.time \in T
    BY <1>4, <1>7, WithinMore
  <2> HIDE DEF T
  <2> QED BY <2>1, <1>3, <1>4, <1>7, WriteAwaits
<1>9. Following'
  <2> SUFFICES ASSUME ~Ambiguous', ~missed', ~stale' PROVE Following'
    BY DEF Following
  <2>1. /\ ~Ambiguous /\ \A t \in Stamps : t \in Nat /\ t < Stamp(d)
        /\ Latest' = Stamp(d) /\ PageLast'
        /\ \A t \in Stamps' : t <= Latest'
    BY <1>3, <1>4, <1>5, NewLatest
  <2>2. FreshPage(page, request) /\ InTurn(request)
    BY <2>1, <1>3 DEF Inv, FreshCookies, Settling, Following, Follows
  <2>3. \A t \in Stamps : t < c.time
    BY <2>1, <1>7
  <2>4. Written(page', c)
    BY <2>2, <2>3, <1>3, <1>4, <1>7, WriteSettles
  <2>5. Follows(c.time, c.value, TRUE, page', request, jar)
    BY <2>2, <2>3, <2>4, <1>4, <1>7, WriteFollows
  <2>6. Latest' = c.time /\ PageLast' = TRUE /\ jar' = jar /\ request' = request
    BY <2>1, <1>3, <1>7 DEF PageLast
  <2> QED BY <2>1, <2>5, <2>6, <1>7 DEF Following
<1> QED
  BY <1>8, <1>9 DEF Settling

(* It holds of a page that has no cookie yet, *)
LEMMA InitSettling ==
    ASSUME Init
    PROVE  Settling
<1>1. changes = <<>> /\ Stamps = {} /\ Latest = -1 /\ PageLast = FALSE
  BY DEF Init, Stamps, Latest, PageLast
<1>2. InDoc(page) = {} /\ (\A w \in Windows : page.local[w] = NoValue) /\ jar = NoValue
  BY DEF Init, InitialPage, InDoc, Range
<1>3. \A r \in Requests : /\ request[r].state = "unsent" /\ Carried(request, r) = {}
                          /\ Set(request, r) = {} /\ Deleted(request, r) = {}
  BY DEF Init, NoAnswer, Carried, Set, Deleted, Range
<1>4. AllAwaited(page)
  BY <1>2 DEF AllAwaited
<1>5. ValuesOfLast(-1, NoValue, FALSE, page, request)
  BY <1>2, <1>3 DEF ValuesOfLast
<1>6. Phase(-1, NoValue, FALSE, page, request)
  BY <1>2, <1>3 DEF Phase, Known, NothingSet
<1>7. InTurn(request)
  BY <1>3 DEF InTurn, Rank
<1>8. JarFollows(-1, NoValue, FALSE, page, request, jar)
  BY <1>2 DEF JarFollows
<1>9. Follows(-1, NoValue, FALSE, page, request, jar)
  BY <1>5, <1>6, <1>7, <1>8 DEF Follows
<1> QED
  BY <1>1, <1>4, <1>9 DEF Settling, Following

(* and every step keeps it. *)
LEMMA NextSettling ==
    ASSUME Inv, Settling, [Next]_vars
    PROVE  Settling'
<1>1. CASE \E w \in Windows, v \in Values : WriteCookie(w, v)
  BY <1>1, WriteSettling
<1>2. CASE \E w \in Windows : ReadCookie(w)
  BY <1>2, ReadSettling
<1>3. CASE \E x \in CrossDomain : TopReceivesStart(x) \/ TopReceivesDone(x) \/ FrameReceivesStart(x)
  BY <1>3, StartSettling, DoneSettling, FrameSettling
<1>4. CASE \E x \in CrossDomain : \E id \in DOMAIN page.syncs : MessageTimeout(id, x)
  BY <1>4, TimeoutSettling
<1>5. CASE Tick \/ UNCHANGED vars
  <2>1. UNCHANGED <<page, changes, jar, request, missed, stale>>
    BY <1>5 DEF Tick, vars
  <2> QED BY <2>1, TickSettling
<1>6. CASE \E r \in Requests : SendRequest(r) \/ ApplyClientSyncCookie(r) \/ ReceiveAnswer(r)
  BY <1>6, SendSettling, ApplySettling, ReceiveSettling
<1>7. CASE \E r \in Requests : \E set \in {{}} \cup {{v} : v \in Values} : ProcessSetCookieHeader(r, set)
  BY <1>7, ProcessSettling
<1> QED
  BY <1>1, <1>2, <1>3, <1>4, <1>5, <1>6, <1>7 DEF Next

(* It holds in every state. *)
LEMMA SettlingInvariant == Spec => [](Inv /\ Settling)
<1>1. Init => Inv /\ Settling
  BY InitInv, InitSettling
<1>2. Inv /\ Settling /\ [Next]_vars => (Inv /\ Settling)'
  BY NextInv, NextSettling
<1> QED
  BY <1>1, <1>2, PTL DEF Spec

(* So a window cookie does not outlive its synchronisation, *)
LEMMA Leaves ==
    ASSUME Inv, Settling
    PROVE  NoLeftover
<1> SUFFICES ASSUME Exchanged, NEW c \in InDoc(page), ForWindows(c) PROVE FALSE
  BY DEF NoLeftover, ForWindows, InDoc
<1>1. Awaited(page, c)
  BY DEF Settling, AllAwaited
<1>2. ~WaitedFor(page, c)
  BY DEF Exchanged, WaitedFor
<1>3. PICK x \in CrossDomain, i \in Places : Asks(page, x, i, c)
  BY <1>1, <1>2 DEF Awaited, Asked
<1>4. i \in DOMAIN page.toTop[x] /\ page.toTop[x] = <<>>
  BY <1>3 DEF Asks, Exchanged
<1> QED
  BY <1>4

(* and the proxy has what all windows know, or is brought it. *)
LEMMA Agrees ==
    ASSUME Inv, Settling
    PROVE  ServerWillAgree
<1> SUFFICES ASSUME Exchanged, ~missed, ~Ambiguous, ~stale,
                    \A c \in InDoc(page) : ~OfServer(c),
                    \A r \in Requests : request[r].state \in {"unsent", "over"},
                    page.local[Top] # jar
             PROVE  \E c \in Actual(page.doc) : OfClient(c) /\ c.value = page.local[Top]
  BY DEF ServerWillAgree, InDoc, OfServer, OfClient
<1>1. /\ Within(page, Stamps) /\ FreshPage(page, request) /\ page.doc \in Seq(SyncCookies)
      /\ Once(page.doc) /\ InDoc(page) \subseteq SyncCookies
  BY DocumentIsOfCookies DEF Inv, Sound, FreshCookies, Within
<1>2. PICK v \in Values \cup {NoValue} : Follows(Latest, v, PageLast, page, request, jar)
  BY DEF Settling, Following
<1>3. NothingSet(request)
  BY <1>2 DEF Follows, InTurn, NothingSet
<1>4. \A c \in InDoc(page) : ~ForWindows(c)
  BY Leaves DEF NoLeftover, InDoc, ForWindows
<1>5. Known(Latest, v, PageLast, page, request)
  BY <1>2, <1>3, <1>4 DEF Follows, Phase, Coming, Arrived, Told, NothingSet
<1>6. page.local[Top] = v
  BY <1>5 DEF Known, Windows
<1>7. HasClient(page)
  BY <1>2, <1>6 DEF Follows, JarFollows, Brought
<1>8. PICK c \in InDoc(page) : OfClient(c)
  BY <1>7 DEF HasClient
<1>9. \A d \in InDoc(page) : d = c
  BY <1>5, <1>8, <1>1 DEF Known, FreshPage, Fresh, Distinct
<1>10. c \in Actual(page.doc)
  <2>1. Newest(InDoc(page), c) /\ c \in SyncCookies
    BY <1>1, <1>8, <1>9 DEF Newest
  <2> QED BY <2>1, <1>1, <1>9, NewestIsActual DEF Newest, InDoc
<1>11. c.value = v
  BY <1>2, <1>5, <1>8 DEF Known, Follows, ValuesOfLast, OfLast
<1> QED
  BY <1>6, <1>8, <1>10, <1>11

-----------------------------------------------------------------------------
(* The theorems *)

THEOREM TypeCorrect == Spec => []TypeOK
<1>1. Inv => TypeOK
  <2> SUFFICES ASSUME Inv PROVE TypeOK
    OBVIOUS
  <2>1. Past /\ Within(page, Stamps) /\ RequestsWithin(request, Stamps)
    BY DEF Inv, Sound
  <2>2. \A x \in CrossDomain : \A i \in DOMAIN page.toFrame[x] : page.toFrame[x][i].id \in DOMAIN page.syncs
    BY <2>1 DEF Within, Messages
  <2>3. \A x \in CrossDomain : \A i \in DOMAIN page.toTop[x] :
           page.toTop[x][i].id \in DOMAIN page.syncs \cup {NoId}
    BY <2>1, MessagesAreOfSyncs
  <2>4. page \in Pages /\ request \in [Requests -> PageRequests]
    BY <2>1 DEF Within, RequestsWithin
  <2> QED BY <2>1, <2>2, <2>3, <2>4 DEF TypeOK, Inv, Sound, Past, Changes
<1> QED
  BY <1>1, Invariant, PTL

(* WindowsAgree for any windows, attempts, requests and times: when no message is under     *)
(* way or awaited, all windows show the page the same cookie. In a settled page they do.    *)
(* An unsettled one has a newest cookie that matters; if it is not one of the server that   *)
(* waits to be read it is for windows, and they are still telling of it.                    *)
THEOREM AllWindowsAgree == Spec => []WindowsAgree
<1>1. Inv => WindowsAgree
  <2> SUFFICES ASSUME Inv, Exchanged, ~missed, ~Ambiguous,
                      \A c \in Range(page.doc) : "server" \notin c.sync
               PROVE  \A v, w \in Windows : page.local[v] = page.local[w]
    BY DEF WindowsAgree
  <2>1. Within(page, Stamps) /\ FreshPage(page, request) /\ Agreeing(page, request)
    BY DEF Inv, Sound, FreshCookies, Agreement
  <2>2. CASE Settled(page)
    BY <2>2 DEF Settled
  <2>3. CASE Unsettled(page, request)
    <3>1. InDoc(page) \subseteq SyncCookies /\ InDoc(page) # {}
      BY <2>1, <2>3, DocumentIsOfCookies DEF Within, Unsettled, NewestMatters
    <3>2. PICK m \in InDoc(page) : \A d \in InDoc(page) : d.time <= m.time
      BY <3>1, NewestExists
    <3>3. ~Newer(InDoc(page), m)
      BY <3>1, <3>2 DEF Newer, SyncCookies, Times
    <3>4. Matters(m) /\ ~OfServer(m) /\ m.sync \in Kinds
      BY <2>1, <2>3, <3>2, <3>3 DEF Unsettled, NewestMatters, InDoc, OfServer, Within
    <3>5. Telling(page, m)
      BY <2>3, <3>2, <3>4, KindsOfCookies DEF Unsettled
    <3>6. CASE AskedFor(page, m)
      <4>1. PICK x \in CrossDomain, i \in Places : Asks(page, x, i, m)
        BY <3>6 DEF AskedFor
      <4>2. i \in DOMAIN page.toTop[x] /\ page.toTop[x] = <<>>
        BY <4>1 DEF Asks, Exchanged
      <4> QED BY <4>2
    <3>7. CASE SyncedBy(page, m)
      BY <3>7 DEF SyncedBy, SyncedIn, Exchanged
    <3> QED BY <3>5, <3>6, <3>7 DEF Telling
  <2> QED BY <2>1, <2>2, <2>3 DEF Agreeing
<1> QED
  BY <1>1, Invariant, PTL

(* CookiesSettle for any windows, attempts, requests and times: when no message is under way *)
(* or awaited, no window cookie is left in document.cookie; and if no answer was missed, the *)
(* times tell the changes apart and nothing older was brought, what all windows show is in   *)
(* the jar, or the synchronisation cookie that the next request carries takes it there.      *)
THEOREM CookiesSettleDown == Spec => []CookiesSettle
<1>1. Inv /\ Settling => CookiesSettle
  BY Leaves, Agrees DEF CookiesSettle
<1> QED
  BY <1>1, SettlingInvariant, PTL

===============================================================================
