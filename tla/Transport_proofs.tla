--------------------------- MODULE Transport_proofs ---------------------------
(***************************************************************************)
(* Proofs about Transport for any number of iframes, shapes and sends.     *)
(*                                                                         *)
(* A send is in one place at a time: it waits in its window's queue, is    *)
(* posted in the window's channel, waits in the worker's queue of its      *)
(* command, has an XHR, or is over; what an iframe had queued when it left *)
(* is nowhere.  The sends of a window pass these places in their order.    *)
(* A window holds the callback of a send until it has read the answer, and *)
(* a send leaves the store only for a send that stands for it.             *)
(***************************************************************************)
EXTENDS Transport, TLAPS, FiniteSetTheorems, SequenceTheorems

(* The entries of q that have one window are in the order of their calls. *)
InCallOrder(q, f) == \A i, j \in DOMAIN q : i < j /\ f[q[i]] = f[q[j]] => q[i] < q[j]

Behind(w) == Range(channel[w]) \cup Range(queue[w])
AtWorker  == UNION {Range(msgQueue[c]) : c \in Cmds}
UnderWay  == {"sent", "done", "refused"}

(* What a window has queued or posted is its own, waits in call order, and nothing that the *)
(* window sent later has gone further.                                                      *)
BacklogInv ==
    \A w \in Windows :
        /\ InCallOrder(channel[w], from) /\ InCallOrder(queue[w], from)
        /\ \A s \in Range(channel[w]), t \in Range(queue[w]) : s < t
        /\ \A s \in Behind(w) : from[s] = w
        /\ \A s \in Behind(w), t \in Sent :
            s <= t /\ from[t] = w => xhr[t] = "unsent" /\ t \notin AtWorker
        /\ link[w] \in {"absent", "ready", "gone"} => queue[w] = <<>>
        /\ link[w] = "absent" => \A s \in Sent : from[s] # w

(* The worker's queue of a command: only its head has an XHR.                               *)
WorkerInv ==
    /\ \A c \in Cmds :
        /\ InCallOrder(msgQueue[c], from)
        /\ \A i \in DOMAIN msgQueue[c] :
            LET s == msgQueue[c][i] IN
            /\ msg[s].cmd = c /\ msg[s].queued
            /\ IF i = 1 THEN xhr[s] \in UnderWay ELSE xhr[s] = "unsent"
    /\ \A s \in Sent : msg[s].queued /\ xhr[s] \in UnderWay =>
        msgQueue[msg[s].cmd] # <<>> /\ s = Head(msgQueue[msg[s].cmd])

(* A send that is somewhere has not been dropped with its window. *)
Placed(s) == s \in Behind(from[s]) \/ s \in AtWorker \/ xhr[s] # "unsent"

(* Only a window that leaves drops sends, and its queue is dropped as a whole: what it has   *)
(* sent before a placed one is placed.                                                       *)
PlacedInv ==
    /\ \A s \in Sent : Alive(from[s]) => Placed(s)
    /\ \A s, t \in Sent : s < t /\ from[s] = from[t] /\ Placed(t) => Placed(s)

UnsentInv == \A s \in Sends \ Sent : xhr[s] = "unsent" /\ promise[s] = "open"

OrderInv == BacklogInv /\ WorkerInv /\ PlacedInv /\ UnsentInv /\ QueuedInOrder

-----------------------------------------------------------------------------
(* How often the server may have handled s, by the state of its XHR. *)
HandledInv ==
    \A s \in Sends :
        /\ xhr[s] = "unsent" => handled[s] = 0
        /\ xhr[s] \in {"sent", "refused"} => handled[s] <= IF s \in lastAttempt THEN 1 ELSE 0
        /\ xhr[s] = "done" => handled[s] \in 1..(IF s \in lastAttempt THEN 2 ELSE 1)

(* The counter of a window counts its callbacks.                                            *)
CountInv == \A w \in Windows : active[w] = Cardinality(callbacks[w])

(* The callbacks of a window are of its own open sends; an answer on its way is of a send   *)
(* that is over, and the only one.                                                          *)
OwnOpen(w) == callbacks[w] \subseteq {s \in Sent : from[s] = w /\ promise[s] = "open"}
Expected(w) ==
    \A i \in DOMAIN back[w] :
        LET s == back[w][i].send IN
        /\ from[s] = w /\ xhr[s] = "over" /\ s \in callbacks[w]
        /\ ~back[w][i].err => handled[s] > 0
        /\ \A j \in DOMAIN back[w] : back[w][j].send = s => j = i
HeldUntilOver(w) ==
    Alive(w) => \A s \in Sent : from[s] = w /\ xhr[s] # "over" => s \in callbacks[w]
NothingHeld(w) == ~Alive(w) => back[w] = <<>> /\ callbacks[w] = {}
CallbackInv ==
    \A w \in Windows : OwnOpen(w) /\ Expected(w) /\ HeldUntilOver(w) /\ NothingHeld(w)

(* The store keeps one message of a command.                                                *)
OneOfCommand == \A i, j \in DOMAIN store : msg[store[i]].cmd = msg[store[j]].cmd => i = j

(* What is in the store is answered, and a send that another one repeats is settled.        *)
StoreInv ==
    /\ \A s \in Range(store) : ~Waiting(s)
    /\ \A s, t \in Sent : s < t /\ copyOf[s] = copyOf[t] => ~Waiting(s) /\ s \notin Range(store)

-----------------------------------------------------------------------------
(* Sequences and their ranges *)

LEMMA TailRange ==
    ASSUME NEW S, NEW q \in Seq(S), q # <<>>
    PROVE  /\ Tail(q) \in Seq(S) /\ Head(q) \in S
           /\ Range(q) = {Head(q)} \cup Range(Tail(q))
<1>1. /\ Tail(q) \in Seq(S) /\ Head(q) \in S
      /\ Len(Tail(q)) = Len(q) - 1 /\ Len(q) \in Nat \ {0}
      /\ \A i \in 1..Len(Tail(q)) : Tail(q)[i] = q[i + 1]
  BY HeadTailProperties, EmptySeq
<1>2. DOMAIN q = 1..Len(q) /\ DOMAIN Tail(q) = 1..(Len(q) - 1) /\ Head(q) = q[1]
  BY <1>1, LenProperties
<1>3. ASSUME NEW i \in 1..Len(q)
      PROVE  q[i] \in {Head(q)} \cup Range(Tail(q))
  <2>1. CASE i = 1
    BY <1>2, <2>1
  <2>2. CASE i # 1
    <3>1. i - 1 \in 1..(Len(q) - 1) /\ q[i] = Tail(q)[i - 1]
      BY <1>1, <2>2
    <3>2. QED
      BY <3>1, <1>2 DEF Range
  <2>3. QED
    BY <2>1, <2>2
<1>4. ASSUME NEW i \in 1..(Len(q) - 1)
      PROVE  Tail(q)[i] \in Range(q)
  <2>1. i + 1 \in 1..Len(q) /\ Tail(q)[i] = q[i + 1]
    BY <1>1
  <2>2. QED
    BY <2>1, <1>2 DEF Range
<1>5. Head(q) \in Range(q)
  BY <1>1, <1>2 DEF Range
<1>6. QED
  BY <1>1, <1>2, <1>3, <1>4, <1>5 DEF Range

(* The elements of a concatenation. *)
LEMMA ConcatRange ==
    ASSUME NEW S, NEW p \in Seq(S), NEW q \in Seq(S)
    PROVE  p \o q \in Seq(S) /\ Range(p \o q) = Range(p) \cup Range(q)
<1>1. /\ p \o q \in Seq(S) /\ Len(p \o q) = Len(p) + Len(q)
      /\ \A i \in 1..(Len(p) + Len(q)) :
            (p \o q)[i] = IF i <= Len(p) THEN p[i] ELSE q[i - Len(p)]
  BY ConcatProperties
<1>2. /\ Len(p) \in Nat /\ Len(q) \in Nat
      /\ DOMAIN p = 1..Len(p) /\ DOMAIN q = 1..Len(q) /\ DOMAIN (p \o q) = 1..(Len(p) + Len(q))
  BY <1>1, LenProperties
<1>3. ASSUME NEW i \in 1..(Len(p) + Len(q))
      PROVE  (p \o q)[i] \in Range(p) \cup Range(q)
  <2>1. CASE i <= Len(p)
    BY <1>1, <1>2, <2>1 DEF Range
  <2>2. CASE ~(i <= Len(p))
    <3>1. i - Len(p) \in 1..Len(q) /\ (p \o q)[i] = q[i - Len(p)]
      BY <1>1, <1>2, <2>2
    <3>2. QED
      BY <3>1, <1>2 DEF Range
  <2>3. QED
    BY <2>1, <2>2
<1>4. ASSUME NEW i \in 1..Len(p)
      PROVE  p[i] \in Range(p \o q)
  <2>1. i \in 1..(Len(p) + Len(q)) /\ (p \o q)[i] = p[i]
    BY <1>1, <1>2
  <2>2. QED
    BY <2>1, <1>2 DEF Range
<1>5. ASSUME NEW i \in 1..Len(q)
      PROVE  q[i] \in Range(p \o q)
  <2>1. i + Len(p) \in 1..(Len(p) + Len(q)) /\ (p \o q)[i + Len(p)] = q[i]
    BY <1>1, <1>2
  <2>2. QED
    BY <2>1, <1>2 DEF Range
<1>6. QED
  BY <1>1, <1>2, <1>3, <1>4, <1>5 DEF Range

(* The elements of the empty sequence and of a sequence of one. *)
LEMMA SmallRanges == Range(<<>>) = {} /\ \A e : Range(<<e>>) = {e}
BY DEF Range

(* The rest of an ordered queue is ordered, and comes after its head. *)
LEMMA OrderedTail ==
    ASSUME NEW S \in SUBSET Nat, NEW q \in Seq(S), q # <<>>, NEW f, InCallOrder(q, f)
    PROVE  /\ InCallOrder(Tail(q), f)
           /\ \A s \in Range(Tail(q)) : f[s] = f[Head(q)] => Head(q) < s
<1>1. /\ Tail(q) \in Seq(S) /\ Len(q) \in Nat \ {0}
      /\ Len(Tail(q)) = Len(q) - 1
      /\ \A i \in 1..Len(Tail(q)) : Tail(q)[i] = q[i + 1]
  BY HeadTailProperties, EmptySeq
<1>2. DOMAIN q = 1..Len(q) /\ DOMAIN Tail(q) = 1..(Len(q) - 1) /\ Head(q) = q[1]
  BY <1>1, LenProperties
<1>3. ASSUME NEW i \in 1..(Len(q) - 1), NEW j \in 1..(Len(q) - 1),
             i < j, f[Tail(q)[i]] = f[Tail(q)[j]]
      PROVE  Tail(q)[i] < Tail(q)[j]
  <2>1. i + 1 \in DOMAIN q /\ j + 1 \in DOMAIN q /\ i + 1 < j + 1
        /\ Tail(q)[i] = q[i + 1] /\ Tail(q)[j] = q[j + 1]
    BY <1>1, <1>2, <1>3
  <2>2. QED
    BY <2>1, <1>3 DEF InCallOrder
<1>4. ASSUME NEW j \in 1..(Len(q) - 1), f[Tail(q)[j]] = f[Head(q)]
      PROVE  Head(q) < Tail(q)[j]
  <2>1. 1 \in DOMAIN q /\ j + 1 \in DOMAIN q /\ 1 < j + 1 /\ Tail(q)[j] = q[j + 1]
    BY <1>1, <1>2
  <2>2. QED
    BY <2>1, <1>2, <1>4 DEF InCallOrder
<1>5. QED
  BY <1>2, <1>3, <1>4 DEF Range, InCallOrder

(* Two ordered queues, one after the other. *)
LEMMA OrderedConcat ==
    ASSUME NEW S \in SUBSET Nat, NEW p \in Seq(S), NEW q \in Seq(S), NEW f,
           InCallOrder(p, f), InCallOrder(q, f),
           \A s \in Range(p), t \in Range(q) : f[s] = f[t] => s < t
    PROVE  InCallOrder(p \o q, f)
<1>1. /\ p \o q \in Seq(S) /\ Len(p \o q) = Len(p) + Len(q)
      /\ \A i \in 1..(Len(p) + Len(q)) :
            (p \o q)[i] = IF i <= Len(p) THEN p[i] ELSE q[i - Len(p)]
  BY ConcatProperties
<1>2. /\ Len(p) \in Nat /\ Len(q) \in Nat
      /\ DOMAIN p = 1..Len(p) /\ DOMAIN q = 1..Len(q) /\ DOMAIN (p \o q) = 1..(Len(p) + Len(q))
  BY <1>1, LenProperties
<1>3. SUFFICES ASSUME NEW i \in 1..(Len(p) + Len(q)), NEW j \in 1..(Len(p) + Len(q)), i < j,
                      f[(p \o q)[i]] = f[(p \o q)[j]]
               PROVE  (p \o q)[i] < (p \o q)[j]
  BY <1>2 DEF InCallOrder
<1>4. CASE j <= Len(p)
  <2>1. i \in DOMAIN p /\ j \in DOMAIN p /\ (p \o q)[i] = p[i] /\ (p \o q)[j] = p[j]
    BY <1>1, <1>2, <1>3, <1>4
  <2>2. QED
    BY <2>1, <1>3 DEF InCallOrder
<1>5. CASE Len(p) < i
  <2>1. /\ i - Len(p) \in DOMAIN q /\ j - Len(p) \in DOMAIN q /\ i - Len(p) < j - Len(p)
        /\ (p \o q)[i] = q[i - Len(p)] /\ (p \o q)[j] = q[j - Len(p)]
    BY <1>1, <1>2, <1>3, <1>5
  <2>2. QED
    BY <2>1, <1>3 DEF InCallOrder
<1>6. CASE i <= Len(p) /\ Len(p) < j
  <2>1. /\ i \in DOMAIN p /\ j - Len(p) \in DOMAIN q
        /\ (p \o q)[i] = p[i] /\ (p \o q)[j] = q[j - Len(p)]
    BY <1>1, <1>2, <1>3, <1>6
  <2>2. (p \o q)[i] \in Range(p) /\ (p \o q)[j] \in Range(q)
    BY <2>1 DEF Range
  <2>3. QED
    BY <2>2, <1>3
<1>7. QED
  BY <1>2, <1>4, <1>5, <1>6

(* A sequence, its domain and its elements. *)
LEMMA Elements ==
    ASSUME NEW S, NEW q \in Seq(S)
    PROVE  /\ Len(q) \in Nat /\ DOMAIN q = 1..Len(q) /\ (q = <<>> <=> Len(q) = 0)
           /\ \A i \in DOMAIN q : q[i] \in S /\ q[i] \in Range(q)
           /\ Range(q) \subseteq S
BY LenProperties, ElementOfSeq, EmptySeq DEF Range

(* An element appended to a sequence. *)
LEMMA AppendFacts ==
    ASSUME NEW S, NEW q \in Seq(S), NEW e \in S
    PROVE  /\ Append(q, e) \in Seq(S) /\ Append(q, e) # <<>>
           /\ DOMAIN Append(q, e) = 1..(Len(q) + 1)
           /\ \A i \in 1..Len(q) : Append(q, e)[i] = q[i]
           /\ Append(q, e)[Len(q) + 1] = e
           /\ Head(Append(q, e)) = IF q = <<>> THEN e ELSE Head(q)
           /\ Range(Append(q, e)) = Range(q) \cup {e}
<1>1. /\ Append(q, e) \in Seq(S) /\ Append(q, e) # <<>> /\ Len(Append(q, e)) = Len(q) + 1
      /\ \A i \in 1..Len(q) : Append(q, e)[i] = q[i]
      /\ Append(q, e)[Len(q) + 1] = e
  BY AppendProperties
<1>2. DOMAIN Append(q, e) = 1..(Len(q) + 1)
  BY <1>1, LenProperties
<1>3. Head(Append(q, e)) = IF q = <<>> THEN e ELSE Head(q)
  BY HeadTailAppend
<1>4. Range(Append(q, e)) = Range(q) \cup {e}
  <2>1. Append(q, e) = q \o <<e>> /\ <<e>> \in Seq(S)
    BY AppendIsConcat
  <2>2. Range(<<e>>) = {e}
    BY SmallRanges
  <2>3. Range(q \o <<e>>) = Range(q) \cup Range(<<e>>)
    <3> DEFINE one == <<e>>
    <3>1. one \in Seq(S)
      BY <2>1
    <3> HIDE DEF one
    <3>2. Range(q \o one) = Range(q) \cup Range(one)
      BY <3>1, ConcatRange
    <3>3. QED
      BY <3>2 DEF one
  <2>4. QED
    BY <2>1, <2>2, <2>3
<1>5. QED
  BY <1>1, <1>2, <1>3, <1>4

(* A later send appended to an ordered queue. *)
LEMMA OrderedAppend ==
    ASSUME NEW S \in SUBSET Nat, NEW q \in Seq(S), NEW e \in S, NEW f, InCallOrder(q, f),
           \A s \in Range(q) : f[s] = f[e] => s < e
    PROVE  InCallOrder(Append(q, e), f)
<1>1. Append(q, e) = q \o <<e>> /\ <<e>> \in Seq(S)
  BY AppendIsConcat
<1>2. InCallOrder(<<e>>, f) /\ Range(<<e>>) = {e}
  BY SmallRanges DEF InCallOrder
<1>3. QED
  BY <1>1, <1>2, OrderedConcat

(* Order depends on the sender of each send only. *)
LEMMA OrderKept ==
    ASSUME NEW S, NEW q \in Seq(S), NEW f, NEW g, \A s \in S : f[s] = g[s], InCallOrder(q, f)
    PROVE  InCallOrder(q, g)
<1>1. \A i \in DOMAIN q : q[i] \in S
  BY LenProperties, ElementOfSeq
<1>2. QED
  BY <1>1 DEF InCallOrder

(* A function on 1..n is a sequence of length n. *)
LEMMA FunctionSeq ==
    ASSUME NEW S, NEW n \in Nat, NEW f \in [1..n -> S]
    PROVE  f \in Seq(S) /\ Len(f) = n
<1>1. f \in Seq(S)
  BY SeqDef
<1>2. Len(f) \in Nat /\ DOMAIN f = 1..Len(f) /\ DOMAIN f = 1..n
  BY <1>1, LenProperties
<1>3. QED
  BY <1>1, <1>2

-----------------------------------------------------------------------------
(* Messages and sends *)

LEMMA MessageFacts ==
    ASSUME NEW m \in Messages
    PROVE  /\ m.cmd \in Cmds /\ m.queued \in BOOLEAN /\ m.noResend \in BOOLEAN
           /\ m.mayReject \in BOOLEAN
BY ShapesAssumption DEF Messages, Cmds

(* The sends made so far and what is recorded of them. *)
LEMMA SentFacts ==
    ASSUME TypeOK
    PROVE  /\ Len(msg) \in Nat /\ Sent = 1..Len(msg) /\ Sent \subseteq Sends
           /\ \A s \in Sent : msg[s] \in Messages
           /\ from \in Seq(Windows) /\ Len(from) = Len(msg)
           /\ copyOf \in Seq(Sent) /\ Len(copyOf) = Len(msg)
<1>1. /\ Len(msg) \in Nat /\ Len(msg) <= MaxSends /\ MaxSends \in Nat /\ Sent = 1..Len(msg)
      /\ \A s \in Sent : msg[s] \in Messages
  BY BoundsAssumption, LenProperties, ElementOfSeq DEF TypeOK, Sent
<1>2. from \in [1..Len(msg) -> Windows] /\ copyOf \in [1..Len(msg) -> Sent]
  BY <1>1 DEF TypeOK
<1>3. from \in Seq(Windows) /\ Len(from) = Len(msg)
  BY <1>1, <1>2, FunctionSeq
<1>4. copyOf \in Seq(Sent) /\ Len(copyOf) = Len(msg)
  BY <1>1, <1>2, FunctionSeq
<1>5. QED
  BY <1>1, <1>3, <1>4 DEF Sends

(* What asyncServiceMsg and batchUpdate have in common: window w sends the messages ms.     *)
Numbers(ms) == [i \in DOMAIN ms |-> Len(msg) + i]
Sending(w, ms, cs) ==
    /\ msg' = msg \o ms
    /\ from' = from \o [i \in DOMAIN ms |-> w]
    /\ copyOf' = copyOf \o cs
    /\ Post(w, Numbers(ms))

(* The messages and copies that a window can send. *)
Sendable(ms, cs) ==
    /\ ms \in Seq(Messages) /\ Len(msg) + Len(ms) <= MaxSends
    /\ Len(cs) = Len(ms) /\ cs \in Seq(1..(Len(msg) + Len(ms)))

(* New sends come after the earlier ones, and are sent by one window. *)
LEMMA NewSends ==
    ASSUME TypeOK, NEW w \in Windows, NEW ms, NEW cs, Sendable(ms, cs), Sending(w, ms, cs)
    PROVE  /\ Len(ms) \in Nat /\ Sent' = 1..(Len(msg) + Len(ms)) /\ Sent \subseteq Sent'
           /\ Sent' \subseteq Sends
           /\ msg' \in Seq(Messages) /\ Len(msg') <= MaxSends
           /\ from' \in [Sent' -> Windows] /\ copyOf' \in [Sent' -> Sent']
           /\ Numbers(ms) \in Seq(Sent') /\ Len(Numbers(ms)) = Len(ms)
           /\ Range(Numbers(ms)) = (Len(msg) + 1)..(Len(msg) + Len(ms))
           /\ \A f : InCallOrder(Numbers(ms), f)
           /\ \A s \in Sent : msg'[s] = msg[s] /\ from'[s] = from[s] /\ copyOf'[s] = copyOf[s]
           /\ \A s \in Sent' \ Sent : from'[s] = w /\ copyOf'[s] = cs[s - Len(msg)]
                                     /\ msg'[s] = ms[s - Len(msg)]
<1> DEFINE n == Len(msg)
           k == Len(ms)
           ws == [i \in DOMAIN ms |-> w]
<1>1. /\ n \in Nat /\ Sent = 1..n /\ msg \in Seq(Messages)
      /\ from \in Seq(Windows) /\ Len(from) = n
      /\ copyOf \in Seq(Sent) /\ Len(copyOf) = n
  BY SentFacts DEF TypeOK
<1>2. /\ k \in Nat /\ DOMAIN ms = 1..k /\ ms \in Seq(Messages) /\ n + k <= MaxSends
      /\ cs \in Seq(1..(n + k)) /\ Len(cs) = k
  BY LenProperties DEF Sendable
<1>3. ws \in Seq(Windows) /\ Len(ws) = k
  <2>1. ws \in [1..k -> Windows]
    BY <1>2
  <2>2. QED
    BY <2>1, <1>2, FunctionSeq
<1>4. /\ msg' = msg \o ms /\ from' = from \o ws /\ copyOf' = copyOf \o cs
  BY DEF Sending
<1> HIDE DEF ws
<1>5. /\ msg' \in Seq(Messages) /\ Len(msg') = n + k
      /\ \A i \in 1..(n + k) : msg'[i] = IF i <= n THEN msg[i] ELSE ms[i - n]
  BY <1>1, <1>2, <1>4, ConcatProperties
<1>6. /\ from' \in Seq(Windows) /\ Len(from') = n + k
      /\ \A i \in 1..(n + k) : from'[i] = IF i <= n THEN from[i] ELSE ws[i - n]
  <2>1. /\ from \o ws \in Seq(Windows) /\ Len(from \o ws) = Len(from) + Len(ws)
        /\ \A i \in 1..(Len(from) + Len(ws)) :
                (from \o ws)[i] = IF i <= Len(from) THEN from[i] ELSE ws[i - Len(from)]
    BY <1>1, <1>3, ConcatProperties
  <2>2. QED
    BY <2>1, <1>1, <1>3, <1>4
<1>7. /\ copyOf' \in Seq(1..(n + k)) /\ Len(copyOf') = n + k
      /\ \A i \in 1..(n + k) : copyOf'[i] = IF i <= n THEN copyOf[i] ELSE cs[i - n]
  <2>1. copyOf \in Seq(1..(n + k))
    <3>1. Sent \subseteq 1..(n + k)
      BY <1>1, <1>2
    <3>2. QED
      BY <1>1, <3>1, SeqMonotonic
  <2>2. /\ copyOf \o cs \in Seq(1..(n + k)) /\ Len(copyOf \o cs) = Len(copyOf) + Len(cs)
        /\ \A i \in 1..(Len(copyOf) + Len(cs)) :
                (copyOf \o cs)[i] = IF i <= Len(copyOf) THEN copyOf[i] ELSE cs[i - Len(copyOf)]
    BY <2>1, <1>2, ConcatProperties
  <2>3. QED
    BY <2>2, <1>1, <1>2, <1>4
<1>8. Sent' = 1..(n + k) /\ Sent \subseteq Sent' /\ Sent' \subseteq Sends
  <2>1. DOMAIN msg' = 1..(n + k)
    BY <1>5, LenProperties
  <2>2. QED
    BY <2>1, <1>1, <1>2, BoundsAssumption DEF Sent, Sends
<1>9. from' \in [Sent' -> Windows] /\ copyOf' \in [Sent' -> Sent']
  BY <1>6, <1>7, <1>8, LenProperties
<1>10. /\ Numbers(ms) \in Seq(Sent') /\ Len(Numbers(ms)) = k
       /\ DOMAIN Numbers(ms) = 1..k /\ \A i \in 1..k : Numbers(ms)[i] = n + i
  <2>1. /\ DOMAIN Numbers(ms) = 1..k /\ \A i \in 1..k : Numbers(ms)[i] = n + i
        /\ Numbers(ms) \in [1..k -> 1..(n + k)]
    BY <1>1, <1>2 DEF Numbers
  <2>2. Numbers(ms) \in [1..k -> Sent']
    BY <2>1, <1>8
  <2>3. Numbers(ms) \in Seq(Sent') /\ Len(Numbers(ms)) = k
    BY <2>2, <1>2, FunctionSeq
  <2>4. QED
    BY <2>1, <2>3
<1>11. Range(Numbers(ms)) = (n + 1)..(n + k)
  <2>1. \A s \in (n + 1)..(n + k) : s - n \in 1..k /\ s = Numbers(ms)[s - n]
    BY <1>1, <1>2, <1>10
  <2>2. \A i \in 1..k : Numbers(ms)[i] \in (n + 1)..(n + k)
    BY <1>1, <1>2, <1>10
  <2>3. QED
    BY <2>1, <2>2, <1>10 DEF Range
<1>12. \A f : InCallOrder(Numbers(ms), f)
  BY <1>1, <1>2, <1>10 DEF InCallOrder
<1>13. \A s \in Sent : msg'[s] = msg[s] /\ from'[s] = from[s] /\ copyOf'[s] = copyOf[s]
  <2>1. \A s \in Sent : s \in 1..(n + k) /\ s <= n
    BY <1>1, <1>2
  <2>2. QED
    BY <2>1, <1>5, <1>6, <1>7
<1>14. \A s \in Sent' \ Sent : /\ from'[s] = w /\ copyOf'[s] = cs[s - n]
                             /\ msg'[s] = ms[s - n]
  <2>1. \A s \in Sent' \ Sent : s \in 1..(n + k) /\ ~(s <= n) /\ s - n \in 1..k
    BY <1>1, <1>2, <1>8
  <2>2. \A i \in 1..k : ws[i] = w
    BY <1>2 DEF ws
  <2>3. QED
    BY <2>1, <2>2, <1>5, <1>6, <1>7
<1>15. Len(msg') <= MaxSends
  BY <1>2, <1>5
<1>16. QED
  BY <1>2, <1>5, <1>8, <1>9, <1>10, <1>11, <1>12, <1>13, <1>14, <1>15

-----------------------------------------------------------------------------
(* Sends pass their places in order *)

XhrStates == {"unsent", "sent", "done", "refused", "over"}

(* A step that gives one XHR under way another state.                                       *)
LEMMA UnderWayStep ==
    ASSUME TypeOK, OrderInv,
           UNCHANGED <<link, sendVars, queue, channel, msgQueue>>,
           NEW s \in Sent, xhr[s] \in UnderWay, xhr'[s] \in UnderWay,
           \A t \in Sends \ {s} : xhr'[t] = xhr[t],
           \A t \in Sends \ Sent : promise'[t] = promise[t]
    PROVE  OrderInv'
<1>1. Sent' = Sent /\ Sent \subseteq Sends /\ AtWorker' = AtWorker /\ \A w : Behind(w)' = Behind(w)
  BY SentFacts DEF Sent, sendVars, AtWorker, Behind
<1>2. \A t \in Sent : /\ xhr'[t] = "unsent" <=> xhr[t] = "unsent"
                      /\ xhr'[t] \in UnderWay <=> xhr[t] \in UnderWay
                      /\ xhr'[t] = "over" <=> xhr[t] = "over"
  BY <1>1 DEF UnderWay
<1>3. BacklogInv'
  BY <1>1, <1>2 DEF BacklogInv, OrderInv, sendVars
<1>4. WorkerInv'
  <2>1. \A c \in Cmds : \A i \in DOMAIN msgQueue[c] : msgQueue[c][i] \in Sent
    BY ElementOfSeq, LenProperties DEF TypeOK
  <2>2. QED
    BY <1>1, <1>2, <2>1 DEF WorkerInv, OrderInv, sendVars
<1>5. PlacedInv'
  <2>1. \A t \in Sent : (Placed(t)' <=> Placed(t)) /\ (Alive(from[t])' <=> Alive(from[t]))
    BY <1>1, <1>2 DEF Placed, Alive, sendVars
  <2>2. QED
    BY <1>1, <2>1 DEF PlacedInv, OrderInv, sendVars
<1>6. UnsentInv'
  BY <1>1 DEF UnsentInv, OrderInv
<1>7. QueuedInOrder'
  BY <1>1, <1>2 DEF QueuedInOrder, OrderInv, sendVars
<1>8. QED
  BY <1>3, <1>4, <1>5, <1>6, <1>7 DEF OrderInv

(* A step of the ports, or one that only the page notices. *)
LEMMA ElsewhereStep ==
    ASSUME TypeOK, OrderInv,
           UNCHANGED <<sendVars, queue, channel, msgQueue, xhr>>,
           \A w \in Windows : \/ link'[w] = link[w]
                              \/ link[w] = "absent" /\ link'[w] = "asking"
                              \/ link[w] = "asking" /\ link'[w] = "granted",
           \A t \in Sends \ Sent : promise'[t] = promise[t]
    PROVE  OrderInv'
<1>1. Sent' = Sent /\ AtWorker' = AtWorker /\ \A w : Behind(w)' = Behind(w)
  BY DEF Sent, sendVars, AtWorker, Behind
<1>2. BacklogInv'
  BY <1>1 DEF BacklogInv, OrderInv, sendVars
<1>3. WorkerInv' /\ QueuedInOrder'
  BY <1>1 DEF WorkerInv, QueuedInOrder, OrderInv, sendVars
<1>4. PlacedInv'
  <2>1. \A s \in Sent : from[s] \in Windows
    BY DEF TypeOK
  <2>2. \A s \in Sent : /\ Placed(s)' <=> Placed(s)
                        /\ Alive(from[s])' => Alive(from[s]) \/ link[from[s]] = "absent"
    BY <1>1, <2>1 DEF Placed, Alive, sendVars
  <2>3. \A s \in Sent : link[from[s]] # "absent"
    BY <2>1 DEF OrderInv, BacklogInv
  <2>4. QED
    BY <1>1, <2>2, <2>3 DEF PlacedInv, OrderInv, sendVars
<1>5. UnsentInv'
  BY <1>1 DEF UnsentInv, OrderInv
<1>6. QED
  BY <1>2, <1>3, <1>4, <1>5 DEF OrderInv

(* A window that becomes ready posts its queue behind what it has posted.                   *)
LEMMA ReadyStep ==
    ASSUME TypeOK, OrderInv, NEW w \in Windows, BecomeReady(w), link[w] \in {"starting", "granted"}
    PROVE  OrderInv'
<1>1. /\ UNCHANGED <<sendVars, msgQueue, xhr, promise>>
      /\ link' = [link EXCEPT ![w] = "ready"]
      /\ channel' = [channel EXCEPT ![w] = @ \o queue[w]]
      /\ queue' = [queue EXCEPT ![w] = <<>>]
  BY DEF BecomeReady, ProcessQueue, workerVars, pageVars
<1>2. Sent' = Sent /\ AtWorker' = AtWorker /\ Sent \subseteq Nat
  BY <1>1, SentFacts DEF Sent, sendVars, AtWorker
<1>3. /\ channel[w] \in Seq(Sent) /\ queue[w] \in Seq(Sent)
      /\ channel'[w] = channel[w] \o queue[w] /\ queue'[w] = <<>>
      /\ \A v \in Windows \ {w} : channel'[v] = channel[v] /\ queue'[v] = queue[v]
  BY <1>1 DEF TypeOK
<1>4. Range(channel'[w]) = Behind(w) /\ Range(queue'[w]) = {}
  BY <1>3, ConcatRange, SmallRanges DEF Behind
<1>5. \A v \in Windows : Behind(v)' = Behind(v)
  BY <1>3, <1>4 DEF Behind
<1>6. InCallOrder(channel'[w], from)
  BY <1>2, <1>3, OrderedConcat DEF OrderInv, BacklogInv
<1>7. InCallOrder(queue'[w], from)
  BY <1>3 DEF InCallOrder
<1>8. \A v \in Windows : link'[v] = IF v = w THEN "ready" ELSE link[v]
  BY <1>1 DEF TypeOK
<1>9. BacklogInv'
  BY <1>1, <1>2, <1>3, <1>4, <1>5, <1>6, <1>7, <1>8 DEF BacklogInv, OrderInv, sendVars
<1>10. WorkerInv' /\ QueuedInOrder' /\ UnsentInv'
  BY <1>1, <1>2 DEF WorkerInv, QueuedInOrder, UnsentInv, OrderInv, sendVars
<1>11. PlacedInv'
  <2>1. \A s \in Sent : from[s] \in Windows
    BY DEF TypeOK
  <2>2. \A s \in Sent : (Placed(s)' <=> Placed(s)) /\ (Alive(from[s])' => Alive(from[s]))
    BY <1>1, <1>2, <1>5, <1>8, <2>1 DEF Placed, Alive, sendVars
  <2>3. QED
    BY <1>1, <1>2, <2>2 DEF PlacedInv, OrderInv, sendVars
<1>12. QED
  BY <1>9, <1>10, <1>11 DEF OrderInv

(* A window that goes away keeps the queues ordered. *)
LEMMA LeaveStep ==
    ASSUME TypeOK, OrderInv, NEW w \in Windows, IframeLeaves(w)
    PROVE  OrderInv'
<1>1. /\ UNCHANGED <<sendVars, channel, msgQueue, xhr, promise>>
      /\ link' = [link EXCEPT ![w] = "gone"] /\ queue' = [queue EXCEPT ![w] = <<>>]
      /\ Alive(w)
  BY DEF IframeLeaves, workerVars
<1>2. Sent' = Sent /\ AtWorker' = AtWorker /\ Sent \subseteq Nat
  BY <1>1, SentFacts DEF Sent, sendVars, AtWorker
<1>3. /\ \A v \in Windows : queue'[v] = IF v = w THEN <<>> ELSE queue[v]
      /\ \A v \in Windows : link'[v] = IF v = w THEN "gone" ELSE link[v]
  BY <1>1 DEF TypeOK
<1>4. \A v \in Windows : Behind(v)' = IF v = w THEN Range(channel[w]) ELSE Behind(v)
  BY <1>1, <1>3, SmallRanges DEF Behind
<1>5. BacklogInv'
  <2>1. InCallOrder(<<>>, from)
    BY DEF InCallOrder
  <2>2. \A v \in Windows : Behind(v)' \subseteq Behind(v)
    BY <1>4 DEF Behind
  <2>3. QED
    BY <1>1, <1>2, <1>3, <2>1, <2>2, SmallRanges DEF BacklogInv, OrderInv, sendVars
<1>6. WorkerInv' /\ QueuedInOrder' /\ UnsentInv'
  <2>1. UNCHANGED <<msg, from, msgQueue, xhr, promise>> /\ Sent' = Sent
    BY <1>1, <1>2 DEF sendVars
  <2>2. WorkerInv'
    BY <2>1 DEF OrderInv, WorkerInv, InCallOrder
  <2>3. QueuedInOrder'
    BY <2>1 DEF OrderInv, QueuedInOrder
  <2>4. UnsentInv'
    BY <2>1 DEF OrderInv, UnsentInv
  <2>5. QED
    BY <2>2, <2>3, <2>4
<1>7. \A s \in Sent : /\ from[s] \in Windows
                      /\ Placed(s)' => Placed(s)
                      /\ Placed(s) /\ ~Placed(s)' => from[s] = w /\ s \in Range(queue[w])
  BY <1>1, <1>2, <1>4 DEF Placed, TypeOK, sendVars, Behind
<1>8. ASSUME NEW s \in Sent, NEW t \in Sent, s < t, from[s] = from[t], Placed(t)'
      PROVE  Placed(s)'
  <2>1. SUFFICES ASSUME ~Placed(s)'
                 PROVE  FALSE
    OBVIOUS
  <2>2. s \in Range(queue[w]) /\ from[t] = w
    BY <2>1, <1>7, <1>8 DEF OrderInv, PlacedInv
  <2>3. xhr[t] = "unsent" /\ t \notin AtWorker /\ ~(t < s) /\ s \in Nat /\ t \in Nat
    BY <2>2, <1>2, <1>8 DEF OrderInv, BacklogInv, Behind
  <2>4. t \in Range(channel[w])
    BY <2>2, <2>3, <1>1, <1>2, <1>4, <1>8 DEF Placed, sendVars
  <2>5. QED
    BY <2>2, <2>3, <2>4 DEF OrderInv, BacklogInv
<1>9. PlacedInv'
  <2>1. \A s \in Sent : Alive(from[s])' => Alive(from[s]) /\ from[s] # w
    BY <1>1, <1>3, <1>7 DEF Alive, sendVars
  <2>2. QED
    BY <2>1, <1>1, <1>2, <1>7, <1>8 DEF PlacedInv, OrderInv, sendVars
<1>10. QED
  BY <1>5, <1>6, <1>9 DEF OrderInv

(* New sends keep the queues ordered. *)
LEMMA SendStep ==
    ASSUME TypeOK, OrderInv, NEW w \in Windows, NEW ms, NEW cs, Alive(w),
           Sendable(ms, cs), Sending(w, ms, cs)
    PROVE  OrderInv'
<1> DEFINE ids == Numbers(ms)
           New == Sent' \ Sent
<1>1. /\ UNCHANGED <<link, msgQueue, xhr, promise>>
      /\ IF link[w] = "ready"
         THEN channel' = [channel EXCEPT ![w] = @ \o ids] /\ UNCHANGED queue
         ELSE queue' = [queue EXCEPT ![w] = @ \o ids] /\ UNCHANGED channel
  BY DEF Sending, Post, windowVars, workerVars
<1>2. /\ Len(msg) \in Nat /\ Sent = 1..Len(msg) /\ Len(ms) \in Nat
      /\ Sent' = 1..(Len(msg) + Len(ms)) /\ Sent \subseteq Sent' /\ Sent' \subseteq Sends
      /\ ids \in Seq(Sent') /\ Range(ids) = (Len(msg) + 1)..(Len(msg) + Len(ms))
      /\ \A f : InCallOrder(ids, f)
      /\ \A s \in Sent : msg'[s] = msg[s] /\ from'[s] = from[s]
      /\ \A s \in New : from'[s] = w
  BY SentFacts, NewSends
<1>3. Range(ids) = New /\ \A s \in Sent, t \in New : s < t
  BY <1>2
<1> HIDE DEF ids, New
<1>4. \A v \in Windows : /\ channel[v] \in Seq(Sent) /\ queue[v] \in Seq(Sent)
                         /\ channel[v] \in Seq(Sent') /\ queue[v] \in Seq(Sent')
  BY <1>2, SeqMonotonic DEF TypeOK
<1>5. \A v \in Windows : Range(channel[v]) \subseteq Sent /\ Range(queue[v]) \subseteq Sent
  BY <1>4, LenProperties, ElementOfSeq DEF Range
<1>6. /\ \A v \in Windows \ {w} : channel'[v] = channel[v] /\ queue'[v] = queue[v]
      /\ \/ link[w] = "ready" /\ channel'[w] = channel[w] \o ids /\ queue'[w] = queue[w]
         \/ link[w] # "ready" /\ channel'[w] = channel[w] /\ queue'[w] = queue[w] \o ids
  BY <1>1 DEF TypeOK
<1>7. /\ \A v \in Windows \ {w} : Behind(v)' = Behind(v)
      /\ Behind(w)' = Behind(w) \cup New
  <2>1. /\ Range(channel[w] \o ids) = Range(channel[w]) \cup New
        /\ Range(queue[w] \o ids) = Range(queue[w]) \cup New
    BY <1>2, <1>3, <1>4, ConcatRange
  <2>2. QED
    BY <1>6, <2>1 DEF Behind
<1>8. AtWorker' = AtWorker /\ AtWorker \subseteq Sent
  <2>1. \A c \in Cmds : Range(msgQueue[c]) \subseteq Sent
    BY LenProperties, ElementOfSeq DEF TypeOK, Range
  <2>2. QED
    BY <1>1, <2>1 DEF AtWorker
<1>9. \A s \in New : xhr[s] = "unsent" /\ s \notin AtWorker /\ s \notin Sent /\ s \in Sends
  BY <1>2, <1>8 DEF New, OrderInv, UnsentInv
<1>10. \A v \in Windows : InCallOrder(channel[v], from') /\ InCallOrder(queue[v], from')
  <2>1. SUFFICES ASSUME NEW v \in Windows
                 PROVE  InCallOrder(channel[v], from') /\ InCallOrder(queue[v], from')
    OBVIOUS
  <2>2. InCallOrder(channel[v], from) /\ InCallOrder(queue[v], from)
    BY DEF OrderInv, BacklogInv
  <2>3. \A s \in Sent : from[s] = from'[s]
    BY <1>2
  <2>4. QED
    BY <1>4, <2>2, <2>3, OrderKept
<1>11. \A v \in Windows : InCallOrder(channel'[v], from') /\ InCallOrder(queue'[v], from')
  <2>1. Sent' \in SUBSET Nat
    BY <1>2
  <2>2. InCallOrder(channel[w] \o ids, from')
    BY <2>1, <1>2, <1>3, <1>4, <1>5, <1>10, OrderedConcat
  <2>3. InCallOrder(queue[w] \o ids, from')
    BY <2>1, <1>2, <1>3, <1>4, <1>5, <1>10, OrderedConcat
  <2>4. QED
    BY <1>6, <1>10, <2>2, <2>3
<1>12. ASSUME NEW v \in Windows
       PROVE  /\ \A s \in Range(channel'[v]), t \in Range(queue'[v]) : s < t
              /\ \A s \in Behind(v)' : from'[s] = v
              /\ link'[v] \in {"absent", "ready", "gone"} => queue'[v] = <<>>
              /\ link'[v] = "absent" => \A s \in Sent' : from'[s] # v
  <2>1. Range(queue[w]) = {} \/ link[w] # "ready"
    BY SmallRanges DEF OrderInv, BacklogInv
  <2>2. \A s \in Range(channel'[v]), t \in Range(queue'[v]) : s < t
    <3>1. \A u \in Windows, s \in Sent, t \in Sent :
            s \in Range(channel[u]) /\ t \in Range(queue[u]) => s < t
      BY DEF OrderInv, BacklogInv
    <3>2. /\ Range(channel[w] \o ids) = Range(channel[w]) \cup New
          /\ Range(queue[w] \o ids) = Range(queue[w]) \cup New
      BY <1>2, <1>3, <1>4, ConcatRange
    <3>3. QED
      BY <2>1, <3>1, <3>2, <1>3, <1>5, <1>6
  <2>3. \A s \in Behind(v)' : from'[s] = v
    <3>1. \A u \in Windows : \A s \in Behind(u) : s \in Sent /\ from[s] = u
      BY <1>5 DEF Behind, OrderInv, BacklogInv
    <3>2. QED
      BY <3>1, <1>2, <1>7
  <2>4. link'[v] \in {"absent", "ready", "gone"} => queue'[v] = <<>>
    BY <1>1, <1>6 DEF Alive, OrderInv, BacklogInv
  <2>5. link'[v] = "absent" => \A s \in Sent' : from'[s] # v
    BY <1>1, <1>2 DEF New, Alive, OrderInv, BacklogInv
  <2>6. QED
    BY <2>2, <2>3, <2>4, <2>5
<1>13. ASSUME NEW v \in Windows, NEW s \in Behind(v)', NEW t \in Sent', s <= t, from'[t] = v
       PROVE  xhr'[t] = "unsent" /\ t \notin AtWorker'
  <2>1. CASE t \in New
    BY <2>1, <1>1, <1>8, <1>9
  <2>2. CASE t \notin New
    <3>1. t \in Sent /\ s \in Behind(v)
      <4>1. t \in Sent
        BY <2>2 DEF New
      <4>2. s \notin New
        BY <4>1, <1>2, <1>3, <1>13 DEF New
      <4>3. QED
        BY <4>1, <4>2, <1>7, <1>13
    <3>2. QED
      BY <3>1, <1>1, <1>2, <1>8, <1>13 DEF OrderInv, BacklogInv
  <2>3. QED
    BY <2>1, <2>2
<1>14. BacklogInv'
  BY <1>11, <1>12, <1>13 DEF BacklogInv
<1>15. WorkerInv'
  <2>1. \A c \in Cmds : \A i \in DOMAIN msgQueue[c] : msgQueue[c][i] \in Sent
    BY ElementOfSeq, LenProperties DEF TypeOK
  <2>2. ASSUME NEW c \in Cmds
        PROVE  InCallOrder(msgQueue[c], from')
    <3>1. msgQueue[c] \in Seq(Sent) /\ InCallOrder(msgQueue[c], from)
      BY DEF TypeOK, OrderInv, WorkerInv
    <3>2. \A s \in Sent : from[s] = from'[s]
      BY <1>2
    <3>3. QED
      BY <3>1, <3>2, OrderKept
  <2>3. \A s \in Sent' : xhr[s] \in UnderWay => s \in Sent
    BY <1>9 DEF New, UnderWay
  <2>4. ASSUME NEW c \in Cmds, NEW i \in DOMAIN msgQueue[c]
        PROVE  LET s == msgQueue[c][i] IN
               /\ msg'[s].cmd = c /\ msg'[s].queued
               /\ IF i = 1 THEN xhr'[s] \in UnderWay ELSE xhr'[s] = "unsent"
    BY <2>1, <1>1, <1>2 DEF WorkerInv, OrderInv
  <2>5. ASSUME NEW s \in Sent', msg'[s].queued, xhr'[s] \in UnderWay
        PROVE  msgQueue[msg'[s].cmd] # <<>> /\ s = Head(msgQueue[msg'[s].cmd])
    <3>1. s \in Sent /\ msg'[s] = msg[s] /\ xhr'[s] = xhr[s]
      BY <2>3, <2>5, <1>1, <1>2
    <3>2. QED
      BY <3>1, <2>5 DEF WorkerInv, OrderInv
  <2>6. QED
    BY <2>2, <2>4, <2>5, <1>1 DEF WorkerInv
<1>16. PlacedInv'
  <2>1. \A s \in New : Placed(s)' /\ from'[s] = w
    BY <1>2, <1>7 DEF Placed
  <2>2. \A s \in Sent : Placed(s)' <=> Placed(s)
    <3>1. ASSUME NEW s \in Sent
          PROVE  Placed(s)' <=> Placed(s)
      <4>1. from[s] \in Windows /\ from'[s] = from[s] /\ s \notin New
        BY <1>2 DEF TypeOK, New
      <4>2. s \in Behind(from[s])' <=> s \in Behind(from[s])
        BY <4>1, <1>7
      <4>3. QED
        BY <4>1, <4>2, <1>1, <1>8 DEF Placed
    <3>2. QED
      BY <3>1
  <2>3. \A s \in Sent : from[s] = w => Placed(s)
    BY DEF OrderInv, PlacedInv
  <2>4. \A s \in Sent' : s \in Sent \/ s \in New
    BY DEF New
  <2>5. \A s \in Sent' : Alive(from[s])' => Placed(s)'
    <3>1. \A s \in Sent : Alive(from[s])' <=> Alive(from[s])
      BY <1>1, <1>2 DEF Alive
    <3>2. QED
      BY <3>1, <2>1, <2>2, <2>4 DEF OrderInv, PlacedInv
  <2>6. \A s, t \in Sent' : s < t /\ from'[s] = from'[t] /\ Placed(t)' => Placed(s)'
    <3>1. \A s \in New, t \in Sent : ~(s < t)
      BY <1>2, <1>3 DEF New
    <3>2. QED
      BY <3>1, <2>1, <2>2, <2>3, <2>4, <1>2 DEF OrderInv, PlacedInv
  <2>7. QED
    BY <2>5, <2>6 DEF PlacedInv
<1>17. UnsentInv'
  BY <1>1, <1>2 DEF UnsentInv, OrderInv
<1>18. QueuedInOrder'
  <2>1. SUFFICES ASSUME NEW s \in Sent', NEW t \in Sent', s < t, from'[s] = from'[t],
                        msg'[s].cmd = msg'[t].cmd, msg'[s].queued, msg'[t].queued,
                        xhr'[t] # "unsent"
                 PROVE  xhr'[s] = "over"
    BY DEF QueuedInOrder
  <2>2. t \in Sent
    BY <2>1, <1>1, <1>9 DEF New
  <2>3. s \in Sent
    BY <2>1, <2>2, <1>2
  <2>4. QED
    BY <2>1, <2>2, <2>3, <1>1, <1>2 DEF OrderInv, QueuedInOrder
<1>19. QED
  BY <1>14, <1>15, <1>16, <1>17, <1>18 DEF OrderInv

(* The worker takes the first message of a window.                                          *)
LEMMA ReceiveStep ==
    ASSUME TypeOK, OrderInv, NEW w \in Windows, WorkerReceives(w)
    PROVE  OrderInv'
<1> DEFINE h == Head(channel[w])
           c == msg[h].cmd
           sentAtOnce == ~msg[h].queued \/ msgQueue[c] = <<>>
<1>1. /\ UNCHANGED <<link, sendVars, queue, promise>>
      /\ channel[w] # <<>> /\ channel' = [channel EXCEPT ![w] = Tail(@)]
      /\ msgQueue' = IF msg[h].queued THEN [msgQueue EXCEPT ![c] = Append(@, h)] ELSE msgQueue
      /\ xhr' = IF sentAtOnce THEN [xhr EXCEPT ![h] = "sent"] ELSE xhr
  BY DEF WorkerReceives, AloneInQueue, windowVars, pageVars
<1>2. /\ Sent' = Sent /\ Sent \subseteq Nat /\ Sent \subseteq Sends
      /\ \A s \in Sent : from[s] \in Windows /\ msg[s].cmd \in Cmds
  <2>1. Sent' = Sent /\ \A s \in Sent : from[s] \in Windows
    BY <1>1 DEF Sent, sendVars, TypeOK
  <2>2. Sent \subseteq Nat /\ Sent \subseteq Sends /\ \A s \in Sent : msg[s] \in Messages
    BY SentFacts
  <2>3. QED
    BY <2>1, <2>2, MessageFacts
<1>3. /\ channel[w] \in Seq(Sent) /\ Tail(channel[w]) \in Seq(Sent) /\ h \in Sent
      /\ Range(channel[w]) = {h} \cup Range(Tail(channel[w]))
      /\ \A v \in Windows : channel'[v] = IF v = w THEN Tail(channel[w]) ELSE channel[v]
  BY <1>1, TailRange DEF TypeOK
<1>4. /\ InCallOrder(Tail(channel[w]), from)
      /\ \A s \in Range(Tail(channel[w])) : s \in Sent /\ from[s] = w /\ h < s
      /\ \A s \in Range(queue[w]) : s \in Sent /\ from[s] = w /\ h < s
      /\ from[h] = w
  <2>1. from[h] = w /\ InCallOrder(channel[w], from)
    BY <1>3 DEF OrderInv, BacklogInv, Behind
  <2>2. /\ \A s \in Range(queue[w]) : s \in Sent
        /\ \A s \in Range(Tail(channel[w])) : s \in Sent
    <3>1. queue[w] \in Seq(Sent)
      BY DEF TypeOK
    <3>2. QED
      BY <3>1, <1>3, Elements
  <2>3. /\ \A s \in Range(Tail(channel[w])) : from[s] = w
        /\ \A s \in Range(queue[w]) : from[s] = w /\ h < s
    BY <1>3 DEF OrderInv, BacklogInv, Behind
  <2>4. /\ InCallOrder(Tail(channel[w]), from)
        /\ \A s \in Range(Tail(channel[w])) : from[s] = from[h] => h < s
    BY <2>1, <1>1, <1>2, <1>3, OrderedTail
  <2>5. QED
    BY <2>1, <2>2, <2>3, <2>4
<1> HIDE DEF h, c, sentAtOnce
<1>5. /\ xhr[h] = "unsent" /\ h \notin AtWorker
      /\ \A s \in Sent : from[s] = w /\ h <= s => xhr[s] = "unsent" /\ s \notin AtWorker
      /\ h \in Behind(w) /\ \A v \in Windows : h \in Behind(v) => v = w
  <2>1. h \in Behind(w)
    BY <1>3 DEF Behind
  <2>2. h <= h
    BY <1>2, <1>3
  <2>3. QED
    BY <2>1, <2>2, <1>3, <1>4 DEF OrderInv, BacklogInv
<1>6. /\ xhr'[h] = IF sentAtOnce THEN "sent" ELSE "unsent"
      /\ \A s \in Sends \ {h} : xhr'[s] = xhr[s]
  BY <1>1, <1>2, <1>3, <1>5 DEF TypeOK
<1>7. c \in Cmds /\ c = msg[h].cmd
  BY <1>2, <1>3 DEF c
<1>8. /\ \A d \in Cmds : msgQueue[d] \in Seq(Sent)
      /\ \A d \in Cmds : msgQueue'[d] = IF msg[h].queued /\ d = c THEN Append(msgQueue[c], h)
                                                                  ELSE msgQueue[d]
  BY <1>1, <1>7 DEF TypeOK
<1>9. /\ Append(msgQueue[c], h) # <<>>
      /\ Head(Append(msgQueue[c], h)) = IF msgQueue[c] = <<>> THEN h ELSE Head(msgQueue[c])
      /\ Range(Append(msgQueue[c], h)) = Range(msgQueue[c]) \cup {h}
  <2>1. h \in Sent /\ msgQueue[c] \in Seq(Sent)
    BY <1>3, <1>7, <1>8
  <2>2. QED
    BY <2>1, AppendFacts
<1>10. AtWorker' = IF msg[h].queued THEN AtWorker \cup {h} ELSE AtWorker
  <2>1. CASE msg[h].queued
    <3>1. \A d \in Cmds : Range(msgQueue'[d]) = IF d = c THEN Range(msgQueue[c]) \cup {h}
                                                       ELSE Range(msgQueue[d])
      BY <2>1, <1>8, <1>9
    <3>2. QED
      BY <3>1, <2>1, <1>7 DEF AtWorker
  <2>2. CASE ~msg[h].queued
    BY <2>2, <1>1 DEF AtWorker
  <2>3. QED
    BY <2>1, <2>2
<1>11. \A v \in Windows : Behind(v)' = IF v = w THEN Behind(w) \ {h} ELSE Behind(v)
  <2>1. h \notin Range(Tail(channel[w])) /\ h \notin Range(queue[w])
    BY <1>2, <1>3, <1>4
  <2>2. QED
    BY <2>1, <1>1, <1>3 DEF Behind
<1>12. BacklogInv'
  <2>1. ASSUME NEW v \in Windows
        PROVE  /\ InCallOrder(channel'[v], from) /\ InCallOrder(queue[v], from)
               /\ \A s \in Range(channel'[v]), t \in Range(queue[v]) : s < t
               /\ \A s \in Behind(v)' : from[s] = v
               /\ link[v] \in {"absent", "ready", "gone"} => queue[v] = <<>>
               /\ link[v] = "absent" => \A s \in Sent : from[s] # v
    BY <1>3, <1>4, <1>11 DEF OrderInv, BacklogInv
  <2>2. ASSUME NEW v \in Windows, NEW s \in Behind(v)', NEW t \in Sent, s <= t, from[t] = v
        PROVE  xhr'[t] = "unsent" /\ t \notin AtWorker'
    <3>1. s \in Behind(v) /\ xhr[t] = "unsent" /\ t \notin AtWorker
      BY <2>2, <1>11 DEF OrderInv, BacklogInv
    <3>2. t # h
      <4>1. CASE v = w
        <5>1. s \in Sent /\ h < s
          BY <4>1, <2>2, <1>3, <1>4, <1>11 DEF Behind
        <5>2. QED
          BY <5>1, <2>2, <1>2, <1>3
      <4>2. CASE v # w
        BY <4>2, <2>2, <1>4
      <4>3. QED
        BY <4>1, <4>2
    <3>3. QED
      BY <3>1, <3>2, <1>2, <1>6, <1>10
  <2>3. QED
    BY <2>1, <2>2, <1>1, <1>2 DEF BacklogInv, sendVars
<1>13. \A d \in Cmds : \A i \in DOMAIN msgQueue[d] : msgQueue[d][i] \in Sent /\ msgQueue[d][i] # h
  <2>1. \A d \in Cmds : \A i \in DOMAIN msgQueue[d] :
            msgQueue[d][i] \in Sent /\ msgQueue[d][i] \in AtWorker
    BY <1>8, ElementOfSeq, LenProperties DEF AtWorker, Range
  <2>2. QED
    BY <2>1, <1>5
<1>14. ASSUME NEW d \in Cmds
       PROVE  InCallOrder(msgQueue'[d], from)
  <2>1. InCallOrder(msgQueue[d], from)
    BY DEF OrderInv, WorkerInv
  <2>2. CASE msg[h].queued /\ d = c
    <3>2. \A s \in Range(msgQueue[c]) : from[s] = from[h] => s < h
      <4>1. \A s \in Range(msgQueue[c]) : s \in Sent /\ s \in AtWorker
        BY <1>7, <1>13 DEF AtWorker, Range
      <4>2. \A s \in Sent : from[s] = w /\ s \in AtWorker => ~(h <= s)
        BY <1>5
      <4>3. h \in Nat /\ \A s \in Sent : s \in Nat
        BY <1>2, <1>3
      <4>4. QED
        BY <4>1, <4>2, <4>3, <1>4
    <3>3. InCallOrder(Append(msgQueue[c], h), from)
      <4>1. Sent \in SUBSET Nat /\ msgQueue[c] \in Seq(Sent) /\ h \in Sent
        BY <1>2, <1>3, <1>7, <1>8
      <4>2. QED
        BY <4>1, <3>2, <2>1, <2>2, OrderedAppend
    <3>4. QED
      BY <3>3, <2>2, <1>8
  <2>3. QED
    BY <2>1, <2>2, <1>8
<1>15. ASSUME NEW d \in Cmds, NEW i \in DOMAIN msgQueue'[d]
       PROVE  LET s == msgQueue'[d][i] IN
              /\ msg[s].cmd = d /\ msg[s].queued
              /\ IF i = 1 THEN xhr'[s] \in UnderWay ELSE xhr'[s] = "unsent"
  <2>1. \A j \in DOMAIN msgQueue[d] :
            LET s == msgQueue[d][j] IN
            /\ msg[s].cmd = d /\ msg[s].queued /\ xhr'[s] = xhr[s]
            /\ IF j = 1 THEN xhr[s] \in UnderWay ELSE xhr[s] = "unsent"
    <3>1. ASSUME NEW j \in DOMAIN msgQueue[d]
          PROVE  xhr'[msgQueue[d][j]] = xhr[msgQueue[d][j]]
      <4>1. msgQueue[d][j] \in Sends \ {h}
        BY <1>2, <1>13
      <4>2. QED
        BY <4>1, <1>6
    <3>2. QED
      BY <3>1 DEF OrderInv, WorkerInv
  <2>2. CASE msg[h].queued /\ d = c
    <3>1. /\ Len(msgQueue[c]) \in Nat /\ DOMAIN msgQueue[c] = 1..Len(msgQueue[c])
          /\ DOMAIN msgQueue'[c] = 1..(Len(msgQueue[c]) + 1)
          /\ \A j \in 1..Len(msgQueue[c]) : msgQueue'[c][j] = msgQueue[c][j]
          /\ msgQueue'[c][Len(msgQueue[c]) + 1] = h
      <4>1. h \in Sent /\ msgQueue[c] \in Seq(Sent) /\ msgQueue'[c] = Append(msgQueue[c], h)
        BY <2>2, <1>3, <1>7, <1>8
      <4>2. QED
        BY <4>1, AppendFacts, Elements
    <3>2. CASE i = Len(msgQueue[c]) + 1
      <4>1. i = 1 <=> sentAtOnce
        BY <3>1, <3>2, <2>2, <1>7, <1>8, EmptySeq DEF sentAtOnce
      <4>2. QED
        BY <4>1, <3>1, <3>2, <2>2, <1>6, <1>7 DEF UnderWay
    <3>3. CASE i # Len(msgQueue[c]) + 1
      <4>1. i \in DOMAIN msgQueue[d] /\ msgQueue'[d][i] = msgQueue[d][i]
        <5>1. i \in DOMAIN msgQueue'[c]
          BY <2>2, <1>15
        <5>2. i \in 1..Len(msgQueue[c])
          BY <5>1, <3>1, <3>3
        <5>3. QED
          BY <5>2, <3>1, <2>2
      <4>2. QED
        BY <4>1, <2>1
    <3>4. QED
      BY <3>2, <3>3
  <2>3. CASE ~(msg[h].queued /\ d = c)
    BY <2>1, <2>3, <1>8, <1>15
  <2>4. QED
    BY <2>2, <2>3
<1>16. ASSUME NEW s \in Sent, msg[s].queued, xhr'[s] \in UnderWay
       PROVE  msgQueue'[msg[s].cmd] # <<>> /\ s = Head(msgQueue'[msg[s].cmd])
  <2>1. CASE s = h
    <3>1. msgQueue[c] = <<>> /\ msg[h].queued
      BY <2>1, <1>6, <1>7, <1>16 DEF sentAtOnce, UnderWay
    <3>2. QED
      BY <3>1, <2>1, <1>7, <1>8, <1>9
  <2>2. CASE s # h
    <3>1. msgQueue[msg[s].cmd] # <<>> /\ s = Head(msgQueue[msg[s].cmd])
      BY <2>2, <1>2, <1>6, <1>16 DEF OrderInv, WorkerInv
    <3>2. CASE msg[h].queued /\ msg[s].cmd = c
      BY <3>1, <3>2, <1>7, <1>8, <1>9
    <3>3. QED
      BY <3>1, <3>2, <1>2, <1>8
  <2>3. QED
    BY <2>1, <2>2
<1>17. WorkerInv'
  BY <1>1, <1>2, <1>14, <1>15, <1>16 DEF WorkerInv, sendVars
<1>18. PlacedInv'
  <2>1. Placed(h)
    BY <1>4, <1>5 DEF Placed
  <2>2. ASSUME NEW s \in Sent, s = h
        PROVE  Placed(s)'
    BY <2>2, <1>6, <1>10 DEF Placed, sentAtOnce
  <2>3. ASSUME NEW s \in Sent, s # h
        PROVE  Placed(s)' <=> Placed(s)
    <3>1. from[s] \in Windows /\ from'[s] = from[s]
      BY <1>1, <1>2 DEF sendVars
    <3>2. s \in Behind(from[s])' <=> s \in Behind(from[s])
      BY <2>3, <3>1, <1>11
    <3>3. QED
      BY <3>1, <3>2, <2>3, <1>2, <1>6, <1>10 DEF Placed
  <2>4. \A s \in Sent : (Placed(s)' <=> Placed(s)) /\ (Alive(from[s])' <=> Alive(from[s]))
    <3>1. \A s \in Sent : Alive(from[s])' <=> Alive(from[s])
      BY <1>1 DEF Alive, sendVars
    <3>2. \A s \in Sent : Placed(s)' <=> Placed(s)
      BY <2>1, <2>2, <2>3
    <3>3. QED
      BY <3>1, <3>2
  <2>5. QED
    BY <2>4, <1>1, <1>2 DEF PlacedInv, OrderInv, sendVars
<1>19. UnsentInv'
  BY <1>1, <1>2, <1>3, <1>6 DEF UnsentInv, OrderInv
<1>20. QueuedInOrder'
  <2>1. SUFFICES ASSUME NEW s \in Sent, NEW t \in Sent, s < t, from[s] = from[t],
                        msg[s].cmd = msg[t].cmd, msg[s].queued, msg[t].queued,
                        xhr'[t] # "unsent"
                 PROVE  xhr'[s] = "over"
    BY <1>1, <1>2 DEF QueuedInOrder, sendVars
  <2>2. CASE t = h
    <3>1. sentAtOnce /\ msgQueue[c] = <<>> /\ s # h
      BY <2>1, <2>2, <1>2, <1>6 DEF sentAtOnce
    <3>2. Placed(s)
      BY <2>1, <2>2, <1>4, <1>5 DEF OrderInv, PlacedInv, Placed
    <3>3. s \notin Behind(from[s])
      BY <2>1, <2>2, <1>2, <1>3, <1>4 DEF Behind
    <3>4. s \notin AtWorker
      <4>1. ASSUME NEW d \in Cmds, NEW i \in DOMAIN msgQueue[d], msgQueue[d][i] = s
            PROVE  FALSE
        <5>1. d = c
          BY <4>1, <2>1, <2>2, <1>7 DEF OrderInv, WorkerInv
        <5>2. DOMAIN msgQueue[d] = {}
          BY <5>1, <3>1
        <5>3. QED
          BY <5>2, <4>1
      <4>2. QED
        BY <4>1 DEF AtWorker, Range
    <3>5. xhr[s] \notin UnderWay
      BY <3>1, <2>1, <2>2, <1>7 DEF OrderInv, WorkerInv
    <3>6. xhr[s] \in XhrStates
      BY <1>2 DEF TypeOK, XhrStates
    <3>7. xhr[s] = "over"
      BY <3>2, <3>3, <3>4, <3>5, <3>6 DEF Placed, UnderWay, XhrStates
    <3>8. QED
      BY <3>1, <3>7, <1>2, <1>6
  <2>3. CASE t # h
    <3>1. xhr[t] # "unsent"
      BY <2>1, <2>3, <1>2, <1>6
    <3>2. xhr[s] = "over"
      BY <3>1, <2>1 DEF OrderInv, QueuedInOrder
    <3>3. QED
      BY <3>2, <1>2, <1>5, <1>6
  <2>4. QED
    BY <2>2, <2>3
<1>21. QED
  BY <1>12, <1>17, <1>18, <1>19, <1>20 DEF OrderInv

(* The worker answers s: it is the head of its queue, if it was queued, and the next one is *)
(* sent.                                                                                    *)
LEMMA AnswerFacts ==
    ASSUME TypeOK, OrderInv, NEW s \in Sent, xhr[s] \in UnderWay, NEW err, Callback(s, err)
    PROVE  /\ msg[s].queued => msgQueue[msg[s].cmd] # <<>> /\ Head(msgQueue[msg[s].cmd]) = s
           /\ back' = IF Alive(from[s])
                      THEN [back EXCEPT ![from[s]] = Append(@, [send |-> s, err |-> err])]
                      ELSE back
           /\ msgQueue' = IF msg[s].queued THEN [msgQueue EXCEPT ![msg[s].cmd] = Rest(s)]
                                           ELSE msgQueue
           /\ Rest(s) = IF msg[s].queued THEN Tail(msgQueue[msg[s].cmd]) ELSE <<>>
           /\ xhr' = IF Rest(s) # <<>> THEN [xhr EXCEPT ![s] = "over", ![Head(Rest(s))] = "sent"]
                                       ELSE [xhr EXCEPT ![s] = "over"]
<1>1. msg[s].queued => msgQueue[msg[s].cmd] # <<>> /\ Head(msgQueue[msg[s].cmd]) = s
  BY DEF OrderInv, WorkerInv
<1>2. Answered(s) = s
  BY <1>1 DEF Answered
<1>3. back' = IF Alive(from[s])
              THEN [back EXCEPT ![from[s]] = Append(@, [send |-> s, err |-> err])] ELSE back
  BY <1>2 DEF Callback
<1>4. msgQueue' = IF msg[s].queued THEN [msgQueue EXCEPT ![msg[s].cmd] = Rest(s)] ELSE msgQueue
  BY DEF Callback
<1>5. xhr' = IF Rest(s) # <<>> THEN [xhr EXCEPT ![s] = "over", ![Head(Rest(s))] = "sent"]
                               ELSE [xhr EXCEPT ![s] = "over"]
  BY DEF Callback, NextInQueue
<1>6. QED
  BY <1>1, <1>3, <1>4, <1>5 DEF Rest

(* An answer posted to a window keeps the queues ordered. *)
LEMMA AnswerStep ==
    ASSUME TypeOK, OrderInv, NEW s \in Sent, xhr[s] \in UnderWay, NEW err, Callback(s, err),
           UNCHANGED <<link, sendVars, queue, channel, promise>>
    PROVE  OrderInv'
<1> DEFINE c == msg[s].cmd
           rest == Rest(s)
           n == Head(rest)
           goesOn == rest # <<>>
<1>1. /\ msg[s].queued => msgQueue[c] # <<>> /\ Head(msgQueue[c]) = s
      /\ msgQueue' = IF msg[s].queued THEN [msgQueue EXCEPT ![c] = rest] ELSE msgQueue
      /\ rest = IF msg[s].queued THEN Tail(msgQueue[c]) ELSE <<>>
      /\ xhr' = IF goesOn THEN [xhr EXCEPT ![s] = "over", ![n] = "sent"]
                          ELSE [xhr EXCEPT ![s] = "over"]
  BY AnswerFacts
<1>2. /\ Sent' = Sent /\ Sent \subseteq Nat /\ Sent \subseteq Sends /\ c \in Cmds
      /\ \A t \in Sent : from[t] \in Windows /\ msg[t].cmd \in Cmds
      /\ \A w : Behind(w)' = Behind(w)
  <2>1. /\ Sent' = Sent /\ \A t \in Sent : from[t] \in Windows
        /\ \A w : Behind(w)' = Behind(w)
    BY DEF Sent, sendVars, TypeOK, Behind
  <2>2. Sent \subseteq Nat /\ Sent \subseteq Sends /\ \A t \in Sent : msg[t] \in Messages
    BY SentFacts
  <2>3. QED
    BY <2>1, <2>2, MessageFacts
<1>3. \A d \in Cmds : /\ msgQueue[d] \in Seq(Sent)
                      /\ \A i \in DOMAIN msgQueue[d] : msgQueue[d][i] \in Sent /\ msg[msgQueue[d][i]].cmd = d
  <2>1. \A d \in Cmds : msgQueue[d] \in Seq(Sent)
    BY DEF TypeOK
  <2>2. QED
    BY <2>1, Elements DEF OrderInv, WorkerInv
<1> HIDE DEF c, rest, n, goesOn
<1>4. ASSUME msg[s].queued
      PROVE  /\ rest \in Seq(Sent) /\ Range(msgQueue[c]) = {s} \cup Range(rest)
             /\ InCallOrder(rest, from) /\ s \notin Range(rest)
             /\ Len(msgQueue[c]) \in Nat /\ DOMAIN msgQueue[c] = 1..Len(msgQueue[c])
             /\ DOMAIN rest = 1..(Len(msgQueue[c]) - 1)
             /\ \A i \in DOMAIN rest : i + 1 \in DOMAIN msgQueue[c] /\ rest[i] = msgQueue[c][i + 1]
             /\ 1 \in DOMAIN msgQueue[c] /\ msgQueue[c][1] = s
  <2>1. msgQueue[c] \in Seq(Sent) /\ msgQueue[c] # <<>> /\ Head(msgQueue[c]) = s
    BY <1>1, <1>2, <1>3, <1>4
  <2>2. InCallOrder(msgQueue[c], from)
    BY <1>2 DEF OrderInv, WorkerInv
  <2>3. rest \in Seq(Sent) /\ Range(msgQueue[c]) = {s} \cup Range(rest)
    BY <2>1, <1>1, <1>4, TailRange
  <2>4. InCallOrder(rest, from) /\ \A t \in Range(rest) : from[t] = from[s] => s < t
    BY <2>1, <2>2, <1>1, <1>2, <1>4, OrderedTail
  <2>5. s \notin Range(rest)
    BY <2>4, <1>2
  <2>6. /\ Len(rest) = Len(msgQueue[c]) - 1
        /\ \A i \in 1..Len(rest) : rest[i] = msgQueue[c][i + 1]
    BY <2>1, <1>1, <1>4, HeadTailProperties
  <2>7. /\ Len(msgQueue[c]) \in Nat \ {0} /\ DOMAIN msgQueue[c] = 1..Len(msgQueue[c])
        /\ DOMAIN rest = 1..Len(rest)
    BY <2>1, <2>3, Elements
  <2>8. msgQueue[c][1] = s
    BY <2>1
  <2>9. QED
    BY <2>3, <2>4, <2>5, <2>6, <2>7, <2>8
<1>5. ASSUME goesOn
      PROVE  /\ msg[s].queued /\ n \in Sent /\ n \in Range(rest) /\ n # s /\ n \in AtWorker
             /\ n = msgQueue[c][2] /\ 2 \in DOMAIN msgQueue[c] /\ n = rest[1]
             /\ msg[n].cmd = c /\ xhr[n] = "unsent"
             /\ \A i \in DOMAIN rest : rest[i] = n => i = 1
  <2>1. msg[s].queued /\ rest # <<>>
    BY <1>1, <1>5 DEF goesOn
  <2>2. n \in Sent /\ n \in Range(rest) /\ n = rest[1]
    BY <2>1, <1>4, TailRange DEF n
  <2>3. 1 \in DOMAIN rest
    BY <2>1, <1>4, Elements
  <2>4. 2 \in DOMAIN msgQueue[c] /\ n = msgQueue[c][2]
    BY <2>1, <2>2, <2>3, <1>4
  <2>5. msg[n].cmd = c /\ xhr[n] = "unsent"
    BY <2>4, <1>2 DEF OrderInv, WorkerInv
  <2>6. n \in AtWorker /\ n # s
    BY <2>1, <2>2, <1>2, <1>4 DEF AtWorker
  <2>7. ASSUME NEW i \in DOMAIN rest, rest[i] = n
        PROVE  i = 1
    <3>1. i # 1 => 1 < i
      BY <2>1, <1>4
    <3>2. 1 < i => n < n
      <4>1. InCallOrder(rest, from) /\ rest[1] = rest[i]
        BY <2>1, <2>2, <2>7, <1>4
      <4>2. QED
        BY <4>1, <2>2, <2>3, <2>7 DEF InCallOrder
    <3>3. QED
      BY <3>1, <3>2, <2>2, <1>2
  <2>8. QED
    BY <2>1, <2>2, <2>4, <2>5, <2>6, <2>7
<1>6. /\ xhr'[s] = "over"
      /\ goesOn => xhr'[n] = "sent"
      /\ \A t \in Sends : t # s /\ ~(goesOn /\ t = n) => xhr'[t] = xhr[t]
  BY <1>1, <1>2, <1>5 DEF TypeOK
<1>7. \A d \in Cmds : msgQueue'[d] = IF msg[s].queued /\ d = c THEN rest ELSE msgQueue[d]
  BY <1>1, <1>2 DEF TypeOK
<1>8. AtWorker' \subseteq AtWorker /\ AtWorker \subseteq AtWorker' \cup {s}
  <2>1. \A d \in Cmds : /\ Range(msgQueue'[d]) \subseteq Range(msgQueue[d])
                        /\ Range(msgQueue[d]) \subseteq Range(msgQueue'[d]) \cup {s}
    BY <1>4, <1>7
  <2>2. QED
    BY <2>1 DEF AtWorker
<1>9. BacklogInv'
  <2>1. ASSUME NEW w \in Windows, NEW r \in Behind(w), NEW t \in Sent, r <= t, from[t] = w
        PROVE  xhr'[t] = "unsent" /\ t \notin AtWorker'
    <3>1. xhr[t] = "unsent" /\ t \notin AtWorker
      BY <2>1 DEF OrderInv, BacklogInv
    <3>2. t # s /\ ~(goesOn /\ t = n)
      BY <3>1, <1>5 DEF UnderWay
    <3>3. QED
      BY <3>1, <3>2, <1>2, <1>6, <1>8
  <2>2. QED
    BY <2>1, <1>2 DEF OrderInv, BacklogInv, sendVars
<1>10. ASSUME NEW d \in Cmds
       PROVE  InCallOrder(msgQueue'[d], from)
  BY <1>4, <1>7 DEF OrderInv, WorkerInv
<1>11. ASSUME NEW d \in Cmds, NEW i \in DOMAIN msgQueue'[d]
       PROVE  LET t == msgQueue'[d][i] IN
              /\ msg[t].cmd = d /\ msg[t].queued
              /\ IF i = 1 THEN xhr'[t] \in UnderWay ELSE xhr'[t] = "unsent"
  <2>1. CASE msg[s].queued /\ d = c
    <3>1. i \in DOMAIN rest /\ msgQueue'[d][i] = rest[i] /\ rest[i] = msgQueue[c][i + 1]
          /\ i + 1 \in DOMAIN msgQueue[c] /\ i \in Nat /\ i + 1 # 1
      BY <2>1, <1>4, <1>7, <1>11
    <3>2. /\ msg[rest[i]].cmd = c /\ msg[rest[i]].queued /\ xhr[rest[i]] = "unsent"
      BY <3>1, <1>2 DEF OrderInv, WorkerInv
    <3>3. CASE i = 1
      <4>1. goesOn /\ rest[i] = n
        BY <2>1, <3>1, <3>3, <1>4, <1>5, Elements DEF goesOn, n
      <4>2. QED
        BY <4>1, <3>1, <3>2, <3>3, <2>1, <1>6 DEF UnderWay
    <3>4. CASE i # 1
      <4>1. rest[i] \in Sent /\ rest[i] # s /\ ~(goesOn /\ rest[i] = n)
        BY <2>1, <3>1, <3>4, <1>4, <1>5, Elements
      <4>2. QED
        BY <4>1, <3>1, <3>2, <3>4, <2>1, <1>2, <1>6
    <3>5. QED
      BY <3>3, <3>4
  <2>2. CASE ~(msg[s].queued /\ d = c)
    <3>1. i \in DOMAIN msgQueue[d] /\ msgQueue'[d][i] = msgQueue[d][i]
      BY <2>2, <1>7, <1>11
    <3>2. /\ msg[msgQueue[d][i]].cmd = d /\ msg[msgQueue[d][i]].queued
          /\ IF i = 1 THEN xhr[msgQueue[d][i]] \in UnderWay ELSE xhr[msgQueue[d][i]] = "unsent"
      BY <3>1 DEF OrderInv, WorkerInv
    <3>3. msgQueue[d][i] \in Sends /\ msgQueue[d][i] # s /\ ~(goesOn /\ msgQueue[d][i] = n)
      BY <2>2, <3>1, <3>2, <1>2, <1>3, <1>5 DEF c
    <3>4. QED
      BY <3>1, <3>2, <3>3, <1>6
  <2>3. QED
    BY <2>1, <2>2
<1>12. ASSUME NEW t \in Sent, msg[t].queued, xhr'[t] \in UnderWay
       PROVE  msgQueue'[msg[t].cmd] # <<>> /\ t = Head(msgQueue'[msg[t].cmd])
  <2>1. CASE goesOn /\ t = n
    BY <2>1, <1>2, <1>5, <1>7 DEF goesOn, n
  <2>2. CASE ~(goesOn /\ t = n)
    <3>1. t # s /\ xhr[t] \in UnderWay
      BY <2>2, <1>2, <1>6, <1>12 DEF UnderWay
    <3>2. msgQueue[msg[t].cmd] # <<>> /\ t = Head(msgQueue[msg[t].cmd])
      BY <3>1, <1>12 DEF OrderInv, WorkerInv
    <3>3. ~(msg[s].queued /\ msg[t].cmd = c)
      BY <3>1, <3>2, <1>1 DEF c
    <3>4. QED
      BY <3>2, <3>3, <1>2, <1>7
  <2>3. QED
    BY <2>1, <2>2
<1>13. WorkerInv'
  BY <1>2, <1>10, <1>11, <1>12 DEF WorkerInv, sendVars
<1>14. PlacedInv'
  <2>1. \A t \in Sent : Placed(t)' <=> Placed(t)
    <3>1. SUFFICES ASSUME NEW t \in Sent
                   PROVE  Placed(t)' <=> Placed(t)
      OBVIOUS
    <3>2. t \in Behind(from[t])' <=> t \in Behind(from[t])
      BY <1>2 DEF sendVars
    <3>3. CASE t = s \/ (goesOn /\ t = n)
      <4>1. xhr'[t] # "unsent" /\ (xhr[t] # "unsent" \/ t \in AtWorker)
        BY <3>3, <1>5, <1>6 DEF UnderWay
      <4>2. QED
        BY <4>1 DEF Placed
    <3>4. CASE t # s /\ ~(goesOn /\ t = n)
      BY <3>2, <3>4, <1>2, <1>6, <1>8 DEF Placed
    <3>5. QED
      BY <3>3, <3>4
  <2>2. \A t \in Sent : Alive(from[t])' <=> Alive(from[t])
    BY DEF Alive, sendVars
  <2>3. QED
    BY <2>1, <2>2, <1>2 DEF PlacedInv, OrderInv, sendVars
<1>15. UnsentInv'
  BY <1>2, <1>5, <1>6 DEF UnsentInv, OrderInv
<1>16. QueuedInOrder'
  <2>1. SUFFICES ASSUME NEW r \in Sent, NEW t \in Sent, r < t, from[r] = from[t],
                        msg[r].cmd = msg[t].cmd, msg[r].queued, msg[t].queued,
                        xhr'[t] # "unsent"
                 PROVE  xhr'[r] = "over"
    BY <1>2 DEF QueuedInOrder, sendVars
  <2>2. CASE goesOn /\ t = n
    <3>1. r # n /\ (r = s \/ xhr'[r] = xhr[r])
      BY <2>1, <2>2, <1>2, <1>6
    <3>2. Placed(r)
      BY <2>1, <2>2, <1>5 DEF OrderInv, PlacedInv, Placed
    <3>3. r \notin Behind(from[r])
      <4>1. r \in Nat /\ t \in Nat /\ t \in AtWorker
        BY <2>1, <2>2, <1>2, <1>5
      <4>2. QED
        BY <4>1, <2>1, <1>2 DEF OrderInv, BacklogInv
    <3>4. r \in AtWorker => r = s
      <4>1. SUFFICES ASSUME NEW d \in Cmds, NEW i \in DOMAIN msgQueue[d], msgQueue[d][i] = r
                     PROVE  r = s
        BY DEF AtWorker, Range
      <4>2. d = c
        BY <4>1, <2>1, <2>2, <1>3, <1>5
      <4>3. ~(2 <= i)
        <5>1. 2 < i => t < r
          BY <4>1, <4>2, <2>1, <2>2, <1>2, <1>5 DEF OrderInv, WorkerInv, InCallOrder
        <5>2. i # 2 /\ i \in Nat
          BY <4>1, <4>2, <2>2, <3>1, <1>4, <1>5
        <5>3. QED
          BY <5>1, <5>2, <2>1, <1>2
      <4>4. i = 1
        BY <4>1, <4>2, <4>3, <2>2, <1>4, <1>5
      <4>5. QED
        BY <4>1, <4>2, <4>4, <2>2, <1>4, <1>5
    <3>5. xhr[r] \in UnderWay => r = s
      BY <2>1, <2>2, <1>1, <1>5 DEF OrderInv, WorkerInv
    <3>6. xhr[r] \in XhrStates
      BY <1>2 DEF TypeOK, XhrStates
    <3>7. r = s \/ xhr[r] = "over"
      BY <3>2, <3>3, <3>4, <3>5, <3>6 DEF Placed, UnderWay, XhrStates
    <3>8. QED
      BY <3>1, <3>7, <1>6
  <2>3. CASE ~(goesOn /\ t = n)
    <3>1. xhr[t] # "unsent"
      BY <2>1, <2>3, <1>2, <1>6 DEF UnderWay
    <3>2. xhr[r] = "over"
      BY <3>1, <2>1 DEF OrderInv, QueuedInOrder
    <3>3. r # s /\ ~(goesOn /\ r = n)
      BY <3>2, <1>5 DEF UnderWay
    <3>4. QED
      BY <3>2, <3>3, <1>2, <1>6
  <2>4. QED
    BY <2>2, <2>3
<1>17. QED
  BY <1>9, <1>13, <1>14, <1>15, <1>16 DEF OrderInv

-----------------------------------------------------------------------------
(* What the two ways of sending send *)

LEMMA AsyncSends ==
    ASSUME TypeOK, NEW w \in Windows, NEW m \in Shapes, AsyncServiceMsg(w, m)
    PROVE  Sendable(<<m>>, <<Len(msg) + 1>>) /\ Sending(w, <<m>>, <<Len(msg) + 1>>)
<1>1. /\ Len(msg) \in Nat /\ Len(msg) + 1 <= MaxSends
      /\ msg \in Seq(Messages) /\ from \in Seq(Windows) /\ copyOf \in Seq(Sent)
      /\ Len(from) = Len(msg) /\ Len(copyOf) = Len(msg)
  <2>1. /\ Len(msg) \in Nat /\ from \in Seq(Windows) /\ copyOf \in Seq(Sent)
        /\ Len(from) = Len(msg) /\ Len(copyOf) = Len(msg)
    BY SentFacts
  <2>2. Len(msg) < MaxSends /\ msg \in Seq(Messages)
    BY DEF AsyncServiceMsg, TypeOK
  <2>3. QED
    BY <2>1, <2>2, BoundsAssumption
<1>2. /\ m \in Messages /\ <<m>> \in Seq(Messages) /\ Len(<<m>>) = 1 /\ DOMAIN <<m>> = 1..1
      /\ <<Len(msg) + 1>> \in Seq(1..(Len(msg) + 1)) /\ Len(<<Len(msg) + 1>>) = 1
  BY <1>1 DEF Messages
<1>3. Sendable(<<m>>, <<Len(msg) + 1>>)
  BY <1>1, <1>2 DEF Sendable
<1>4. [i \in DOMAIN <<m>> |-> w] = <<w>> /\ Numbers(<<m>>) = <<Len(msg) + 1>>
  BY <1>2 DEF Numbers
<1>5. msg' = msg \o <<m>>
  BY <1>1, <1>2, AppendIsConcat DEF AsyncServiceMsg
<1>6. from' = from \o <<w>>
  BY <1>1, AppendIsConcat DEF AsyncServiceMsg
<1>7. copyOf' = copyOf \o <<Len(msg) + 1>>
  <2>1. copyOf \in Seq(Nat)
    <3>1. Sent \subseteq Nat
      BY SentFacts
    <3>2. QED
      BY <1>1, <3>1, SeqMonotonic
  <2>2. Append(copyOf, Len(msg) + 1) = copyOf \o <<Len(msg) + 1>>
    BY <2>1, <1>1, AppendIsConcat
  <2>3. QED
    BY <2>2 DEF AsyncServiceMsg
<1>8. Post(w, <<Len(msg) + 1>>)
  BY DEF AsyncServiceMsg
<1>9. QED
  BY <1>3, <1>4, <1>5, <1>6, <1>7, <1>8 DEF Sending

Stored   == [i \in DOMAIN store |-> [msg[store[i]] EXCEPT !.queued = TRUE]]
Repeated == [i \in DOMAIN store |-> copyOf[store[i]]]

(* batchUpdate sends each stored message again. *)
LEMMA StoredSends ==
    ASSUME TypeOK, NEW w \in Windows, BatchUpdate(w)
    PROVE  /\ Sendable(Stored, Repeated) /\ Sending(w, Stored, Repeated)
           /\ Len(Stored) = Len(store) /\ store' = <<>>
           /\ \A i \in 1..Len(store) : Repeated[i] = copyOf[store[i]]
<1>1. /\ Len(store) \in Nat /\ DOMAIN store = 1..Len(store)
      /\ \A i \in DOMAIN store : store[i] \in Sent
      /\ Len(msg) + Len(store) <= MaxSends /\ Len(msg) \in Nat /\ Sent = 1..Len(msg)
      /\ \A s \in Sent : msg[s] \in Messages /\ copyOf[s] \in Sent
  BY SentFacts, Elements DEF TypeOK, BatchUpdate
<1>2. ASSUME NEW m \in Messages
      PROVE  [m EXCEPT !.queued = TRUE] \in Messages
  <2>1. CASE m \in Shapes
    BY <2>1 DEF Messages
  <2>2. ASSUME NEW k \in Shapes, m = [k EXCEPT !.queued = TRUE]
        PROVE  [m EXCEPT !.queued = TRUE] \in Messages
    <3>1. [m EXCEPT !.queued = TRUE] = m
      BY <2>2
    <3>2. QED
      BY <3>1
  <2>3. QED
    BY <2>1, <2>2 DEF Messages
<1>3. Stored \in [1..Len(store) -> Messages]
  BY <1>1, <1>2 DEF Stored
<1>4. Repeated \in [1..Len(store) -> 1..(Len(msg) + Len(store))]
  BY <1>1 DEF Repeated
<1>5. Stored \in Seq(Messages) /\ Len(Stored) = Len(store) /\ DOMAIN Stored = DOMAIN store
  BY <1>1, <1>3, FunctionSeq
<1>6. Repeated \in Seq(1..(Len(msg) + Len(store))) /\ Len(Repeated) = Len(store)
  BY <1>1, <1>4, FunctionSeq
<1>7. Sendable(Stored, Repeated)
  BY <1>1, <1>5, <1>6 DEF Sendable
<1>8. Sending(w, Stored, Repeated) /\ store' = <<>>
  BY <1>5 DEF BatchUpdate, ResendStored, Sending, Numbers, Stored, Repeated
<1>9. QED
  BY <1>1, <1>5, <1>7, <1>8 DEF Repeated

-----------------------------------------------------------------------------
(* Types *)

LEMMA SendTypes ==
    ASSUME TypeOK, NEW w \in Windows, NEW ms, NEW cs, Sendable(ms, cs), Sending(w, ms, cs),
           store' \in Seq(Sent')
    PROVE  TypeOK' /\ UNCHANGED <<xhr, lastAttempt, handled>>
<1>1. /\ UNCHANGED <<link, listening, msgQueue, xhr, lastAttempt, back, promise, handled>>
      /\ callbacks' = [callbacks EXCEPT ![w] = @ \cup Range(Numbers(ms))]
      /\ active' = [active EXCEPT ![w] = @ + Len(Numbers(ms))]
      /\ IF link[w] = "ready"
         THEN channel' = [channel EXCEPT ![w] = @ \o Numbers(ms)] /\ UNCHANGED queue
         ELSE queue' = [queue EXCEPT ![w] = @ \o Numbers(ms)] /\ UNCHANGED channel
  BY DEF Sending, Post, windowVars, workerVars
<1>2. /\ Sent \subseteq Sent' /\ Len(Numbers(ms)) \in Nat
      /\ Numbers(ms) \in Seq(Sent') /\ Range(Numbers(ms)) \subseteq Sent'
      /\ msg' \in Seq(Messages) /\ Len(msg') <= MaxSends
      /\ from' \in [Sent' -> Windows] /\ copyOf' \in [Sent' -> Sent']
  BY NewSends, Elements
<1>3. /\ Seq(Sent) \subseteq Seq(Sent')
      /\ Seq([send : Sent, err : BOOLEAN]) \subseteq Seq([send : Sent', err : BOOLEAN])
  <2>1. [send : Sent, err : BOOLEAN] \subseteq [send : Sent', err : BOOLEAN]
    BY <1>2
  <2>2. QED
    BY <1>2, <2>1, SeqMonotonic
<1>4. /\ queue \in [Windows -> Seq(Sent')] /\ channel \in [Windows -> Seq(Sent')]
      /\ msgQueue' \in [Cmds -> Seq(Sent')]
      /\ back' \in [Windows -> Seq([send : Sent', err : BOOLEAN])]
  BY <1>1, <1>3 DEF TypeOK
<1>5. queue' \in [Windows -> Seq(Sent')] /\ channel' \in [Windows -> Seq(Sent')]
  <2>1. queue[w] \o Numbers(ms) \in Seq(Sent') /\ channel[w] \o Numbers(ms) \in Seq(Sent')
    BY <1>2, <1>4, ConcatRange
  <2>2. QED
    BY <2>1, <1>1, <1>4
<1>6. callbacks' \in [Windows -> SUBSET Sent'] /\ active' \in [Windows -> Nat]
  BY <1>1, <1>2 DEF TypeOK
<1>7. QED
  BY <1>1, <1>2, <1>4, <1>5, <1>6 DEF TypeOK

(* The XHRs when one is over. *)
LEMMA AnswerXhr ==
    ASSUME TypeOK, OrderInv, NEW s \in Sent, xhr[s] \in UnderWay, NEW err, Callback(s, err)
    PROVE  /\ xhr' \in [Sends -> XhrStates]
           /\ \A t \in Sends : \/ xhr'[t] = "over"
                               \/ xhr[t] = "unsent" /\ xhr'[t] = "sent"
                               \/ t # s /\ xhr'[t] = xhr[t]
           /\ \A t \in Sends : xhr'[t] = "over" <=> xhr[t] = "over" \/ t = s
<1>1. /\ msg[s].queued => msgQueue[msg[s].cmd] # <<>>
      /\ Rest(s) = IF msg[s].queued THEN Tail(msgQueue[msg[s].cmd]) ELSE <<>>
      /\ xhr' = IF Rest(s) # <<>> THEN [xhr EXCEPT ![s] = "over", ![Head(Rest(s))] = "sent"]
                                  ELSE [xhr EXCEPT ![s] = "over"]
  BY AnswerFacts
<1>2. Sent \subseteq Sends /\ msg[s].cmd \in Cmds /\ xhr \in [Sends -> XhrStates]
  BY SentFacts, MessageFacts DEF TypeOK, XhrStates
<1>3. Rest(s) # <<>> => /\ Head(Rest(s)) \in Sends /\ xhr[Head(Rest(s))] = "unsent"
                       /\ Head(Rest(s)) # s
  <2>1. SUFFICES ASSUME Rest(s) # <<>>
                 PROVE  /\ Head(Rest(s)) \in Sends /\ xhr[Head(Rest(s))] = "unsent"
                        /\ Head(Rest(s)) # s
    OBVIOUS
  <2> DEFINE q == msgQueue[msg[s].cmd]
  <2>2. msg[s].queued /\ q \in Seq(Sent) /\ q # <<>> /\ Rest(s) = Tail(q)
    BY <2>1, <1>1, <1>2 DEF TypeOK
  <2>3. /\ Len(q) \in Nat /\ Len(Tail(q)) = Len(q) - 1 /\ Tail(q) \in Seq(Sent)
        /\ \A i \in 1..Len(Tail(q)) : Tail(q)[i] = q[i + 1]
    BY <2>2, HeadTailProperties, Elements
  <2>4. Len(Tail(q)) # 0 /\ DOMAIN q = 1..Len(q)
    BY <2>1, <2>2, <2>3, Elements
  <2>5. Head(Rest(s)) = q[2] /\ 2 \in DOMAIN q
    BY <2>1, <2>2, <2>3, <2>4
  <2>6. xhr[q[2]] = "unsent" /\ q[2] \in Sent
    BY <2>2, <2>5, <1>2, Elements DEF OrderInv, WorkerInv
  <2>7. QED
    BY <2>5, <2>6, <1>2 DEF UnderWay
<1>4. QED
  BY <1>1, <1>2, <1>3 DEF XhrStates

(* An answer keeps the types and what is known of handled messages. *)
LEMMA AnswerTypes ==
    ASSUME TypeOK, HandledInv, OrderInv, NEW s \in Sent, xhr[s] \in UnderWay,
           NEW err \in BOOLEAN, Callback(s, err), lastAttempt' \in {lastAttempt, lastAttempt \cup {s}},
           UNCHANGED <<windowVars, sendVars, queue, channel, pageVars, store, handled>>
    PROVE  TypeOK' /\ HandledInv'
<1>1. /\ msg[s].queued => msgQueue[msg[s].cmd] # <<>>
      /\ back' = IF Alive(from[s])
                 THEN [back EXCEPT ![from[s]] = Append(@, [send |-> s, err |-> err])] ELSE back
      /\ msgQueue' = IF msg[s].queued THEN [msgQueue EXCEPT ![msg[s].cmd] = Rest(s)] ELSE msgQueue
      /\ Rest(s) = IF msg[s].queued THEN Tail(msgQueue[msg[s].cmd]) ELSE <<>>
      /\ xhr' = IF Rest(s) # <<>> THEN [xhr EXCEPT ![s] = "over", ![Head(Rest(s))] = "sent"]
                                  ELSE [xhr EXCEPT ![s] = "over"]
  BY AnswerFacts
<1>2. /\ Sent' = Sent /\ Sent \subseteq Sends /\ from[s] \in Windows /\ msg[s].cmd \in Cmds
  BY SentFacts, MessageFacts DEF Sent, sendVars, TypeOK
<1>3. Rest(s) \in Seq(Sent) /\ (Rest(s) # <<>> => Head(Rest(s)) \in Sent)
  <2>1. CASE msg[s].queued
    <3>1. msgQueue[msg[s].cmd] \in Seq(Sent)
      BY <1>2 DEF TypeOK
    <3>2. QED
      BY <3>1, <2>1, <1>1, TailRange
  <2>2. CASE ~msg[s].queued
    BY <2>2, <1>1
  <2>3. QED
    BY <2>1, <2>2
<1>4. back' \in [Windows -> Seq([send : Sent, err : BOOLEAN])]
  <2>1. [send |-> s, err |-> err] \in [send : Sent, err : BOOLEAN]
    OBVIOUS
  <2>2. Append(back[from[s]], [send |-> s, err |-> err]) \in Seq([send : Sent, err : BOOLEAN])
    BY <2>1, <1>2, AppendFacts DEF TypeOK
  <2>3. QED
    BY <2>2, <1>1 DEF TypeOK
<1>5. msgQueue' \in [Cmds -> Seq(Sent)]
  BY <1>1, <1>3 DEF TypeOK
<1>6. /\ xhr' \in [Sends -> XhrStates]
      /\ \A t \in Sends : \/ xhr'[t] = "over"
                          \/ xhr[t] = "unsent" /\ xhr'[t] = "sent"
                          \/ t # s /\ xhr'[t] = xhr[t]
  BY AnswerXhr
<1>7. lastAttempt' \subseteq Sends
  BY <1>2 DEF TypeOK
<1>8. TypeOK'
  BY <1>2, <1>4, <1>5, <1>6, <1>7 DEF TypeOK, XhrStates, windowVars, sendVars, pageVars
<1>9. HandledInv'
  <2>1. \A t \in Sends : handled[t] \in 0..2
    BY DEF TypeOK
  <2>2. \A t \in Sends : t # s => (t \in lastAttempt' <=> t \in lastAttempt)
    OBVIOUS
  <2>3. QED
    BY <2>1, <2>2, <1>6 DEF HandledInv
<1>10. QED
  BY <1>8, <1>9

(* New sends keep the count of the active ones. *)
LEMMA SendCount ==
    ASSUME TypeOK, CountInv, NEW w \in Windows, NEW ms, NEW cs, Sendable(ms, cs),
           Sending(w, ms, cs)
    PROVE  CountInv'
<1> DEFINE n == Len(msg)
           k == Len(ms)
<1>1. /\ n \in Nat /\ k \in Nat /\ Sent = 1..n /\ Len(Numbers(ms)) = k
      /\ Range(Numbers(ms)) = (n + 1)..(n + k)
  BY SentFacts, NewSends
<1>2. /\ callbacks' = [callbacks EXCEPT ![w] = @ \cup ((n + 1)..(n + k))]
      /\ active' = [active EXCEPT ![w] = @ + k]
  BY <1>1 DEF Sending, Post
<1>3. callbacks[w] \subseteq 1..n /\ callbacks[w] \in SUBSET (1..n)
  BY <1>1 DEF TypeOK
<1> HIDE DEF n, k
<1>4. IsFiniteSet(callbacks[w]) /\ IsFiniteSet((n + 1)..(n + k)) /\ Cardinality((n + 1)..(n + k)) = k
  <2>1. IsFiniteSet(1..n)
    BY <1>1, FS_Interval
  <2>2. IsFiniteSet(callbacks[w])
    BY <2>1, <1>3, FS_Subset
  <2>3. n + 1 \in Int /\ n + k \in Int
    BY <1>1
  <2>4. /\ IsFiniteSet((n + 1)..(n + k))
        /\ Cardinality((n + 1)..(n + k)) =
               IF n + 1 > n + k THEN 0 ELSE (n + k) - (n + 1) + 1
    BY <2>3, FS_Interval
  <2>5. QED
    BY <2>2, <2>4, <1>1
<1>5. callbacks[w] \cap ((n + 1)..(n + k)) = {}
  BY <1>1, <1>3
<1>6. Cardinality(callbacks[w] \cup ((n + 1)..(n + k))) = Cardinality(callbacks[w]) + k
  <2>1. Cardinality({}) = 0 /\ Cardinality(callbacks[w]) \in Nat
    BY <1>4, FS_EmptySet, FS_CardinalityType
  <2>2. Cardinality(callbacks[w] \cup ((n + 1)..(n + k))) =
           Cardinality(callbacks[w]) + Cardinality((n + 1)..(n + k))
             - Cardinality(callbacks[w] \cap ((n + 1)..(n + k)))
    BY <1>4, FS_Union
  <2>3. Cardinality(callbacks[w] \cap ((n + 1)..(n + k))) = 0
    BY <2>1, <1>5
  <2>4. Cardinality(callbacks[w] \cup ((n + 1)..(n + k))) = Cardinality(callbacks[w]) + k - 0
    BY <2>2, <2>3, <1>4
  <2>5. QED
    BY <2>1, <2>4, <1>1
<1>7. callbacks \in [Windows -> SUBSET Sent] /\ active \in [Windows -> Nat]
  BY DEF TypeOK
<1>8. QED
  BY <1>2, <1>6, <1>7 DEF CountInv

(* What the answer to the first message in back[w] changes. *)
Read(w) == Head(back[w])

(* A window reads the next answer and settles the callback of its send. *)
LEMMA ReadStep ==
    ASSUME TypeOK, NEW w \in Windows, OnWorkerMessage(w)
    PROVE  /\ UNCHANGED <<windowVars, sendVars, queue, channel, workerVars, handled>>
           /\ back[w] # <<>> /\ back' = [back EXCEPT ![w] = Tail(@)]
           /\ Read(w).send \in callbacks[w] /\ Read(w).send \in Sent
           /\ callbacks' = [callbacks EXCEPT ![w] = @ \ {Read(w).send}]
           /\ active' = [active EXCEPT ![w] = @ - 1]
           /\ store' = IF Read(w).err /\ IsStored(Read(w).send)
                       THEN Append(StoreWithout(msg[Read(w).send].cmd), Read(w).send) ELSE store
           /\ promise' \in [Sends -> {"open", "resolved", "rejected"}]
           /\ \A s \in Sends \ {Read(w).send} : promise'[s] = promise[s]
           /\ promise'[Read(w).send] = "resolved" =>
                  \/ ~Read(w).err \/ IsStored(Read(w).send)
                  \/ promise[Read(w).send] = "resolved"
           /\ Read(w).err /\ IsStored(Read(w).send) => promise'[Read(w).send] = "resolved"
<1> DEFINE s == Read(w).send
<1>1. /\ UNCHANGED <<windowVars, sendVars, queue, channel, workerVars, handled>>
      /\ back[w] # <<>> /\ back' = [back EXCEPT ![w] = Tail(@)]
      /\ s \in callbacks[w]
      /\ callbacks' = [callbacks EXCEPT ![w] = @ \ {s}]
  BY DEF OnWorkerMessage, Read
<1>2. active' = [active EXCEPT ![w] = @ - 1]
  BY DEF OnWorkerMessage, CountedDown
<1>3. store' = IF Read(w).err /\ IsStored(s) THEN Append(StoreWithout(msg[s].cmd), s) ELSE store
  BY DEF OnWorkerMessage, Read
<1>4. promise' = [promise EXCEPT ![s] = IF ~Read(w).err \/ IsStored(s) THEN "resolved"
                                       ELSE IF msg[s].mayReject THEN "rejected" ELSE @]
  BY DEF OnWorkerMessage, Read
<1>5. s \in Sent /\ s \in Sends /\ promise \in [Sends -> {"open", "resolved", "rejected"}]
  BY <1>1, SentFacts DEF TypeOK
<1> HIDE DEF s
<1>6. /\ promise' \in [Sends -> {"open", "resolved", "rejected"}]
      /\ \A t \in Sends \ {s} : promise'[t] = promise[t]
      /\ promise'[s] = "resolved" =>
             ~Read(w).err \/ IsStored(s) \/ promise[s] = "resolved"
      /\ Read(w).err /\ IsStored(s) => promise'[s] = "resolved"
  BY <1>4, <1>5
<1>7. QED
  BY <1>1, <1>2, <1>3, <1>5, <1>6 DEF s

(* What is left when one entry of a sequence is taken out. *)
LEMMA RemoveAtFacts ==
    ASSUME NEW S, NEW q \in Seq(S), NEW i \in DOMAIN q
    PROVE  /\ RemoveAt(q, i) \in Seq(S) /\ DOMAIN RemoveAt(q, i) = 1..(Len(q) - 1)
           /\ \A k \in 1..(Len(q) - 1) : RemoveAt(q, i)[k] = q[IF k < i THEN k ELSE k + 1]
<1> DEFINE p == SubSeq(q, 1, i - 1)
           r == SubSeq(q, i + 1, Len(q))
<1>1. /\ Len(q) \in Nat /\ i \in 1..Len(q) /\ \A k \in 1..Len(q) : q[k] \in S
  BY Elements
<1>2. /\ p \in Seq(S) /\ Len(p) = i - 1 /\ \A k \in 1..(i - 1) : p[k] = q[k]
  <2>1. 1 \in Int /\ i - 1 \in Int /\ \A k \in 1..(i - 1) : q[k] \in S
    BY <1>1
  <2>2. /\ p \in Seq(S) /\ Len(p) = IF 1 <= i - 1 THEN (i - 1) - 1 + 1 ELSE 0
        /\ \A k \in 1..((i - 1) - 1 + 1) : p[k] = q[1 + k - 1]
    BY <2>1, SubSeqProperties
  <2> HIDE DEF p
  <2>3. QED
    BY <1>1, <2>2
<1>3. /\ r \in Seq(S) /\ Len(r) = Len(q) - i
      /\ \A k \in 1..(Len(q) - i) : r[k] = q[i + k]
  <2>1. i + 1 \in Int /\ Len(q) \in Int /\ \A k \in (i + 1)..Len(q) : q[k] \in S
    BY <1>1
  <2>2. /\ r \in Seq(S) /\ Len(r) = IF i + 1 <= Len(q) THEN Len(q) - (i + 1) + 1 ELSE 0
        /\ \A k \in 1..(Len(q) - (i + 1) + 1) : r[k] = q[(i + 1) + k - 1]
    BY <2>1, SubSeqProperties
  <2> HIDE DEF r
  <2>3. QED
    BY <1>1, <2>2
<1> HIDE DEF p, r
<1>4. /\ p \o r \in Seq(S) /\ Len(p \o r) = Len(p) + Len(r)
      /\ \A k \in 1..(Len(p) + Len(r)) :
            (p \o r)[k] = IF k <= Len(p) THEN p[k] ELSE r[k - Len(p)]
  BY <1>2, <1>3, ConcatProperties
<1>5. Len(p) + Len(r) = Len(q) - 1 /\ DOMAIN (p \o r) = 1..(Len(q) - 1)
  <2>1. Len(p) + Len(r) = Len(q) - 1
    BY <1>1, <1>2, <1>3
  <2>2. DOMAIN (p \o r) = 1..Len(p \o r)
    BY <1>4, LenProperties
  <2>3. QED
    BY <2>1, <2>2, <1>4
<1>6. ASSUME NEW k \in 1..(Len(q) - 1)
      PROVE  (p \o r)[k] = q[IF k < i THEN k ELSE k + 1]
  <2>1. CASE k < i
    <3>1. k \in 1..(i - 1) /\ k <= i - 1
      BY <2>1, <1>1
    <3>2. (p \o r)[k] = p[k]
      BY <3>1, <1>2, <1>4, <1>5
    <3>3. QED
      BY <2>1, <3>1, <3>2, <1>2
  <2>2. CASE ~(k < i)
    <3>1. k - (i - 1) \in 1..(Len(q) - i) /\ i + (k - (i - 1)) = k + 1 /\ ~(k <= i - 1)
      BY <2>2, <1>1
    <3>2. (p \o r)[k] = r[k - (i - 1)]
      BY <3>1, <1>2, <1>4, <1>5
    <3>3. QED
      BY <2>2, <3>1, <3>2, <1>3
  <2>3. QED
    BY <2>1, <2>2
<1>7. RemoveAt(q, i) = p \o r
  BY DEF RemoveAt, p, r
<1>8. QED
  BY <1>4, <1>5, <1>6, <1>7

(* The store when the message of command c is removed from it. *)
LEMMA StoreFacts ==
    ASSUME TypeOK, OneOfCommand, NEW c
    PROVE  /\ StoreWithout(c) \in Seq(Sent)
           /\ \A s : s \in Range(StoreWithout(c)) <=> s \in Range(store) /\ msg[s].cmd # c
           /\ \A i, j \in DOMAIN StoreWithout(c) :
                  msg[StoreWithout(c)[i]].cmd = msg[StoreWithout(c)[j]].cmd => i = j
<1> DEFINE same == {i \in DOMAIN store : msg[store[i]].cmd = c}
           first == CHOOSE i \in same : \A j \in same : i <= j
<1>1. /\ store \in Seq(Sent) /\ Len(store) \in Nat /\ DOMAIN store = 1..Len(store)
      /\ \A i \in DOMAIN store : store[i] \in Sent
      /\ Range(store) \subseteq Sent
  BY Elements DEF TypeOK
<1>2. CASE same = {}
  <2>1. StoreWithout(c) = store
    BY <1>2 DEF StoreWithout
  <2>2. \A s \in Range(store) : msg[s].cmd # c
    BY <1>2 DEF Range
  <2>3. QED
    BY <2>1, <2>2, <1>1 DEF OneOfCommand
<1>3. ASSUME NEW a \in same
      PROVE  /\ StoreWithout(c) \in Seq(Sent)
             /\ \A s : s \in Range(StoreWithout(c)) <=> s \in Range(store) /\ msg[s].cmd # c
             /\ \A i, j \in DOMAIN StoreWithout(c) :
                    msg[StoreWithout(c)[i]].cmd = msg[StoreWithout(c)[j]].cmd => i = j
  <2>1. a \in 1..Len(store) /\ msg[store[a]].cmd = c /\ same = {a}
    BY <1>1 DEF OneOfCommand
  <2>2. first = a
    BY <2>1
  <2>3. StoreWithout(c) = RemoveAt(store, a)
    BY <2>1, <2>2 DEF StoreWithout
  <2> DEFINE q == StoreWithout(c)
  <2>4. /\ q \in Seq(Sent) /\ DOMAIN q = 1..(Len(store) - 1)
        /\ \A k \in 1..(Len(store) - 1) : q[k] = store[IF k < a THEN k ELSE k + 1]
    <3>1. store \in Seq(Sent) /\ a \in DOMAIN store
      BY <1>1, <2>1
    <3>2. /\ RemoveAt(store, a) \in Seq(Sent) /\ DOMAIN RemoveAt(store, a) = 1..(Len(store) - 1)
          /\ \A k \in 1..(Len(store) - 1) :
                RemoveAt(store, a)[k] = store[IF k < a THEN k ELSE k + 1]
      BY <3>1, RemoveAtFacts
    <3>3. QED
      BY <2>3, <3>2
  <2> HIDE DEF q, first, same
  <2>5. ASSUME NEW k \in DOMAIN q
        PROVE  q[k] \in Range(store) /\ msg[q[k]].cmd # c
    <3>1. PICK i \in DOMAIN store : i # a /\ q[k] = store[i]
      <4>1. (IF k < a THEN k ELSE k + 1) \in 1..Len(store) \ {a}
        BY <1>1, <2>1, <2>4
      <4>2. QED
        BY <4>1, <1>1, <2>4
    <3>2. msg[store[i]].cmd # c
      BY <2>1, <3>1, <1>1 DEF OneOfCommand
    <3>3. QED
      BY <3>1, <3>2 DEF Range
  <2>6. ASSUME NEW i \in DOMAIN store, msg[store[i]].cmd # c
        PROVE  store[i] \in Range(q)
    <3>1. i # a
      BY <2>1, <2>6
    <3>2. PICK k \in DOMAIN q : q[k] = store[i]
      <4>1. CASE i < a
        <5>1. i \in 1..(Len(store) - 1)
          BY <4>1, <1>1, <2>1
        <5>2. QED
          BY <4>1, <5>1, <2>4
      <4>2. CASE a < i
        <5>1. i - 1 \in 1..(Len(store) - 1) /\ ~(i - 1 < a) /\ (i - 1) + 1 = i
          BY <4>2, <1>1, <2>1
        <5>2. QED
          BY <5>1, <2>4
      <4>3. QED
        BY <4>1, <4>2, <3>1, <1>1, <2>1
    <3>3. QED
      BY <3>2 DEF Range
  <2>7. ASSUME NEW i \in DOMAIN q, NEW j \in DOMAIN q, msg[q[i]].cmd = msg[q[j]].cmd
        PROVE  i = j
    <3>1. /\ (IF i < a THEN i ELSE i + 1) \in DOMAIN store
          /\ (IF j < a THEN j ELSE j + 1) \in DOMAIN store
      BY <1>1, <2>1, <2>4
    <3>2. (IF i < a THEN i ELSE i + 1) = (IF j < a THEN j ELSE j + 1)
      BY <3>1, <2>4, <2>7 DEF OneOfCommand
    <3>3. QED
      BY <3>2, <2>1, <2>4
  <2>8. \A s : s \in Range(q) <=> s \in Range(store) /\ msg[s].cmd # c
    BY <2>5, <2>6 DEF Range
  <2>9. QED
    BY <2>4, <2>7, <2>8 DEF q
<1>4. QED
  BY <1>2, <1>3

(* The passage of the sends, with what the counter and the store need for their types. *)
PassageInv == TypeOK /\ HandledInv /\ OrderInv /\ CountInv /\ OneOfCommand

(* No message is under way at first. *)
LEMMA PassageInit == Init => PassageInv
<1> SUFFICES ASSUME Init
             PROVE  PassageInv
  OBVIOUS
<1>1. Sent = {} /\ AtWorker = {} /\ \A w \in Windows : Behind(w) = {}
  BY SmallRanges DEF Init, Sent, AtWorker, Behind
<1>2. TypeOK
  BY <1>1, BoundsAssumption DEF Init, TypeOK, Windows
<1>3. HandledInv /\ UnsentInv
  BY DEF Init, HandledInv, UnsentInv
<1>4. BacklogInv /\ WorkerInv /\ PlacedInv /\ QueuedInOrder
  BY <1>1, SmallRanges
     DEF Init, BacklogInv, WorkerInv, PlacedInv, QueuedInOrder, InCallOrder
<1>5. CountInv /\ OneOfCommand
  <2>1. Cardinality({}) = 0
    BY FS_EmptySet
  <2>2. QED
    BY <2>1 DEF Init, CountInv, OneOfCommand
<1>6. QED
  BY <1>2, <1>3, <1>4, <1>5 DEF PassageInv, OrderInv

(* The count of active messages depends on four variables. *)
LEMMA CountKept ==
    ASSUME CountInv, OneOfCommand, UNCHANGED <<callbacks, active, msg, store>>
    PROVE  CountInv' /\ OneOfCommand'
BY DEF CountInv, OneOfCommand

(* A window that becomes ready keeps the passage invariant. *)
LEMMA PassageReady ==
    ASSUME PassageInv, NEW w \in Windows, BecomeReady(w), link[w] \in {"starting", "granted"},
           listening' \subseteq Windows
    PROVE  PassageInv'
<1> USE DEF PassageInv
<1>1. OrderInv'
  BY ReadyStep
<1>2. /\ UNCHANGED <<sendVars, workerVars, back, pageVars, store, handled>>
      /\ link' = [link EXCEPT ![w] = "ready"]
      /\ channel' = [channel EXCEPT ![w] = @ \o queue[w]]
      /\ queue' = [queue EXCEPT ![w] = <<>>]
  BY DEF BecomeReady, ProcessQueue
<1>3. channel[w] \o queue[w] \in Seq(Sent)
  BY ConcatRange DEF TypeOK
<1>4. channel' \in [Windows -> Seq(Sent)] /\ queue' \in [Windows -> Seq(Sent)]
  BY <1>2, <1>3 DEF TypeOK
<1>5. TypeOK'
  BY <1>2, <1>4 DEF TypeOK, Sent, sendVars, workerVars, pageVars
<1>6. HandledInv'
  BY <1>2 DEF HandledInv, workerVars
<1>7. CountInv' /\ OneOfCommand'
  BY <1>2, CountKept DEF sendVars, pageVars
<1>8. QED
  BY <1>1, <1>5, <1>6, <1>7

(* The handshake of an iframe keeps the passage invariant. *)
LEMMA PassagePorts ==
    ASSUME PassageInv, NEW w \in Iframes, GrantPort(w) \/ StartIframe(w) \/ HandlePort(w)
    PROVE  PassageInv'
<1> USE DEF PassageInv
<1>1. /\ UNCHANGED <<sendVars, queue, channel, workerVars, back, pageVars, store, handled>>
      /\ \/ link' = link
         \/ link[w] = "absent" /\ link' = [link EXCEPT ![w] = "asking"]
         \/ link[w] = "asking" /\ link' = [link EXCEPT ![w] = "granted"]
      /\ listening' \in {listening, listening \cup {w}}
  BY DEF GrantPort, StartIframe, HandlePort, OnlyLink
<1>2. \A v \in Windows : \/ link'[v] = link[v]
                         \/ link[v] = "absent" /\ link'[v] = "asking"
                         \/ link[v] = "asking" /\ link'[v] = "granted"
  BY <1>1 DEF TypeOK
<1>3. OrderInv'
  BY <1>1, <1>2, ElsewhereStep DEF workerVars, pageVars
<1>4. /\ link' \in [Windows -> {"absent", "starting", "asking", "granted", "ready", "gone"}]
      /\ listening' \subseteq Windows
  <2>1. /\ link \in [Windows -> {"absent", "starting", "asking", "granted", "ready", "gone"}]
        /\ listening \subseteq Windows /\ w \in Windows
    BY DEF TypeOK, Windows
  <2> HIDE DEF PassageInv
  <2>2. QED
    BY <1>1, <2>1
<1>5. TypeOK'
  BY <1>1, <1>4 DEF TypeOK, Sent, sendVars, workerVars, pageVars
<1>6. HandledInv'
  BY <1>1 DEF HandledInv, workerVars
<1>7. CountInv' /\ OneOfCommand'
  BY <1>1, CountKept DEF sendVars, pageVars
<1>8. QED
  BY <1>3, <1>5, <1>6, <1>7

(* A window that goes away keeps the passage invariant. *)
LEMMA PassageLeaves ==
    ASSUME PassageInv, NEW w \in Windows, IframeLeaves(w)
    PROVE  PassageInv'
<1> USE DEF PassageInv
<1>1. OrderInv'
  BY LeaveStep
<1>2. /\ link' = [link EXCEPT ![w] = "gone"] /\ queue' = [queue EXCEPT ![w] = <<>>]
      /\ back' = [back EXCEPT ![w] = <<>>] /\ callbacks' = [callbacks EXCEPT ![w] = {}]
      /\ active' = [active EXCEPT ![w] = 0]
      /\ UNCHANGED <<listening, sendVars, channel, workerVars, promise, store, handled>>
  BY DEF IframeLeaves
<1>3. /\ link' \in [Windows -> {"absent", "starting", "asking", "granted", "ready", "gone"}]
      /\ queue' \in [Windows -> Seq(Sent)]
      /\ back' \in [Windows -> Seq([send : Sent, err : BOOLEAN])]
      /\ callbacks' \in [Windows -> SUBSET Sent] /\ active' \in [Windows -> Nat]
  <2>1. /\ link \in [Windows -> {"absent", "starting", "asking", "granted", "ready", "gone"}]
        /\ queue \in [Windows -> Seq(Sent)]
        /\ back \in [Windows -> Seq([send : Sent, err : BOOLEAN])]
        /\ callbacks \in [Windows -> SUBSET Sent] /\ active \in [Windows -> Nat]
    BY DEF TypeOK
  <2>2. <<>> \in Seq(Sent) /\ <<>> \in Seq([send : Sent, err : BOOLEAN])
    OBVIOUS
  <2> HIDE DEF PassageInv
  <2>3. QED
    BY <1>2, <2>1, <2>2
<1>4. TypeOK'
  BY <1>2, <1>3 DEF TypeOK, Sent, sendVars, workerVars
<1>5. HandledInv'
  BY <1>2 DEF HandledInv, workerVars
<1>6. CountInv'
  <2>1. Cardinality({}) = 0
    BY FS_EmptySet
  <2>2. QED
    BY <2>1, <1>2 DEF CountInv, TypeOK
<1>7. OneOfCommand'
  BY <1>2 DEF OneOfCommand, sendVars
<1>8. QED
  BY <1>1, <1>4, <1>5, <1>6, <1>7

(* A message taken by the worker keeps the passage invariant. *)
LEMMA PassageReceives ==
    ASSUME PassageInv, NEW w \in Windows, WorkerReceives(w)
    PROVE  PassageInv'
<1> USE DEF PassageInv
<1>1. OrderInv'
  BY ReceiveStep
<1> DEFINE h == Head(channel[w])
           c == msg[h].cmd
<1>2. /\ UNCHANGED <<windowVars, sendVars, queue, back, pageVars, store, handled>>
      /\ channel[w] # <<>> /\ channel' = [channel EXCEPT ![w] = Tail(@)]
      /\ msgQueue' = IF msg[h].queued THEN [msgQueue EXCEPT ![c] = Append(@, h)] ELSE msgQueue
      /\ xhr' \in {xhr, [xhr EXCEPT ![h] = "sent"]}
      /\ lastAttempt' \in {lastAttempt, lastAttempt \cup {h}}
  BY DEF WorkerReceives
<1>3. h \in Sent /\ Tail(channel[w]) \in Seq(Sent) /\ h \in Range(channel[w])
  <2>1. channel[w] \in Seq(Sent)
    BY DEF TypeOK
  <2>2. QED
    BY <1>2, <2>1, TailRange
<1>4. c \in Cmds /\ h \in Sends /\ h \in Behind(w)
  BY <1>3, SentFacts, MessageFacts DEF Behind
<1> HIDE DEF h, c
<1>5. Append(msgQueue[c], h) \in Seq(Sent)
  BY <1>3, <1>4, AppendFacts DEF TypeOK
<1>6. /\ channel' \in [Windows -> Seq(Sent)] /\ msgQueue' \in [Cmds -> Seq(Sent)]
      /\ xhr' \in [Sends -> XhrStates] /\ lastAttempt' \subseteq Sends
  BY <1>2, <1>3, <1>4, <1>5 DEF TypeOK, XhrStates
<1>7. TypeOK'
  BY <1>2, <1>6 DEF TypeOK, XhrStates, Sent, windowVars, sendVars, pageVars
<1>8. xhr[h] = "unsent"
  <2>1. from[h] = w /\ h <= h
    BY <1>4, BoundsAssumption DEF OrderInv, BacklogInv, Sends
  <2>2. QED
    BY <2>1, <1>3, <1>4 DEF OrderInv, BacklogInv
<1>9. HandledInv'
  <2>1. \A s \in Sends : /\ handled[s] \in 0..2
                         /\ s # h => /\ xhr'[s] = xhr[s]
                                     /\ s \in lastAttempt' <=> s \in lastAttempt
                         /\ s = h => xhr'[s] \in {"unsent", "sent"}
    BY <1>2, <1>4, <1>8 DEF TypeOK
  <2>2. QED
    BY <1>2, <1>8, <2>1 DEF HandledInv
<1>10. CountInv' /\ OneOfCommand'
  BY <1>2, CountKept DEF sendVars, pageVars
<1>11. QED
  BY <1>1, <1>7, <1>9, <1>10

(* An answer read by a window keeps the passage invariant. *)
LEMMA PassageReads ==
    ASSUME PassageInv, NEW w \in Windows, OnWorkerMessage(w)
    PROVE  PassageInv'
<1> USE DEF PassageInv
<1> DEFINE s == Read(w).send
<1>1. /\ UNCHANGED <<windowVars, sendVars, queue, channel, workerVars, handled>>
      /\ back[w] # <<>> /\ back' = [back EXCEPT ![w] = Tail(@)]
      /\ s \in callbacks[w] /\ s \in Sent
      /\ callbacks' = [callbacks EXCEPT ![w] = @ \ {s}]
      /\ active' = [active EXCEPT ![w] = @ - 1]
      /\ store' \in {store, Append(StoreWithout(msg[s].cmd), s)}
      /\ promise' \in [Sends -> {"open", "resolved", "rejected"}]
      /\ \A t \in Sends \ {s} : promise'[t] = promise[t]
  BY ReadStep
<1> HIDE DEF s
<1>2. OrderInv'
  <2>1. \A v \in Windows : link'[v] = link[v]
    BY <1>1 DEF windowVars
  <2>2. \A t \in Sends \ Sent : promise'[t] = promise[t]
    BY <1>1
  <2>3. UNCHANGED <<sendVars, queue, channel, msgQueue, xhr>>
    BY <1>1 DEF workerVars
  <2>4. QED
    BY <2>1, <2>2, <2>3, ElsewhereStep
<1>3. HandledInv'
  BY <1>1 DEF HandledInv, workerVars
<1>4. CountInv' /\ active' \in [Windows -> Nat]
  <2>1. IsFiniteSet(callbacks[w])
    <3>1. /\ Sent = 1..Len(msg) /\ Len(msg) \in Nat /\ callbacks[w] \in SUBSET Sent
      BY SentFacts DEF TypeOK
    <3>2. IsFiniteSet(1..Len(msg))
      BY <3>1, FS_Interval
    <3>3. QED
      BY <3>1, <3>2, FS_Subset
  <2>2. Cardinality(callbacks[w] \ {s}) = Cardinality(callbacks[w]) - 1
    BY <1>1, <2>1, FS_RemoveElement
  <2>3. Cardinality(callbacks[w] \ {s}) \in Nat
    BY <2>1, FS_RemoveElement, FS_CardinalityType
  <2>4. active \in [Windows -> Nat] /\ callbacks \in [Windows -> SUBSET Sent]
    BY DEF TypeOK
  <2>5. \A v \in Windows : active[v] = Cardinality(callbacks[v])
    BY DEF CountInv
  <2> HIDE DEF PassageInv
  <2>6. ASSUME NEW v \in Windows
        PROVE  active'[v] = Cardinality(callbacks'[v]) /\ active'[v] \in Nat
    <3>1. CASE v = w
      <4>1. active'[v] = active[w] - 1 /\ callbacks'[v] = callbacks[w] \ {s}
        BY <1>1, <2>4, <3>1
      <4>2. active[w] = Cardinality(callbacks[w])
        BY <2>5
      <4>3. QED
        BY <4>1, <4>2, <2>2, <2>3
    <3>2. CASE v # w
      BY <1>1, <2>4, <2>5, <3>2
    <3>3. QED
      BY <3>1, <3>2
  <2>7. active' = [v \in Windows |-> active'[v]]
    BY <1>1, <2>4
  <2>8. QED
    BY <2>6, <2>7 DEF CountInv
<1>5. store' \in Seq(Sent) /\ OneOfCommand'
  <2>1. CASE store' = store
    BY <2>1, <1>1 DEF TypeOK, OneOfCommand, sendVars
  <2>2. CASE store' = Append(StoreWithout(msg[s].cmd), s)
    <3> DEFINE q == StoreWithout(msg[s].cmd)
    <3>1. /\ q \in Seq(Sent) /\ \A t \in Range(q) : msg[t].cmd # msg[s].cmd
          /\ \A i, j \in DOMAIN q : msg[q[i]].cmd = msg[q[j]].cmd => i = j
      BY StoreFacts
    <3> HIDE DEF q
    <3>2. /\ Append(q, s) \in Seq(Sent) /\ DOMAIN Append(q, s) = 1..(Len(q) + 1)
          /\ \A i \in 1..Len(q) : Append(q, s)[i] = q[i]
          /\ Append(q, s)[Len(q) + 1] = s
      BY <1>1, <3>1, AppendFacts
    <3>3. /\ Len(q) \in Nat /\ DOMAIN q = 1..Len(q) /\ \A i \in DOMAIN q : q[i] \in Range(q)
      BY <3>1, Elements
    <3>4. ASSUME NEW i \in 1..(Len(q) + 1), NEW j \in 1..(Len(q) + 1),
                 msg[Append(q, s)[i]].cmd = msg[Append(q, s)[j]].cmd
          PROVE  i = j
      <4>1. \A k \in 1..(Len(q) + 1) : k = Len(q) + 1 \/ k \in DOMAIN q
        BY <3>3
      <4>2. QED
        BY <3>1, <3>2, <3>3, <3>4, <4>1
    <3>5. store' = Append(q, s) /\ msg' = msg
      BY <1>1, <2>2 DEF q, sendVars
    <3>6. QED
      BY <3>2, <3>4, <3>5 DEF OneOfCommand
  <2>3. QED
    BY <1>1, <2>1, <2>2
<1>6. back' \in [Windows -> Seq([send : Sent, err : BOOLEAN])]
  <2>1. back[w] \in Seq([send : Sent, err : BOOLEAN])
    BY DEF TypeOK
  <2>2. Tail(back[w]) \in Seq([send : Sent, err : BOOLEAN])
    BY <1>1, <2>1, TailRange
  <2>3. QED
    BY <1>1, <2>2 DEF TypeOK
<1>7. callbacks' \in [Windows -> SUBSET Sent]
  BY <1>1 DEF TypeOK
<1>8. TypeOK'
  BY <1>1, <1>4, <1>5, <1>6, <1>7 DEF TypeOK, Sent, windowVars, sendVars, workerVars
<1>9. QED
  BY <1>2, <1>3, <1>4, <1>5, <1>8

(* New sends keep the passage invariant. *)
LEMMA PassageSends ==
    ASSUME PassageInv, NEW w \in Windows, NEW ms, NEW cs, Alive(w), Sendable(ms, cs),
           Sending(w, ms, cs), store' \in {store, <<>>}
    PROVE  PassageInv'
<1> USE DEF PassageInv
<1>1. OrderInv' /\ CountInv'
  BY SendStep, SendCount
<1>2. /\ store \in Seq(Sent) /\ Sent \subseteq Sent'
      /\ \A s \in Sent : msg'[s] = msg[s]
  BY NewSends DEF TypeOK
<1>3. store' \in Seq(Sent')
  <2>1. Seq(Sent) \subseteq Seq(Sent')
    BY <1>2, SeqMonotonic
  <2>2. <<>> \in Seq(Sent')
    OBVIOUS
  <2>3. QED
    BY <1>2, <2>1, <2>2
<1>4. TypeOK' /\ UNCHANGED <<xhr, lastAttempt, handled>>
  BY <1>3, SendTypes
<1>5. HandledInv'
  BY <1>4 DEF HandledInv
<1>6. OneOfCommand'
  <2>1. CASE store' = <<>>
    BY <2>1 DEF OneOfCommand
  <2>2. CASE store' = store
    <3>1. \A i \in DOMAIN store : store[i] \in Sent
      BY <1>2, Elements
    <3>2. QED
      BY <2>2, <3>1, <1>2 DEF OneOfCommand
  <2>3. QED
    BY <2>1, <2>2
<1>7. QED
  BY <1>1, <1>4, <1>5, <1>6

(* The end of a request of the worker keeps the passage invariant. *)
LEMMA PassageAnswers ==
    ASSUME PassageInv, NEW s \in Sent, XhrLoads(s) \/ XhrBreaks(s)
    PROVE  PassageInv'
<1> USE DEF PassageInv
<1>1. /\ UNCHANGED <<windowVars, sendVars, queue, channel, pageVars, store, handled>>
      /\ xhr[s] \in UnderWay /\ s \in Sends
  BY SentFacts DEF XhrLoads, XhrBreaks, UnderWay
<1>2. CountInv' /\ OneOfCommand'
  BY <1>1, CountKept DEF sendVars, pageVars
<1>3. ASSUME NEW err \in BOOLEAN, Callback(s, err),
             lastAttempt' \in {lastAttempt, lastAttempt \cup {s}}
      PROVE  PassageInv'
  <2>1. TypeOK' /\ HandledInv'
    BY <1>1, <1>3, AnswerTypes
  <2>2. OrderInv'
    BY <1>1, <1>3, AnswerStep DEF windowVars, pageVars
  <2>3. QED
    BY <1>2, <2>1, <2>2
<1>4. CASE XhrLoads(s)
  <2>1. Callback(s, xhr[s] = "refused") /\ (xhr[s] = "refused") \in BOOLEAN
        /\ lastAttempt' \in {lastAttempt, lastAttempt \cup {s}}
    BY <1>4 DEF XhrLoads
  <2>2. QED
    BY <1>3, <2>1
<1>5. CASE XhrBreaks(s) /\ s \in lastAttempt
  <2>1. Callback(s, TRUE) /\ lastAttempt' = lastAttempt
    BY <1>5 DEF XhrBreaks
  <2>2. QED
    BY <1>3, <2>1
<1>6. CASE XhrBreaks(s) /\ s \notin lastAttempt
  <2>1. /\ xhr' = [xhr EXCEPT ![s] = "sent"] /\ lastAttempt' = lastAttempt \cup {s}
        /\ UNCHANGED <<back, msgQueue>>
    BY <1>6 DEF XhrBreaks
  <2>2. /\ xhr'[s] = "sent" /\ \A t \in Sends \ {s} : xhr'[t] = xhr[t]
        /\ xhr' \in [Sends -> XhrStates]
    BY <1>1, <2>1 DEF TypeOK, XhrStates
  <2>3. OrderInv'
    BY <1>1, <2>1, <2>2, UnderWayStep DEF UnderWay, windowVars, pageVars
  <2>4. TypeOK'
    BY <1>1, <2>1, <2>2 DEF TypeOK, XhrStates, Sent, windowVars, sendVars, pageVars
  <2>5. HandledInv'
    <3>1. handled' = handled /\ \A t \in Sends : handled[t] \in 0..2
      BY <1>1 DEF TypeOK
    <3>2. handled[s] <= 1
      BY <1>1, <1>6, <3>1 DEF HandledInv, UnderWay
    <3>3. QED
      BY <2>1, <2>2, <3>1, <3>2 DEF HandledInv
  <2>6. QED
    BY <1>2, <2>3, <2>4, <2>5
<1>7. QED
  BY <1>4, <1>5, <1>6

(* A message handled by the server keeps the passage invariant. *)
LEMMA PassageHandles ==
    ASSUME PassageInv, NEW s \in Sent, NEW ok \in BOOLEAN, ServerHandles(s, ok)
    PROVE  PassageInv'
<1> USE DEF PassageInv
<1>1. /\ UNCHANGED <<windowVars, sendVars, queue, channel, msgQueue, lastAttempt, back, pageVars,
                     store>>
      /\ xhr[s] = "sent" /\ xhr' = [xhr EXCEPT ![s] = IF ok THEN "done" ELSE "refused"]
      /\ handled' = [handled EXCEPT ![s] = @ + IF ok THEN 1 ELSE 0]
      /\ s \in Sends
  BY SentFacts DEF ServerHandles
<1>2. /\ xhr'[s] = (IF ok THEN "done" ELSE "refused")
      /\ \A t \in Sends \ {s} : xhr'[t] = xhr[t]
      /\ xhr' \in [Sends -> XhrStates]
  BY <1>1 DEF TypeOK, XhrStates
<1>3. \A t \in Sends : handled[t] \in 0..2
  BY DEF TypeOK
<1>4. handled[s] <= IF s \in lastAttempt THEN 1 ELSE 0
  BY <1>1 DEF HandledInv
<1>5. /\ handled' \in [Sends -> 0..2]
      /\ \A t \in Sends : handled'[t] = IF t = s /\ ok THEN handled[t] + 1 ELSE handled[t]
  <2>1. handled \in [Sends -> 0..2]
    BY DEF TypeOK
  <2>2. handled[s] + (IF ok THEN 1 ELSE 0) \in 0..2
    BY <1>1, <1>3, <1>4
  <2> HIDE DEF PassageInv
  <2>3. QED
    BY <1>1, <1>3, <2>1, <2>2
<1>6. OrderInv'
  BY <1>1, <1>2, UnderWayStep DEF UnderWay, windowVars, pageVars
<1>7. TypeOK'
  BY <1>1, <1>2, <1>5 DEF TypeOK, XhrStates, Sent, windowVars, sendVars, pageVars
<1>8. HandledInv'
  BY <1>1, <1>2, <1>3, <1>4, <1>5 DEF HandledInv
<1>9. CountInv' /\ OneOfCommand'
  BY <1>1, CountKept DEF sendVars, pageVars
<1>10. QED
  BY <1>6, <1>7, <1>8, <1>9

(* Every step keeps the passage invariant. *)
LEMMA PassageStep == PassageInv /\ [Next]_vars => PassageInv'
<1> SUFFICES ASSUME PassageInv, [Next]_vars
             PROVE  PassageInv'
  OBVIOUS
<1>1. Top \in Windows /\ Iframes \subseteq Windows
  BY DEF Windows
<1>2. CASE StartTop
  BY <1>1, <1>2, PassageReady DEF StartTop, PassageInv, TypeOK
<1>3. ASSUME NEW w \in Iframes, SetMessagePort(w)
      PROVE  PassageInv'
  BY <1>1, <1>3, PassageReady DEF SetMessagePort, PassageInv, TypeOK
<1>4. ASSUME NEW w \in Windows, NEW m \in Shapes, AsyncServiceMsg(w, m)
      PROVE  PassageInv'
  <2>1. Sendable(<<m>>, <<Len(msg) + 1>>) /\ Sending(w, <<m>>, <<Len(msg) + 1>>)
    BY <1>4, AsyncSends DEF PassageInv
  <2>2. Alive(w) /\ store' = store
    BY <1>4 DEF AsyncServiceMsg
  <2>3. QED
    BY <2>1, <2>2, PassageSends
<1>5. ASSUME NEW w \in Windows, BatchUpdate(w)
      PROVE  PassageInv'
  <2>1. Sendable(Stored, Repeated) /\ Sending(w, Stored, Repeated) /\ store' = <<>>
    BY <1>5, StoredSends DEF PassageInv
  <2>2. Alive(w)
    BY <1>5 DEF BatchUpdate
  <2>3. QED
    BY <2>1, <2>2, PassageSends
<1>6. CASE UNCHANGED vars
  <2>1. UNCHANGED <<link, listening, msg, from, copyOf, queue, channel, msgQueue, xhr,
                    lastAttempt, back, callbacks, active, promise, store, handled>>
    BY <1>6 DEF vars, windowVars, sendVars, workerVars, pageVars
  <2>2. TypeOK' /\ HandledInv' /\ CountInv' /\ OneOfCommand'
    BY <2>1 DEF PassageInv, TypeOK, Sent, HandledInv, CountInv, OneOfCommand
  <2>3. OrderInv'
    BY <2>1, ElsewhereStep DEF PassageInv, sendVars
  <2>4. QED
    BY <2>2, <2>3 DEF PassageInv
<1>7. QED
  BY <1>1, <1>2, <1>3, <1>4, <1>5, <1>6, PassagePorts, PassageLeaves, PassageReceives,
     PassageReads, PassageAnswers, PassageHandles
     DEF Next, Ports, Delivery

(* Every variable keeps its type: a window's queue, channel, callbacks and counter, the     *)
(* worker's queues and the store only ever hold sends, and the server handles a send at     *)
(* most twice (Transport, TransportWorker).                                                 *)
THEOREM TypeCorrect == Spec => []TypeOK
<1>1. PassageInv => TypeOK
  BY DEF PassageInv
<1>2. QED
  BY <1>1, PassageInit, PassageStep, PTL DEF Spec

(* Messages of one command that a window queues reach the server one after the other in     *)
(* the order of the calls, for any number of windows, messages and XHRs that break          *)
(* (queuedAsyncServiceMsg).                                                                 *)
THEOREM SendsInOrder == Spec => []QueuedInOrder
<1>1. PassageInv => QueuedInOrder
  BY DEF PassageInv, OrderInv
<1>2. QED
  BY <1>1, PassageInit, PassageStep, PTL DEF Spec

-----------------------------------------------------------------------------
(* Callbacks and answers *)

(* A step that touches neither callbacks nor answers. *)
LEMMA CallbacksKept ==
    ASSUME TypeOK, OrderInv, CallbackInv, UNCHANGED <<sendVars, callbacks, back, promise>>,
           \A w \in Windows : \/ Alive(w)' <=> Alive(w)
                              \/ link[w] = "absent",
           \A s \in Sends : xhr'[s] = "over" <=> xhr[s] = "over",
           \A s \in Sends : handled[s] > 0 => handled'[s] > 0
    PROVE  CallbackInv'
<1>1. Sent' = Sent /\ Sent \subseteq Sends /\ \A w \in Windows : callbacks[w] \subseteq Sent
  BY SentFacts DEF Sent, sendVars, TypeOK
<1>2. ASSUME NEW w \in Windows, NEW i \in DOMAIN back[w]
      PROVE  back[w][i].send \in Sends
  <2>1. back[w] \in Seq([send : Sent, err : BOOLEAN])
    BY DEF TypeOK
  <2>2. back[w][i] \in [send : Sent, err : BOOLEAN]
    BY <2>1, Elements
  <2>3. QED
    BY <2>2, <1>1
<1>3. ASSUME NEW w \in Windows
      PROVE  /\ Alive(w)' => \A s \in Sent : from[s] = w /\ xhr[s] # "over" => s \in callbacks[w]
             /\ ~Alive(w)' => back[w] = <<>> /\ callbacks[w] = {}
  <2>1. CASE Alive(w)' <=> Alive(w)
    BY <2>1 DEF CallbackInv, OwnOpen, Expected, HeldUntilOver, NothingHeld
  <2>2. CASE link[w] = "absent"
    BY <2>2 DEF CallbackInv, OwnOpen, Expected, HeldUntilOver, NothingHeld,
       OrderInv, BacklogInv, Alive
  <2>3. QED
    BY <2>1, <2>2
<1>4. UNCHANGED <<from, callbacks, back, promise>>
  BY DEF sendVars
<1>5. QED
  BY <1>1, <1>2, <1>3, <1>4 DEF CallbackInv, OwnOpen, Expected, HeldUntilOver, NothingHeld

(* New sends have their callbacks. *)
LEMMA CallbacksSend ==
    ASSUME PassageInv, CallbackInv, NEW w \in Windows, NEW ms, NEW cs, Alive(w),
           Sendable(ms, cs), Sending(w, ms, cs)
    PROVE  CallbackInv'
<1> DEFINE New == Range(Numbers(ms))
<1>1. /\ UNCHANGED <<link, xhr, back, promise, handled>>
      /\ callbacks' = [callbacks EXCEPT ![w] = @ \cup New]
  BY DEF Sending, Post, windowVars, workerVars
<1>2. /\ Sent \subseteq Sent' /\ Sent' \subseteq Sends /\ New = Sent' \ Sent
      /\ \A s \in Sent : from'[s] = from[s]
      /\ \A s \in New : from'[s] = w
  <2>1. /\ Len(msg) \in Nat /\ Len(ms) \in Nat /\ Sent = 1..Len(msg)
        /\ Sent' = 1..(Len(msg) + Len(ms)) /\ New = (Len(msg) + 1)..(Len(msg) + Len(ms))
        /\ Sent \subseteq Sent' /\ Sent' \subseteq Sends
        /\ \A s \in Sent : from'[s] = from[s]
        /\ \A s \in Sent' \ Sent : from'[s] = w
    BY NewSends, SentFacts DEF PassageInv
  <2> HIDE DEF New
  <2>2. QED
    BY <2>1
<1> HIDE DEF New
<1>3. \A s \in New : promise[s] = "open" /\ xhr[s] = "unsent"
  BY <1>2 DEF PassageInv, OrderInv, UnsentInv
<1>4. /\ callbacks'[w] = callbacks[w] \cup New
      /\ \A v \in Windows \ {w} : callbacks'[v] = callbacks[v]
  BY <1>1 DEF PassageInv, TypeOK
<1>5. ASSUME NEW v \in Windows, NEW i \in DOMAIN back[v]
      PROVE  back[v][i].send \in Sent
  <2>1. back[v] \in Seq([send : Sent, err : BOOLEAN])
    BY DEF PassageInv, TypeOK
  <2>2. back[v][i] \in [send : Sent, err : BOOLEAN]
    BY <2>1, Elements
  <2>3. QED
    BY <2>2
<1>6. ASSUME NEW v \in Windows
      PROVE  /\ callbacks'[v] \subseteq {s \in Sent' : from'[s] = v /\ promise[s] = "open"}
             /\ Alive(v) => \A s \in Sent' : from'[s] = v /\ xhr[s] # "over" => s \in callbacks'[v]
             /\ ~Alive(v) => back[v] = <<>> /\ callbacks'[v] = {}
             /\ callbacks[v] \subseteq callbacks'[v]
  <2>1. CASE v = w
    BY <2>1, <1>2, <1>3, <1>4 DEF CallbackInv, OwnOpen, Expected, HeldUntilOver, NothingHeld
  <2>2. CASE v # w
    BY <2>2, <1>2, <1>3, <1>4 DEF CallbackInv, OwnOpen, Expected, HeldUntilOver, NothingHeld
  <2>3. QED
    BY <2>1, <2>2
<1>7. \A v \in Windows : \A i \in DOMAIN back[v] :
          LET s == back[v][i].send IN
          /\ from'[s] = v /\ xhr[s] = "over" /\ s \in callbacks'[v]
          /\ ~back[v][i].err => handled[s] > 0
          /\ \A j \in DOMAIN back[v] : back[v][j].send = s => j = i
  BY <1>2, <1>5, <1>6 DEF CallbackInv, OwnOpen, Expected, HeldUntilOver, NothingHeld
<1>8. \A v : Alive(v)' <=> Alive(v)
  BY <1>1 DEF Alive
<1>9. QED
  BY <1>1, <1>6, <1>7, <1>8 DEF CallbackInv, OwnOpen, Expected, HeldUntilOver, NothingHeld

(* The callbacks of a window that goes away go with it. *)
LEMMA CallbacksLeave ==
    ASSUME PassageInv, CallbackInv, NEW w \in Windows, IframeLeaves(w)
    PROVE  CallbackInv'
<1>1. /\ link' = [link EXCEPT ![w] = "gone"]
      /\ back' = [back EXCEPT ![w] = <<>>] /\ callbacks' = [callbacks EXCEPT ![w] = {}]
      /\ UNCHANGED <<msg, from, xhr, promise, handled>>
  BY DEF IframeLeaves, sendVars, workerVars
<1>2. /\ link'[w] = "gone" /\ back'[w] = <<>> /\ callbacks'[w] = {}
      /\ \A v \in Windows \ {w} : /\ link'[v] = link[v] /\ back'[v] = back[v]
                                 /\ callbacks'[v] = callbacks[v]
  BY <1>1 DEF PassageInv, TypeOK
<1>3. Sent' = Sent /\ DOMAIN <<>> = {}
  BY <1>1 DEF Sent
<1>4. QED
  BY <1>1, <1>2, <1>3 DEF CallbackInv, OwnOpen, Expected, HeldUntilOver, NothingHeld, Alive

(* The callback of an answer that is read is settled. *)
LEMMA CallbacksRead ==
    ASSUME PassageInv, CallbackInv, NEW w \in Windows, OnWorkerMessage(w)
    PROVE  CallbackInv'
<1> DEFINE s == Read(w).send
<1>1. /\ UNCHANGED <<windowVars, sendVars, queue, channel, workerVars, handled>>
      /\ back[w] # <<>> /\ back' = [back EXCEPT ![w] = Tail(@)]
      /\ s \in callbacks[w] /\ s \in Sent
      /\ callbacks' = [callbacks EXCEPT ![w] = @ \ {s}]
      /\ \A t \in Sends \ {s} : promise'[t] = promise[t]
  BY ReadStep DEF PassageInv
<1>2. back[w][1].send = s /\ 1 \in DOMAIN back[w] /\ xhr[s] = "over" /\ from[s] = w
  <2>1. back[w] \in Seq([send : Sent, err : BOOLEAN])
    BY DEF PassageInv, TypeOK
  <2>2. 1 \in DOMAIN back[w]
    BY <1>1, <2>1, Elements
  <2>3. back[w][1].send = s
    BY <1>1, <2>1 DEF Read
  <2>4. QED
    BY <2>2, <2>3 DEF CallbackInv, OwnOpen, Expected, HeldUntilOver, NothingHeld
<1>3. /\ DOMAIN back'[w] \subseteq Nat \ {0}
      /\ \A i \in DOMAIN back'[w] : i + 1 \in DOMAIN back[w] /\ back'[w][i] = back[w][i + 1]
  <2>1. back[w] \in Seq([send : Sent, err : BOOLEAN]) /\ back'[w] = Tail(back[w])
    BY <1>1 DEF PassageInv, TypeOK
  <2>2. /\ Tail(back[w]) \in Seq([send : Sent, err : BOOLEAN])
        /\ Len(Tail(back[w])) = Len(back[w]) - 1
        /\ \A i \in 1..Len(Tail(back[w])) : Tail(back[w])[i] = back[w][i + 1]
    BY <1>1, <2>1, HeadTailProperties
  <2>3. /\ DOMAIN Tail(back[w]) = 1..Len(Tail(back[w])) /\ DOMAIN back[w] = 1..Len(back[w])
        /\ Len(back[w]) \in Nat
    BY <2>1, <2>2, Elements
  <2>4. QED
    BY <2>1, <2>2, <2>3
<1>4. /\ UNCHANGED <<link, msg, from, xhr, handled>> /\ Sent' = Sent /\ Sent \subseteq Sends
      /\ callbacks'[w] = callbacks[w] \ {s}
      /\ \A v \in Windows \ {w} : back'[v] = back[v] /\ callbacks'[v] = callbacks[v]
  BY <1>1, SentFacts DEF PassageInv, TypeOK, windowVars, sendVars, workerVars, Sent
<1> HIDE DEF s
<1>5. ASSUME NEW v \in Windows
      PROVE  callbacks'[v] \subseteq {t \in Sent : from[t] = v /\ promise'[t] = "open"}
  BY <1>1, <1>2, <1>4 DEF CallbackInv, OwnOpen, Expected, HeldUntilOver, NothingHeld
<1>6. ASSUME NEW i \in DOMAIN back'[w]
      PROVE  LET t == back'[w][i].send IN
             /\ from[t] = w /\ xhr[t] = "over" /\ t \in callbacks'[w]
             /\ ~back'[w][i].err => handled[t] > 0
             /\ \A j \in DOMAIN back'[w] : back'[w][j].send = t => j = i
  <2> DEFINE t == back'[w][i].send
  <2>1. /\ i \in Nat /\ i + 1 \in DOMAIN back[w] /\ back'[w][i] = back[w][i + 1] /\ i # 0
        /\ i + 1 # 1
    BY <1>3
  <2>2. /\ from[t] = w /\ xhr[t] = "over" /\ t \in callbacks[w]
        /\ ~back'[w][i].err => handled[t] > 0
        /\ \A j \in DOMAIN back[w] : back[w][j].send = t => j = i + 1
    BY <2>1 DEF CallbackInv, OwnOpen, Expected, HeldUntilOver, NothingHeld
  <2>3. t # s
    BY <1>2, <2>1, <2>2
  <2>4. ASSUME NEW j \in DOMAIN back'[w], back'[w][j].send = t
        PROVE  j = i
    BY <1>3, <2>1, <2>2, <2>4
  <2>5. QED
    BY <2>2, <2>3, <2>4, <1>4
<1>7. \A v \in Windows :
        /\ Alive(v) => \A t \in Sent : from[t] = v /\ xhr[t] # "over" => t \in callbacks'[v]
        /\ ~Alive(v) => back'[v] = <<>> /\ callbacks'[v] = {}
  <2>1. ASSUME NEW v \in Windows, Alive(v), NEW t \in Sent, from[t] = v, xhr[t] # "over"
        PROVE  t \in callbacks'[v]
    BY <1>2, <1>4, <2>1 DEF CallbackInv, OwnOpen, Expected, HeldUntilOver, NothingHeld
  <2>2. ASSUME NEW v \in Windows, ~Alive(v)
        PROVE  back'[v] = <<>> /\ callbacks'[v] = {}
    BY <1>1, <1>4, <2>2 DEF CallbackInv, OwnOpen, Expected, HeldUntilOver, NothingHeld
  <2>3. QED
    BY <2>1, <2>2
<1>8. \A v : Alive(v)' <=> Alive(v)
  BY <1>4 DEF Alive
<1>9. \A v \in Windows \ {w} : \A i \in DOMAIN back'[v] :
          LET t == back'[v][i].send IN
          /\ from[t] = v /\ xhr[t] = "over" /\ t \in callbacks'[v]
          /\ ~back'[v][i].err => handled[t] > 0
          /\ \A j \in DOMAIN back'[v] : back'[v][j].send = t => j = i
  BY <1>4 DEF CallbackInv, OwnOpen, Expected, HeldUntilOver, NothingHeld
<1>10. ASSUME NEW v \in Windows
       PROVE  OwnOpen(v)' /\ Expected(v)' /\ HeldUntilOver(v)' /\ NothingHeld(v)'
  <2>1. OwnOpen(v)'
    BY <1>4, <1>5 DEF OwnOpen
  <2>2. Expected(v)'
    BY <1>4, <1>6, <1>9 DEF Expected
  <2>3. HeldUntilOver(v)' /\ NothingHeld(v)'
    BY <1>7, <1>8, <1>4 DEF HeldUntilOver, NothingHeld
  <2>4. QED
    BY <2>1, <2>2, <2>3
<1>11. QED
  BY <1>10 DEF CallbackInv

(* An answer goes to a callback that waits for it. *)
LEMMA CallbacksAnswer ==
    ASSUME PassageInv, CallbackInv, NEW s \in Sent, xhr[s] \in UnderWay, NEW err \in BOOLEAN,
           Callback(s, err), ~err => handled[s] > 0,
           UNCHANGED <<windowVars, sendVars, pageVars, handled>>
    PROVE  CallbackInv'
<1> DEFINE w == from[s]
           e == [send |-> s, err |-> err]
<1>1. /\ back' = IF Alive(w) THEN [back EXCEPT ![w] = Append(@, e)] ELSE back
      /\ \A t \in Sends : xhr'[t] = "over" <=> xhr[t] = "over" \/ t = s
  BY AnswerFacts, AnswerXhr DEF PassageInv
<1>2. /\ UNCHANGED <<link, msg, from, callbacks, promise, handled>> /\ Sent' = Sent
      /\ Sent \subseteq Sends /\ w \in Windows
  BY SentFacts DEF PassageInv, TypeOK, windowVars, sendVars, pageVars, Sent
<1>3. ASSUME NEW v \in Windows, NEW i \in DOMAIN back[v]
      PROVE  back[v][i].send \in Sends
  <2>1. back[v] \in Seq([send : Sent, err : BOOLEAN])
    BY DEF PassageInv, TypeOK
  <2>2. back[v][i] \in [send : Sent, err : BOOLEAN]
    BY <2>1, Elements
  <2>3. QED
    BY <2>2, <1>2
<1>4. \A v : Alive(v)' <=> Alive(v)
  BY <1>2 DEF Alive
<1>5. \A v \in Windows :
        /\ callbacks[v] \subseteq {t \in Sent : from[t] = v /\ promise[t] = "open"}
        /\ Alive(v) => \A t \in Sent : from[t] = v /\ xhr'[t] # "over" => t \in callbacks[v]
        /\ ~Alive(v) => callbacks[v] = {}
  BY <1>1, <1>2 DEF CallbackInv, OwnOpen, Expected, HeldUntilOver, NothingHeld
<1>6. ASSUME NEW v \in Windows, back'[v] = back[v]
      PROVE  Expected(v)'
  <2>1. \A i \in DOMAIN back[v] : xhr'[back[v][i].send] = "over"
    BY <1>1, <1>3 DEF CallbackInv, Expected
  <2>2. QED
    BY <1>2, <1>6, <2>1 DEF CallbackInv, Expected
<1> HIDE DEF e
<1>7. CASE ~Alive(w)
  <2>1. back' = back
    BY <1>1, <1>7
  <2>2. ASSUME NEW v \in Windows
        PROVE  OwnOpen(v)' /\ Expected(v)' /\ HeldUntilOver(v)' /\ NothingHeld(v)'
    <3>1. Expected(v)'
      BY <1>6, <2>1
    <3>2. OwnOpen(v)' /\ HeldUntilOver(v)' /\ NothingHeld(v)'
      BY <1>2, <1>4, <1>5, <2>1 DEF CallbackInv, OwnOpen, Expected, HeldUntilOver, NothingHeld
    <3>3. QED
      BY <3>1, <3>2
  <2>3. QED
    BY <2>2 DEF CallbackInv
<1>8. CASE Alive(w)
  <2>1. /\ back[w] \in Seq([send : Sent, err : BOOLEAN]) /\ e \in [send : Sent, err : BOOLEAN]
        /\ back'[w] = Append(back[w], e) /\ \A v \in Windows \ {w} : back'[v] = back[v]
    BY <1>1, <1>2, <1>8 DEF PassageInv, TypeOK, e
  <2>2. /\ DOMAIN back'[w] = 1..(Len(back[w]) + 1) /\ Len(back[w]) \in Nat
        /\ DOMAIN back[w] = 1..Len(back[w])
        /\ \A i \in 1..Len(back[w]) : back'[w][i] = back[w][i]
        /\ back'[w][Len(back[w]) + 1] = e
    BY <2>1, AppendFacts, Elements
  <2>3. /\ \A i \in DOMAIN back[w] : back[w][i].send # s
        /\ s \in callbacks[w]
    BY <1>8, <1>2 DEF CallbackInv, OwnOpen, Expected, HeldUntilOver, NothingHeld, UnderWay
  <2>4. ASSUME NEW i \in DOMAIN back[w]
        PROVE  LET t == back'[w][i].send IN
               /\ from[t] = w /\ xhr'[t] = "over" /\ t \in callbacks[w]
               /\ ~back'[w][i].err => handled[t] > 0
               /\ \A j \in DOMAIN back'[w] : back'[w][j].send = t => j = i
    <3> DEFINE t == back[w][i].send
    <3>1. back'[w][i] = back[w][i] /\ t # s /\ t \in Sends
      BY <2>2, <2>3, <1>2, <1>3
    <3>2. /\ from[t] = w /\ xhr[t] = "over" /\ t \in callbacks[w]
          /\ ~back[w][i].err => handled[t] > 0
          /\ \A j \in DOMAIN back[w] : back[w][j].send = t => j = i
      BY <1>2 DEF CallbackInv, OwnOpen, Expected, HeldUntilOver, NothingHeld
    <3>3. ASSUME NEW j \in DOMAIN back'[w], back'[w][j].send = t
          PROVE  j = i
      <4>1. CASE j \in DOMAIN back[w]
        BY <4>1, <3>2, <3>3, <2>2
      <4>2. CASE j = Len(back[w]) + 1
        BY <4>2, <3>1, <3>3, <2>2 DEF e
      <4>3. QED
        BY <4>1, <4>2, <2>2
    <3>4. QED
      BY <3>1, <3>2, <3>3, <1>1
  <2>5. LET i == Len(back[w]) + 1 IN
        /\ back'[w][i].send = s /\ from[s] = w /\ xhr'[s] = "over" /\ s \in callbacks[w]
        /\ ~back'[w][i].err => handled[s] > 0
        /\ \A j \in DOMAIN back'[w] : back'[w][j].send = s => j = i
    BY <1>1, <1>2, <1>8, <2>2, <2>3 DEF e
  <2>6. \A i \in DOMAIN back'[w] :
               LET t == back'[w][i].send IN
               /\ from[t] = w /\ xhr'[t] = "over" /\ t \in callbacks[w]
               /\ ~back'[w][i].err => handled[t] > 0
               /\ \A j \in DOMAIN back'[w] : back'[w][j].send = t => j = i
    <3>1. \A i \in DOMAIN back'[w] : i \in DOMAIN back[w] \/ i = Len(back[w]) + 1
      BY <2>2
    <3>2. QED
      BY <3>1, <2>4, <2>5
  <2>7. ASSUME NEW v \in Windows
        PROVE  OwnOpen(v)' /\ Expected(v)' /\ HeldUntilOver(v)' /\ NothingHeld(v)'
    <3>1. OwnOpen(v)' /\ HeldUntilOver(v)'
      BY <1>2, <1>4, <1>5 DEF OwnOpen, HeldUntilOver
    <3>2. Expected(v)'
      <4>1. CASE v = w
        BY <1>2, <2>6, <4>1 DEF Expected
      <4>2. CASE v # w
        BY <1>6, <2>1, <4>2
      <4>3. QED
        BY <4>1, <4>2
    <3>3. NothingHeld(v)'
      BY <1>2, <1>4, <1>5, <1>8, <2>1 DEF CallbackInv, NothingHeld
    <3>4. QED
      BY <3>1, <3>2, <3>3
  <2>8. QED
    BY <2>7 DEF CallbackInv
<1>9. QED
  BY <1>7, <1>8

(* Every step keeps the callback invariant. *)
LEMMA CallbackStep == PassageInv /\ CallbackInv /\ [Next]_vars => CallbackInv'
<1> SUFFICES ASSUME PassageInv, CallbackInv, [Next]_vars
             PROVE  CallbackInv'
  OBVIOUS
<1>1. /\ Top \in Windows /\ Iframes \subseteq Windows /\ Sent \subseteq Sends
      /\ link \in [Windows -> {"absent", "starting", "asking", "granted", "ready", "gone"}]
      /\ xhr \in [Sends -> XhrStates] /\ handled \in [Sends -> 0..2]
  BY SentFacts DEF Windows, PassageInv, TypeOK, XhrStates
<1>2. ASSUME UNCHANGED <<sendVars, callbacks, back, promise, xhr, handled>>,
             \A v \in Windows : \/ Alive(v)' <=> Alive(v)
                                \/ link[v] = "absent"
      PROVE  CallbackInv'
  BY <1>2, CallbacksKept DEF PassageInv
<1>3. ASSUME NEW w \in Windows, BecomeReady(w), link[w] \in {"starting", "granted"}
      PROVE  CallbackInv'
  BY <1>1, <1>2, <1>3 DEF BecomeReady, Alive, workerVars, pageVars
<1>4. ASSUME NEW w \in Iframes, GrantPort(w) \/ StartIframe(w) \/ HandlePort(w)
      PROVE  CallbackInv'
  <2>1. /\ UNCHANGED <<sendVars, workerVars, back, pageVars, handled>>
        /\ \/ link' = link
           \/ link[w] = "absent" /\ link' = [link EXCEPT ![w] = "asking"]
           \/ link[w] = "asking" /\ link' = [link EXCEPT ![w] = "granted"]
    BY <1>4 DEF GrantPort, StartIframe, HandlePort, OnlyLink
  <2>2. QED
    BY <1>1, <1>2, <2>1 DEF Alive, workerVars, pageVars
<1>5. CASE StartTop
  BY <1>1, <1>3, <1>5 DEF StartTop
<1>6. ASSUME NEW w \in Iframes, SetMessagePort(w)
      PROVE  CallbackInv'
  BY <1>1, <1>3, <1>6 DEF SetMessagePort
<1>7. ASSUME NEW w \in Windows, WorkerReceives(w)
      PROVE  CallbackInv'
  <2> DEFINE h == Head(channel[w])
  <2>1. /\ UNCHANGED <<windowVars, sendVars, back, pageVars, handled>>
        /\ channel[w] # <<>> /\ xhr' \in {xhr, [xhr EXCEPT ![h] = "sent"]}
    BY <1>7 DEF WorkerReceives
  <2>2. h \in Range(channel[w]) /\ h \in Sent
    <3>1. channel[w] \in Seq(Sent)
      BY DEF PassageInv, TypeOK
    <3>2. QED
      BY <2>1, <3>1, TailRange
  <2> HIDE DEF h
  <2>3. xhr[h] = "unsent"
    <3>1. h \in Behind(w) /\ h <= h
      BY <2>2, <1>1, BoundsAssumption DEF Behind, Sends
    <3>2. from[h] = w
      BY <3>1 DEF PassageInv, OrderInv, BacklogInv
    <3>3. QED
      BY <3>1, <3>2, <2>2 DEF PassageInv, OrderInv, BacklogInv
  <2>4. \A t \in Sends : xhr'[t] = "over" <=> xhr[t] = "over"
    BY <1>1, <2>1, <2>2, <2>3
  <2>5. QED
    BY <2>1, <2>4, CallbacksKept DEF PassageInv, windowVars, pageVars, Alive
<1>8. ASSUME NEW s \in Sent, NEW ok \in BOOLEAN, ServerHandles(s, ok)
      PROVE  CallbackInv'
  <2>1. /\ UNCHANGED <<windowVars, sendVars, back, pageVars>>
        /\ xhr[s] = "sent" /\ xhr' = [xhr EXCEPT ![s] = IF ok THEN "done" ELSE "refused"]
        /\ handled' = [handled EXCEPT ![s] = @ + IF ok THEN 1 ELSE 0]
    BY <1>8 DEF ServerHandles
  <2>2. \A t \in Sends : xhr'[t] = "over" <=> xhr[t] = "over"
    BY <1>1, <2>1
  <2>3. \A t \in Sends : handled[t] > 0 => handled'[t] > 0
    BY <1>1, <2>1
  <2>4. QED
    BY <2>1, <2>2, <2>3, CallbacksKept DEF PassageInv, windowVars, pageVars, Alive
<1>9. ASSUME NEW s \in Sent, XhrLoads(s)
      PROVE  CallbackInv'
  <2>1. /\ UNCHANGED <<windowVars, sendVars, pageVars, handled>>
        /\ xhr[s] \in {"done", "refused"} /\ Callback(s, xhr[s] = "refused")
    BY <1>9 DEF XhrLoads
  <2>2. xhr[s] # "refused" => handled[s] > 0
    BY <1>1, <2>1 DEF PassageInv, HandledInv
  <2>3. xhr[s] \in UnderWay /\ (xhr[s] = "refused") \in BOOLEAN
    BY <2>1 DEF UnderWay
  <2>4. QED
    BY <2>1, <2>2, <2>3, CallbacksAnswer
<1>10. ASSUME NEW s \in Sent, XhrBreaks(s)
       PROVE  CallbackInv'
  <2>1. /\ UNCHANGED <<windowVars, sendVars, pageVars, handled>> /\ xhr[s] \in UnderWay
    BY <1>10 DEF XhrBreaks, UnderWay
  <2>2. CASE Callback(s, TRUE)
    BY <2>1, <2>2, CallbacksAnswer
  <2>3. CASE xhr' = [xhr EXCEPT ![s] = "sent"] /\ UNCHANGED back
    <3>1. \A t \in Sends : xhr'[t] = "over" <=> xhr[t] = "over"
      BY <1>1, <2>1, <2>3 DEF UnderWay
    <3>2. QED
      BY <2>1, <2>3, <3>1, CallbacksKept DEF PassageInv, windowVars, pageVars, Alive
  <2>4. QED
    BY <1>10, <2>2, <2>3 DEF XhrBreaks
<1>11. ASSUME NEW w \in Windows, NEW m \in Shapes, AsyncServiceMsg(w, m)
       PROVE  CallbackInv'
  <2>1. Sendable(<<m>>, <<Len(msg) + 1>>) /\ Sending(w, <<m>>, <<Len(msg) + 1>>)
    BY <1>11, AsyncSends DEF PassageInv
  <2>2. QED
    BY <1>11, <2>1, CallbacksSend DEF AsyncServiceMsg
<1>12. ASSUME NEW w \in Windows, BatchUpdate(w)
       PROVE  CallbackInv'
  <2>1. Sendable(Stored, Repeated) /\ Sending(w, Stored, Repeated)
    BY <1>12, StoredSends DEF PassageInv
  <2>2. QED
    BY <1>12, <2>1, CallbacksSend DEF BatchUpdate
<1>13. CASE UNCHANGED vars
  BY <1>2, <1>13 DEF vars, windowVars, workerVars, pageVars, Alive
<1>14. QED
  BY <1>1, <1>4, <1>5, <1>6, <1>7, <1>8, <1>9, <1>10, <1>11, <1>12, <1>13, CallbacksLeave,
     CallbacksRead DEF Next, Ports, Delivery

-----------------------------------------------------------------------------
(* The store *)

TransportInv == PassageInv /\ CallbackInv /\ StoreInv /\ NothingSilentlyLost

(* A step that neither answers nor resends: only callbacks may be dropped. *)
LEMMA StoreKeeps ==
    ASSUME TransportInv, UNCHANGED <<msg, from, copyOf, promise, store>>,
           \A w \in Windows : callbacks'[w] \subseteq callbacks[w],
           \A s \in Sends : handled[s] > 0 => handled'[s] > 0
    PROVE  StoreInv' /\ NothingSilentlyLost'
<1>1. Sent' = Sent /\ Sent \subseteq Sends /\ \A s \in Sends : handled[s] \in Nat
  <2>1. Sent' = Sent
    BY DEF Sent
  <2>2. Sent \subseteq Sends /\ handled \in [Sends -> 0..2]
    BY SentFacts DEF TransportInv, PassageInv, TypeOK
  <2>3. QED
    BY <2>1, <2>2
<1>2. \A s : Waiting(s)' => Waiting(s)
  BY DEF Waiting
<1>3. StoreInv'
  BY <1>1, <1>2 DEF TransportInv, StoreInv
<1>4. \A s : IsStored(s)' <=> IsStored(s)
  BY DEF IsStored
<1>5. \A s \in Sent : handled'[s] = 0 => handled[s] = 0
  BY <1>1
<1>6. NothingSilentlyLost'
  BY <1>1, <1>4, <1>5 DEF TransportInv, NothingSilentlyLost
<1>7. QED
  BY <1>3, <1>6

(* A message whose callback fails is stored for the next batch. *)
LEMMA StoreReads ==
    ASSUME TransportInv, NEW w \in Windows, OnWorkerMessage(w)
    PROVE  StoreInv' /\ NothingSilentlyLost'
<1> DEFINE s == Read(w).send
           kept == Read(w).err /\ IsStored(s)
<1>1. /\ UNCHANGED <<msg, from, copyOf, handled>> /\ Sent' = Sent /\ Sent \subseteq Sends
      /\ s \in callbacks[w] /\ s \in Sent
      /\ callbacks' = [callbacks EXCEPT ![w] = @ \ {s}]
      /\ store' = IF kept THEN Append(StoreWithout(msg[s].cmd), s) ELSE store
      /\ \A t \in Sends \ {s} : promise'[t] = promise[t]
      /\ promise'[s] = "resolved" => ~Read(w).err \/ IsStored(s) \/ promise[s] = "resolved"
      /\ kept => promise'[s] = "resolved"
  BY ReadStep, SentFacts DEF TransportInv, PassageInv, sendVars, Sent
<1>2. promise[s] = "open" /\ \A v \in Windows : s \in callbacks[v] => v = w
  BY <1>1 DEF TransportInv, CallbackInv, OwnOpen
<1>3. ~Read(w).err => handled[s] > 0
  <2>1. back[w] \in Seq([send : Sent, err : BOOLEAN]) /\ back[w] # <<>>
    BY ReadStep DEF TransportInv, PassageInv, TypeOK
  <2>2. 1 \in DOMAIN back[w] /\ back[w][1] = Read(w)
    BY <2>1, Elements DEF Read
  <2>3. QED
    BY <2>2 DEF TransportInv, CallbackInv, Expected
<1> HIDE DEF s
<1>4. IF kept
      THEN \A t : t \in Range(store') <=> t = s \/ (t \in Range(store) /\ msg[t].cmd # msg[s].cmd)
      ELSE Range(store') = Range(store)
  <2>1. CASE kept
    <3> DEFINE q == StoreWithout(msg[s].cmd)
    <3>1. /\ q \in Seq(Sent)
          /\ \A t : t \in Range(q) <=> t \in Range(store) /\ msg[t].cmd # msg[s].cmd
      BY StoreFacts DEF TransportInv, PassageInv
    <3> HIDE DEF q
    <3>2. Range(Append(q, s)) = Range(q) \cup {s}
      BY <1>1, <3>1, AppendFacts
    <3>3. store' = Append(q, s)
      BY <1>1, <2>1 DEF q
    <3>4. QED
      BY <2>1, <3>1, <3>2, <3>3
  <2>2. CASE ~kept
    BY <2>2, <1>1
  <2>3. QED
    BY <2>1, <2>2
<1>5. \A t : Waiting(t)' <=> Waiting(t) /\ t # s
  <2>1. \A t : \A v \in Windows : t \in callbacks'[v] <=> t \in callbacks[v] /\ t # s
    <3>1. callbacks \in [Windows -> SUBSET Sent]
      BY DEF TransportInv, PassageInv, TypeOK
    <3>2. QED
      BY <3>1, <1>1, <1>2
  <2>2. QED
    BY <2>1 DEF Waiting
<1>6. \A t \in Sent : s < t /\ copyOf[s] = copyOf[t] => FALSE
  BY <1>1 DEF TransportInv, StoreInv, Waiting
<1>7. StoreInv'
  BY <1>1, <1>4, <1>5, <1>6 DEF TransportInv, StoreInv
<1>8. ASSUME NEW t \in Sent, promise'[t] = "resolved", handled'[t] = 0
      PROVE  \/ t \in Range(store')
             \/ \E u \in Sent : u > t /\ copyOf[u] = copyOf[t]
             \/ \E u \in Sent : /\ copyOf[u] # copyOf[t] /\ msg[u].cmd = msg[t].cmd
                               /\ promise'[u] = "resolved" /\ IsStored(u)
  <2>1. CASE t = s
    BY <1>1, <1>2, <1>3, <1>4, <1>8, <2>1
  <2>2. CASE t # s
    <3>1. promise[t] = "resolved" /\ handled[t] = 0
      BY <1>1, <1>8, <2>2
    <3>2. ASSUME NEW u \in Sent, promise[u] = "resolved"
          PROVE  promise'[u] = "resolved"
      BY <1>1, <1>2, <3>2
    <3>3. CASE t \in Range(store) /\ t \notin Range(store')
      <4>1. kept /\ msg[t].cmd = msg[s].cmd
        BY <1>4, <2>2, <3>3
      <4>2. CASE copyOf[t] = copyOf[s]
        <5>1. s \in Nat /\ t \in Nat
          BY <1>1, BoundsAssumption DEF Sends
        <5>2. t < s
          BY <1>1, <1>6, <2>2, <4>2, <5>1
        <5>3. QED
          BY <1>1, <4>2, <5>1, <5>2
      <4>3. CASE copyOf[t] # copyOf[s]
        BY <1>1, <4>1, <4>3
      <4>4. QED
        BY <4>2, <4>3
    <3>4. CASE t \notin Range(store)
      BY <3>1, <3>2, <3>4 DEF TransportInv, NothingSilentlyLost
    <3>5. QED
      BY <3>3, <3>4
  <2>3. QED
    BY <2>1, <2>2
<1>9. NothingSilentlyLost'
  <2>1. OneOfCommand'
    BY PassageReads DEF TransportInv, PassageInv
  <2>2. \A u : IsStored(u)' <=> IsStored(u)
    BY <1>1 DEF IsStored
  <2>3. QED
    BY <1>1, <1>8, <2>1, <2>2 DEF NothingSilentlyLost, OneOfCommand
<1>10. QED
  BY <1>7, <1>9

(* New sends lose nothing, and a batch takes over what was stored. *)
LEMMA StoreSends ==
    ASSUME TransportInv, NEW w \in Windows, NEW ms, NEW cs, Sendable(ms, cs), Sending(w, ms, cs),
           \/ store' = store /\ \A i \in 1..Len(ms) : cs[i] = Len(msg) + i
           \/ /\ store' = <<>> /\ Len(ms) = Len(store)
              /\ \A i \in 1..Len(store) : cs[i] = copyOf[store[i]]
    PROVE  StoreInv' /\ NothingSilentlyLost'
<1> DEFINE n == Len(msg)
           k == Len(ms)
           New == Sent' \ Sent
<1>1. /\ n \in Nat /\ k \in Nat /\ Sent = 1..n /\ Sent' = 1..(n + k) /\ Sent' \subseteq Sends
      /\ Range(Numbers(ms)) = (n + 1)..(n + k)
      /\ \A s \in Sent : msg'[s] = msg[s] /\ copyOf'[s] = copyOf[s]
      /\ \A s \in Sent' \ Sent : copyOf'[s] = cs[s - n]
  BY SentFacts, NewSends DEF TransportInv, PassageInv
<1>2. New = (n + 1)..(n + k) /\ \A s \in New : s - n \in 1..k /\ (s - n) + n = s
  <2>1. New = (1..(n + k)) \ (1..n)
    BY <1>1
  <2> HIDE DEF n, k, New
  <2>2. n \in Nat /\ k \in Nat
    BY <1>1
  <2>3. (1..(n + k)) \ (1..n) = (n + 1)..(n + k)
    BY <2>2
  <2>4. \A s \in (n + 1)..(n + k) : s - n \in 1..k /\ (s - n) + n = s
    BY <2>2
  <2>5. QED
    BY <2>1, <2>3, <2>4
<1>3. /\ UNCHANGED <<xhr, promise, handled>>
      /\ callbacks' = [callbacks EXCEPT ![w] = @ \cup New]
  BY <1>1, <1>2 DEF Sending, Post, workerVars
<1> HIDE DEF New
<1>4. /\ \A s \in Sent : copyOf[s] \in Sent
      /\ \A i \in 1..Len(store) : store[i] \in Sent /\ store[i] \in Range(store)
      /\ Range(store) \subseteq Sent /\ DOMAIN store = 1..Len(store)
      /\ \A s \in Range(store) : \E i \in 1..Len(store) : s = store[i]
  <2>1. store \in Seq(Sent) /\ copyOf \in [Sent -> Sent]
    BY DEF TransportInv, PassageInv, TypeOK
  <2>2. /\ DOMAIN store = 1..Len(store)
        /\ \A i \in DOMAIN store : store[i] \in Sent /\ store[i] \in Range(store)
        /\ Range(store) \subseteq Sent
    BY <2>1, Elements
  <2>3. QED
    BY <2>1, <2>2 DEF Range
<1>5. \A s \in Sent : Waiting(s)' => Waiting(s)
  <2>1. \A s \in Sent : s \notin New
    BY <1>1, <1>2
  <2>2. \A s \in Sent : \A v \in Windows : s \in callbacks'[v] => s \in callbacks[v]
    BY <1>3, <2>1 DEF TransportInv, PassageInv, TypeOK
  <2>3. QED
    BY <2>2 DEF Waiting
<1>6. Range(store') \subseteq Range(store)
  BY SmallRanges
<1>7. \A s \in Range(store') : ~Waiting(s)'
  BY <1>4, <1>5, <1>6 DEF TransportInv, StoreInv
(* A copy is of a stored send, which is then the last of its copies. *)
<1>8. ASSUME NEW s \in Sent', NEW t \in New, s < t, copyOf'[s] = copyOf'[t]
      PROVE  s \in Sent /\ ~Waiting(s) /\ store' = <<>>
  <2>1. t - n \in 1..k /\ copyOf'[t] = cs[t - n] /\ (t - n) + n = t
    BY <1>1, <1>2 DEF New
  <2>2. CASE store' = store /\ \A i \in 1..k : cs[i] = n + i
    <3>1. copyOf'[t] = t
      BY <2>1, <2>2, <1>1
    <3>2. CASE s \in Sent
      BY <3>1, <3>2, <1>1, <1>2, <1>4, <1>8
    <3>3. CASE s \notin Sent
      <4>1. s - n \in 1..k /\ copyOf'[s] = cs[s - n] /\ n + (s - n) = s
        BY <3>3, <1>1, <1>2 DEF New
      <4>2. copyOf'[s] = s
        BY <4>1, <2>2
      <4>3. QED
        BY <3>1, <4>2, <1>8, <1>1
    <3>4. QED
      BY <3>2, <3>3
  <2>3. CASE store' = <<>> /\ k = Len(store) /\ \A i \in 1..k : cs[i] = copyOf[store[i]]
    <3> DEFINE u == store[t - n]
    <3>1. u \in Sent /\ u \in Range(store) /\ copyOf'[t] = copyOf[u]
      BY <2>1, <2>3, <1>4
    <3>2. CASE s \in Sent
      <4>1. copyOf[s] = copyOf[u]
        BY <1>1, <1>8, <3>1, <3>2
      <4>2. s \in Nat /\ u \in Nat
        BY <1>1, <3>1, <3>2
      <4>3. ~(u < s)
        BY <3>1, <3>2, <4>1 DEF TransportInv, StoreInv
      <4>4. CASE s = u
        BY <2>3, <3>1, <3>2, <4>4 DEF TransportInv, StoreInv
      <4>5. CASE s < u
        BY <2>3, <3>1, <3>2, <4>1, <4>5 DEF TransportInv, StoreInv
      <4>6. QED
        BY <4>2, <4>3, <4>4, <4>5
    <3>3. CASE s \notin Sent
      <4> DEFINE v == store[s - n]
      <4>1. s - n \in 1..k /\ copyOf'[s] = cs[s - n] /\ s - n # t - n
        BY <3>3, <1>1, <1>2, <1>8, <2>1 DEF New
      <4>2. v \in Sent /\ v \in Range(store) /\ copyOf'[s] = copyOf[v]
        BY <4>1, <2>3, <1>4
      <4>3. v # u
        BY <4>1, <2>1, <2>3, <1>4 DEF TransportInv, PassageInv, OneOfCommand
      <4>4. v \in Nat /\ u \in Nat /\ copyOf[v] = copyOf[u]
        BY <1>1, <1>8, <3>1, <4>2
      <4>5. ~(v < u) /\ ~(u < v)
        BY <3>1, <4>2, <4>4 DEF TransportInv, StoreInv
      <4>6. QED
        BY <4>3, <4>4, <4>5
    <3>4. QED
      BY <3>2, <3>3
  <2>4. QED
    BY <2>2, <2>3
<1>9. ASSUME NEW s \in Sent', NEW t \in Sent', s < t, copyOf'[s] = copyOf'[t]
      PROVE  ~Waiting(s)' /\ s \notin Range(store')
  <2>1. CASE t \in New
    BY <2>1, <1>5, <1>8, <1>9, SmallRanges
  <2>2. CASE t \notin New
    <3>1. s \in Sent /\ t \in Sent
      BY <2>2, <1>1, <1>2, <1>9
    <3>2. copyOf[s] = copyOf[t]
      BY <3>1, <1>1, <1>9
    <3>3. QED
      BY <3>1, <3>2, <1>5, <1>6, <1>9 DEF TransportInv, StoreInv
  <2>3. QED
    BY <2>1, <2>2
<1>10. StoreInv'
  BY <1>7, <1>9 DEF StoreInv
<1>11. ASSUME NEW s \in Sent', promise[s] = "resolved", handled[s] = 0
       PROVE  \/ s \in Range(store')
              \/ \E t \in Sent' : t > s /\ copyOf'[t] = copyOf'[s]
              \/ \E t \in Sent' : /\ copyOf'[t] # copyOf'[s] /\ msg'[t].cmd = msg'[s].cmd
                                 /\ promise[t] = "resolved" /\ IsStored(t)'
  <2>1. s \in Sent
    <3>1. \A t \in Sends \ Sent : promise[t] = "open"
      BY DEF TransportInv, PassageInv, OrderInv, UnsentInv
    <3>2. QED
      BY <3>1, <1>1, <1>11
  <2>2. \A t \in Sent : t \in Sent' /\ (IsStored(t) => IsStored(t)')
    BY <1>1 DEF IsStored
  <2>3. CASE s \in Range(store) /\ s \notin Range(store')
    <3>1. PICK i \in 1..Len(store) : s = store[i]
      BY <2>3, <1>4
    <3>2. /\ k = Len(store) /\ cs[i] = copyOf[s]
      BY <2>3, <3>1
    <3>3. n + i \in New /\ (n + i) - n = i /\ n + i > s /\ n + i \in Sent'
      BY <3>2, <1>1, <1>2, <2>1
    <3>4. copyOf'[n + i] = copyOf'[s]
      BY <3>2, <3>3, <2>1, <1>1 DEF New
    <3>5. QED
      BY <3>3, <3>4
  <2>4. CASE s \notin Range(store)
    <3>1. CASE \E t \in Sent : t > s /\ copyOf[t] = copyOf[s]
      BY <3>1, <1>1, <2>1, <2>2
    <3>2. CASE \E t \in Sent : /\ copyOf[t] # copyOf[s] /\ msg[t].cmd = msg[s].cmd
                             /\ promise[t] = "resolved" /\ IsStored(t)
      <4>1. PICK t \in Sent : /\ copyOf[t] # copyOf[s] /\ msg[t].cmd = msg[s].cmd
                            /\ promise[t] = "resolved" /\ IsStored(t)
        BY <3>2
      <4>2. /\ copyOf'[t] # copyOf'[s] /\ msg'[t].cmd = msg'[s].cmd /\ t \in Sent'
            /\ IsStored(t)'
        BY <4>1, <1>1, <2>1, <2>2
      <4>3. QED
        BY <4>1, <4>2
    <3>3. QED
      BY <3>1, <3>2, <2>1, <2>4, <1>11 DEF TransportInv, NothingSilentlyLost
  <2>5. QED
    BY <2>3, <2>4
<1>12. OneOfCommand'
  <2>1. CASE store' = <<>>
    BY <2>1 DEF OneOfCommand
  <2>2. CASE store' = store
    <3>1. \A i \in DOMAIN store : msg'[store[i]] = msg[store[i]]
      BY <1>1, <1>4
    <3>2. QED
      BY <2>2, <3>1 DEF TransportInv, PassageInv, OneOfCommand
  <2>3. QED
    BY <2>1, <2>2
<1>13. NothingSilentlyLost'
  BY <1>3, <1>11, <1>12 DEF NothingSilentlyLost, OneOfCommand
<1>14. QED
  BY <1>10, <1>13

(* The invariant holds at first. *)
LEMMA TransportInit == Init => TransportInv
<1> SUFFICES ASSUME Init
             PROVE  TransportInv
  OBVIOUS
<1>1. Sent = {} /\ Range(store) = {}
  BY SmallRanges DEF Init, Sent
<1>2. CallbackInv
  BY <1>1 DEF Init, CallbackInv, OwnOpen, Expected, HeldUntilOver, NothingHeld
<1>3. StoreInv /\ NothingSilentlyLost
  BY <1>1 DEF Init, StoreInv, NothingSilentlyLost
<1>4. QED
  BY <1>2, <1>3, PassageInit DEF TransportInv

(* Every step keeps the invariant. *)
LEMMA TransportStep == TransportInv /\ [Next]_vars => TransportInv'
<1> SUFFICES ASSUME TransportInv, [Next]_vars
             PROVE  StoreInv' /\ NothingSilentlyLost'
  BY PassageStep, CallbackStep DEF TransportInv
<1>1. /\ Iframes \subseteq Windows /\ Sent \subseteq Sends /\ Top \in Windows
      /\ handled \in [Sends -> 0..2] /\ callbacks \in [Windows -> SUBSET Sent]
  BY SentFacts DEF Windows, TransportInv, PassageInv, TypeOK
<1>2. ASSUME UNCHANGED <<sendVars, pageVars, store>>,
             \A s \in Sends : handled[s] > 0 => handled'[s] > 0
      PROVE  StoreInv' /\ NothingSilentlyLost'
  BY <1>2, StoreKeeps DEF sendVars, pageVars
<1>3. CASE Ports \/ \E w \in Iframes : StartIframe(w)
  BY <1>2, <1>3 DEF Ports, StartTop, GrantPort, SetMessagePort, HandlePort, StartIframe, OnlyLink,
       BecomeReady
<1>4. CASE \E w \in Windows : WorkerReceives(w)
  BY <1>2, <1>4 DEF WorkerReceives
<1>5. CASE \E s \in Sent : XhrLoads(s) \/ XhrBreaks(s)
  BY <1>2, <1>5 DEF XhrLoads, XhrBreaks
<1>6. ASSUME NEW s \in Sent, NEW ok \in BOOLEAN, ServerHandles(s, ok)
      PROVE  StoreInv' /\ NothingSilentlyLost'
  <2>1. /\ UNCHANGED <<sendVars, pageVars, store>>
        /\ handled' = [handled EXCEPT ![s] = @ + IF ok THEN 1 ELSE 0]
    BY <1>6 DEF ServerHandles
  <2>2. \A t \in Sends : handled[t] > 0 => handled'[t] > 0
    BY <1>1, <2>1
  <2>3. QED
    BY <1>2, <2>1, <2>2
<1>7. ASSUME NEW w \in Iframes, IframeLeaves(w)
      PROVE  StoreInv' /\ NothingSilentlyLost'
  <2>1. /\ UNCHANGED <<msg, from, copyOf, promise, store, handled>>
        /\ callbacks' = [callbacks EXCEPT ![w] = {}]
    BY <1>7 DEF IframeLeaves, sendVars
  <2>2. \A v \in Windows : callbacks'[v] \subseteq callbacks[v]
    BY <1>1, <2>1
  <2>3. QED
    BY <2>1, <2>2, StoreKeeps
<1>8. ASSUME NEW w \in Windows, NEW m \in Shapes, AsyncServiceMsg(w, m)
      PROVE  StoreInv' /\ NothingSilentlyLost'
  <2>1. Sendable(<<m>>, <<Len(msg) + 1>>) /\ Sending(w, <<m>>, <<Len(msg) + 1>>)
    BY <1>8, AsyncSends DEF TransportInv, PassageInv
  <2>2. store' = store /\ \A i \in 1..Len(<<m>>) : <<Len(msg) + 1>>[i] = Len(msg) + i
    BY <1>8 DEF AsyncServiceMsg
  <2>3. QED
    BY <2>1, <2>2, StoreSends
<1>9. ASSUME NEW w \in Windows, BatchUpdate(w)
      PROVE  StoreInv' /\ NothingSilentlyLost'
  BY <1>9, StoredSends, StoreSends DEF TransportInv, PassageInv
<1>10. CASE UNCHANGED vars
  BY <1>2, <1>10 DEF vars
<1>11. QED
  BY <1>1, <1>3, <1>4, <1>5, <1>6, <1>7, <1>8, <1>9, <1>10, StoreReads DEF Next, Delivery

(* When a window's counter is zero nothing that the window has sent is queued, posted, in   *)
(* flight or still to be answered, and a message that was reported as delivered was handled *)
(* by the server, is kept in the store, was sent again from there or gave way to a later    *)
(* one of its command: for any number of windows and messages and any way the connection    *)
(* and the server's handlers fail (waitForServiceMessagesCompleted, batchUpdate).           *)
THEOREM NothingLost == Spec => []MessagesAreAccountedFor
<1>1. TransportInv => MessagesAreAccountedFor
  <2> SUFFICES ASSUME TransportInv
               PROVE  CounterCountsUnanswered /\ NothingSilentlyLost
    BY DEF MessagesAreAccountedFor
  <2>1. CounterCountsUnanswered
    BY DEF TransportInv, PassageInv, CountInv, CallbackInv, Expected, HeldUntilOver,
           CounterCountsUnanswered
  <2>2. QED
    BY <2>1 DEF TransportInv
<1>2. QED
  BY <1>1, TransportInit, TransportStep, PTL DEF Spec

===============================================================================
