------------------------ MODULE Http2Sessions_proofs ------------------------
(***************************************************************************)
(* Proofs about Http2Sessions for any number of origins, requests and      *)
(* sessions and any size of the cache.  One invariant relates the phase of *)
(* a session to the pending entry of its origin, to its timers and to the  *)
(* requests that wait for it, whatever the cache holds; a second one says  *)
(* what is in the cache.                                                   *)
(***************************************************************************)
EXTENDS Http2Sessions, TLAPS, SequenceTheorems

(* The types of the variables the invariant speaks of. *)
PoolTypes ==
    /\ origin \in [Sessions -> Origins \cup {"none"}]
    /\ phase \in [Sessions -> Phases]
    /\ pending \in [Origins -> Sessions \cup {NoSession}]
    /\ waiting \in [Requests -> Sessions \cup {NoSession}]
    /\ stream \in [Requests -> Sessions \cup {NoSession}]
    /\ connectTimer \subseteq Sessions /\ settingsTimer \subseteq Sessions
    /\ \A s \in Sessions : phase[s] # "unused" => origin[s] \in Origins

(* A pending entry belongs to a session of its origin that is being established; a session  *)
(* that lost its entry to a stale timer has an unsupported origin.                          *)
PendingInv ==
    /\ \A o \in Origins, s \in Sessions :
        pending[o] = s => Establishing(s) /\ origin[s] = o
    /\ \A s \in Sessions :
        Establishing(s) => pending[origin[s]] = s \/ origin[s] \in unsupported

Guarded(s) ==
    \/ phase[s] = "connecting" /\ s \in connectTimer
    \/ phase[s] = "connected" /\ s \in settingsTimer

(* The timer of its phase is armed while a session is being established, and only such      *)
(* sessions are waited for.                                                                 *)
GuardInv ==
    /\ \A s \in Sessions : Establishing(s) => Guarded(s)
    /\ \A r \in Requests, s \in Sessions : waiting[r] = s => Establishing(s)

(* Requests have streams on live sessions only. *)
LiveStreams ==
    \A r \in Requests, s \in Sessions : stream[r] = s => phase[s] \in {"ready", "closing"}

EstablishmentInv == PoolTypes /\ PendingInv /\ AtMostOneEstablishing /\ GuardInv /\ LiveStreams

-----------------------------------------------------------------------------
(* The absent session is none of them. *)
LEMMA NoSessionIsNone == NoSession \notin Sessions
BY DEF NoSession, Sessions

(* Disposing of cached sessions only turns ready ones into closing ones.                    *)
LEMMA DisposedLemma ==
    ASSUME NEW sessions, NEW becomes \in [Sessions -> Phases]
    PROVE  /\ Disposed(sessions, becomes) \in [Sessions -> Phases]
           /\ \A s \in Sessions :
                \/ Disposed(sessions, becomes)[s] = becomes[s]
                \/ becomes[s] = "ready" /\ Disposed(sessions, becomes)[s] = "closing"
BY DEF Disposed, Phases

(* What the end of a session that has been ready changes: no session enters or leaves its   *)
(* establishment, and an opened session stays opened.                                       *)
EstablishmentUntouched ==
    /\ phase' \in [Sessions -> Phases]
    /\ \A s \in Sessions : /\ Establishing(s)' <=> Establishing(s)
                           /\ Establishing(s) => phase'[s] = phase[s]
                           /\ phase'[s] # "unused" => phase[s] # "unused"
    /\ UNCHANGED <<origin, pending, unsupported, timerVars, waiting>>
    /\ stream' \in [Requests -> Sessions \cup {NoSession}] /\ LiveStreams'

(* A step that touches no pending session keeps the establishment invariant. *)
LEMMA UntouchedStep ==
    ASSUME EstablishmentInv, EstablishmentUntouched
    PROVE  EstablishmentInv'
BY DEF EstablishmentInv, EstablishmentUntouched, PoolTypes, PendingInv, AtMostOneEstablishing,
       GuardInv, Guarded, Establishing, timerVars

(* The steps of a session that has been ready leave establishments alone.                   *)
LEMMA LaterLifeUntouched ==
    ASSUME PoolTypes, LiveStreams, NEW s \in Sessions,
           GoAway(s) \/ ConnectionReset(s) \/ IdleTimeout(s) \/ Close(s)
    PROVE  EstablishmentUntouched
<1> USE NoSessionIsNone DEF PoolTypes, EstablishmentUntouched, Establishing, LiveStreams
<1>1. CASE GoAway(s)
  BY <1>1 DEF GoAway, Phases, poolVars
<1>2. CASE ConnectionReset(s)
  BY <1>2 DEF ConnectionReset, StreamsWithout, Phases, poolVars
<1>3. CASE IdleTimeout(s)
  <2>1. /\ phase' = Disposed(CachedFor(origin[s]), phase)
        /\ UNCHANGED <<origin, pending, unsupported, timerVars, waiting, stream>>
    BY <1>3 DEF IdleTimeout, CacheDel
  <2>2. QED
    BY <2>1, DisposedLemma DEF Phases
<1>4. CASE Close(s)
  <2> DEFINE becomes == [phase EXCEPT ![s] = "closed"]
  <2>1. /\ becomes \in [Sessions -> Phases] /\ phase[s] \in {"destroyed", "closing"}
        /\ \A q \in Requests : stream[q] # s
    BY <1>4 DEF Close, InUse, Phases
  <2>2. phase' = becomes \/ phase' = Disposed(CachedFor(origin[s]), becomes)
    BY <1>4 DEF Close, DeleteEntry, CacheDel
  <2>3. UNCHANGED <<origin, pending, unsupported, timerVars, waiting, stream>>
    BY <1>4 DEF Close
  <2>4. /\ phase' \in [Sessions -> Phases]
        /\ \A t \in Sessions :
            phase'[t] = becomes[t] \/ (becomes[t] = "ready" /\ phase'[t] = "closing")
    <3> HIDE DEF becomes
    <3>1. CASE phase' = becomes
      BY <2>1, <3>1
    <3>2. CASE phase' = Disposed(CachedFor(origin[s]), becomes)
      BY <2>1, <3>2, DisposedLemma
    <3>3. QED
      BY <2>2, <3>1, <3>2
  <2>5. QED
    BY <2>1, <2>3, <2>4
<1>5. QED
  BY <1>1, <1>2, <1>3, <1>4

(* errorHandler, called by an 'error' event or by a timer, fresh or stale: if it does not   *)
(* declare the origin unsupported, the session was still being established.                 *)
LEMMA FailureStep ==
    ASSUME EstablishmentInv, NEW s \in Sessions, NEW refused \in BOOLEAN,
           EstablishmentFailed(s, refused), phase[s] # "unused",
           refused \/ Establishing(s),
           connectTimer' \subseteq connectTimer, settingsTimer' \subseteq settingsTimer,
           connectTimer \ {s} \subseteq connectTimer', settingsTimer \ {s} \subseteq settingsTimer'
    PROVE  EstablishmentInv'
<1> USE NoSessionIsNone DEF EstablishmentInv, PoolTypes, Establishing
<1>1. /\ origin[s] \in Origins /\ origin' = origin
      /\ pending' = [pending EXCEPT ![origin[s]] = NoSession]
      /\ unsupported' = unsupported \cup IF refused THEN {origin[s]} ELSE {}
      /\ waiting' = [r \in Requests |-> IF waiting[r] = s THEN NoSession ELSE waiting[r]]
      /\ phase' \in [Sessions -> Phases]
      /\ phase'[s] \in {"destroyed", "closed"}
      /\ \A t \in Sessions : t # s => phase'[t] = phase[t]
      /\ stream' = [r \in Requests |-> IF stream[r] = s THEN NoSession ELSE stream[r]]
  BY DEF EstablishmentFailed, OriginPushed, Resolved, StreamsWithout, Phases
<1>2. PoolTypes'
  BY <1>1
<1>3. AtMostOneEstablishing'
  BY <1>1 DEF AtMostOneEstablishing
<1>4. PendingInv'
  <2>1. ASSUME NEW o \in Origins, NEW t \in Sessions, pending'[o] = t
        PROVE  Establishing(t)' /\ origin'[t] = o
    <3>1. o # origin[s] /\ pending[o] = t
      BY <1>1, <2>1
    <3>2. Establishing(t) /\ origin[t] = o
      BY <3>1 DEF PendingInv
    <3>3. QED
      BY <1>1, <3>1, <3>2
  <2>2. ASSUME NEW t \in Sessions, Establishing(t)'
        PROVE  pending'[origin'[t]] = t \/ origin'[t] \in unsupported'
    <3>1. t # s /\ Establishing(t) /\ origin[t] \in Origins
      BY <1>1, <2>2
    <3>2. pending[origin[t]] = t \/ origin[t] \in unsupported
      BY <3>1 DEF PendingInv
    <3>3. CASE origin[t] # origin[s]
      BY <1>1, <3>1, <3>2, <3>3
    <3>4. CASE origin[t] = origin[s]
      <4>1. refused
        BY <3>1, <3>4 DEF AtMostOneEstablishing
      <4>2. QED
        BY <1>1, <3>4, <4>1
    <3>5. QED
      BY <3>3, <3>4
  <2>3. QED
    BY <2>1, <2>2 DEF PendingInv
<1>5. GuardInv'
  BY <1>1 DEF GuardInv, Guarded
<1>6. LiveStreams'
  BY <1>1 DEF LiveStreams
<1>7. QED
  BY <1>2, <1>3, <1>4, <1>5, <1>6

(* 'localSettings': the only session being established for its origin leaves.               *)
LEMMA LocalSettingsStep ==
    ASSUME EstablishmentInv, NEW s \in Sessions, LocalSettings(s)
    PROVE  EstablishmentInv'
<1> USE NoSessionIsNone DEF EstablishmentInv, PoolTypes, Establishing
<1> DEFINE becomes == [phase EXCEPT ![s] = "ready"]
<1>1. phase[s] = "connected" /\ becomes \in [Sessions -> Phases]
  BY DEF LocalSettings, Phases
<1>2. /\ origin' = origin /\ origin[s] \in Origins
      /\ pending' = [pending EXCEPT ![origin[s]] = NoSession]
      /\ UNCHANGED <<unsupported, connectTimer>> /\ settingsTimer' = settingsTimer \ {s}
      /\ waiting' = [r \in Requests |-> IF waiting[r] = s THEN NoSession ELSE waiting[r]]
      /\ stream' = [r \in Requests |-> IF waiting[r] = s THEN s ELSE stream[r]]
      /\ phase' = Disposed(Cached \ {cache'[i] : i \in DOMAIN cache'}, becomes)
  BY <1>1 DEF LocalSettings, CacheSet, Resolved
<1>3. /\ phase' \in [Sessions -> Phases]
      /\ \A t \in Sessions :
            phase'[t] = becomes[t] \/ (becomes[t] = "ready" /\ phase'[t] = "closing")
  <2> HIDE DEF becomes
  <2>1. QED
    BY <1>1, <1>2, DisposedLemma
<1>4. \A t \in Sessions : /\ Establishing(t)' <=> t # s /\ Establishing(t)
                          /\ Establishing(t)' => phase'[t] = phase[t]
                          /\ phase'[t] # "unused" => phase[t] # "unused"
  BY <1>1, <1>3
<1>5. PoolTypes'
  BY <1>1, <1>2, <1>3, <1>4
<1>6. AtMostOneEstablishing'
  BY <1>2, <1>4 DEF AtMostOneEstablishing
<1>7. PendingInv'
  <2> HIDE DEF becomes
  <2>1. ASSUME NEW o \in Origins, NEW t \in Sessions, pending'[o] = t
        PROVE  Establishing(t)' /\ origin'[t] = o
    <3>1. o # origin[s] /\ pending[o] = t
      BY <1>2, <2>1
    <3>2. Establishing(t) /\ origin[t] = o
      BY <3>1 DEF PendingInv
    <3>3. QED
      BY <1>2, <1>4, <3>1, <3>2
  <2>2. ASSUME NEW t \in Sessions, Establishing(t)'
        PROVE  pending'[origin'[t]] = t \/ origin'[t] \in unsupported'
    <3>1. t # s /\ Establishing(t) /\ origin[t] \in Origins
      BY <1>4, <2>2
    <3>2. origin[t] # origin[s]
      BY <1>1, <3>1 DEF AtMostOneEstablishing
    <3>3. pending[origin[t]] = t \/ origin[t] \in unsupported
      BY <3>1 DEF PendingInv
    <3>4. QED
      BY <1>2, <3>1, <3>2, <3>3
  <2>3. QED
    BY <2>1, <2>2 DEF PendingInv
<1>8. GuardInv'
  BY <1>1, <1>2, <1>4 DEF GuardInv, Guarded
<1>9. LiveStreams'
  <2> HIDE DEF becomes
  <2>1. phase'[s] \in {"ready", "closing"}
    BY <1>1, <1>3 DEF becomes
  <2>2. \A t \in Sessions : t # s /\ phase[t] \in {"ready", "closing"} => phase'[t] \in {"ready", "closing"}
    BY <1>1, <1>3 DEF becomes
  <2>3. \A r \in Requests : stream'[r] = IF waiting[r] = s THEN s ELSE stream[r]
    BY <1>2
  <2> QED
    BY <2>1, <2>2, <2>3 DEF LiveStreams
<1>10. QED
  BY <1>5, <1>6, <1>7, <1>8, <1>9

(* A request opens a session only if nothing is pending and the origin is not unsupported,  *)
(* hence only if no other session of the origin is being established.                       *)
LEMMA ConnectStep ==
    ASSUME EstablishmentInv, NEW r \in Requests, NEW o \in Origins, Connect(r, o)
    PROVE  EstablishmentInv'
<1> USE NoSessionIsNone DEF EstablishmentInv, PoolTypes, Establishing
<1>1. PICK s \in Sessions :
        /\ phase[s] = "unused"
        /\ phase' = [phase EXCEPT ![s] = "connecting"]
        /\ origin' = [origin EXCEPT ![s] = o]
        /\ connectTimer' = connectTimer \cup {s}
        /\ pending' = [pending EXCEPT ![o] = s]
        /\ waiting' = [waiting EXCEPT ![r] = s]
  BY DEF Connect
<1>2. /\ UNCHANGED <<settingsTimer, unsupported>>
      /\ pending[o] = NoSession /\ o \notin unsupported
  BY DEF Connect, MayConnect
<1>3. \A t \in Sessions : Establishing(t) => t # s /\ origin[t] # o
  BY <1>1, <1>2 DEF PendingInv
<1>4. PoolTypes'
  BY <1>1, <1>2 DEF Phases, Connect
<1>5. AtMostOneEstablishing'
  BY <1>1, <1>3 DEF AtMostOneEstablishing
<1>6. PendingInv'
  BY <1>1, <1>2, <1>3 DEF PendingInv
<1>7. GuardInv'
  BY <1>1, <1>2 DEF GuardInv, Guarded
<1>8. LiveStreams'
  BY <1>1, <1>2 DEF LiveStreams, Connect
<1>9. QED
  BY <1>4, <1>5, <1>6, <1>7, <1>8

(* The other steps of a request.                                                            *)
LEMMA RequestStep ==
    ASSUME EstablishmentInv, NEW r \in Requests,
           \/ \E o \in Origins : UseCachedSession(r, o) \/ AwaitPendingSession(r, o)
           \/ StreamEnds(r) \/ StreamProtocolError(r)
    PROVE  EstablishmentInv'
<1> USE NoSessionIsNone DEF EstablishmentInv, PoolTypes, Establishing
<1>1. ASSUME NEW o \in Origins, UseCachedSession(r, o) PROVE EstablishmentInv'
  <2>1. PICK s : /\ stream' = [stream EXCEPT ![r] = IF phase[s] = "ready" THEN s ELSE NoSession]
                 /\ s \in Sessions
    BY <1>1 DEF UseCachedSession, CachedFor
  <2>2. EstablishmentUntouched
    BY <1>1, <2>1 DEF UseCachedSession, EstablishmentUntouched, LiveStreams
  <2>3. QED
    BY <2>2, UntouchedStep
<1>2. ASSUME NEW o \in Origins, AwaitPendingSession(r, o) PROVE EstablishmentInv'
  BY <1>2 DEF AwaitPendingSession, timerVars, poolVars, PendingInv, AtMostOneEstablishing,
              GuardInv, Guarded, LiveStreams
<1>3. CASE StreamEnds(r) \/ StreamProtocolError(r)
  <2>1. EstablishmentUntouched
    <3>1. CASE StreamEnds(r)
      BY <3>1 DEF StreamEnds, EstablishmentUntouched, LiveStreams, poolVars
    <3>2. CASE StreamProtocolError(r)
      BY <3>2 DEF StreamProtocolError, StreamsWithout, EstablishmentUntouched, LiveStreams,
                  poolVars, Phases
    <3>3. QED
      BY <1>3, <3>1, <3>2
  <2>2. QED
    BY <2>1, UntouchedStep
<1>4. QED
  BY <1>1, <1>2, <1>3

-----------------------------------------------------------------------------
(* No session is pending at first. *)
LEMMA EstablishmentInit == Init => EstablishmentInv
BY NoSessionIsNone DEF Init, EstablishmentInv, PoolTypes, PendingInv, AtMostOneEstablishing,
   GuardInv, LiveStreams, Establishing, Phases

(* Timers are armed for opened sessions only. *)
TimersOpened == \A s \in connectTimer \cup settingsTimer : phase[s] # "unused"

(* Every step keeps the establishment invariant. *)
LEMMA EstablishmentStep ==
    ASSUME EstablishmentInv, TimersOpened, [Next]_vars
    PROVE  EstablishmentInv'
<1>1. ASSUME NEW r \in Requests, NEW o \in Origins, Request(r, o) PROVE EstablishmentInv'
  BY <1>1, ConnectStep, RequestStep DEF Request
<1>2. ASSUME NEW r \in Requests, StreamEnds(r) \/ StreamProtocolError(r) PROVE EstablishmentInv'
  BY <1>2, RequestStep
<1>3. ASSUME NEW s \in Sessions, Connected(s) PROVE EstablishmentInv'
  BY <1>3 DEF Connected, EstablishmentInv, PoolTypes, PendingInv, AtMostOneEstablishing,
              GuardInv, Guarded, LiveStreams, Establishing, Phases, poolVars
<1>4. ASSUME NEW s \in Sessions, LocalSettings(s) PROVE EstablishmentInv'
  BY <1>4, LocalSettingsStep
<1>5. ASSUME NEW s \in Sessions, NEW refused \in BOOLEAN, ErrorBeforeReady(s, refused)
      PROVE  EstablishmentInv'
  BY <1>5, FailureStep DEF ErrorBeforeReady, Establishing, timerVars
<1>6. ASSUME NEW s \in Sessions, ConnectTimeout(s) PROVE EstablishmentInv'
  <2>1. phase[s] # "unused" /\ EstablishmentFailed(s, TRUE)
        /\ connectTimer' = connectTimer \ {s} /\ UNCHANGED settingsTimer
    BY <1>6 DEF ConnectTimeout, TimersOpened, TimeoutMeansUnsupported
  <2>2. QED
    BY <2>1, FailureStep
<1>7. ASSUME NEW s \in Sessions, LocalSettingsTimeout(s) PROVE EstablishmentInv'
  <2>1. phase[s] # "unused" /\ EstablishmentFailed(s, TRUE)
        /\ settingsTimer' = settingsTimer \ {s} /\ UNCHANGED connectTimer
    BY <1>7 DEF LocalSettingsTimeout, TimersOpened, TimeoutMeansUnsupported
  <2>2. QED
    BY <2>1, FailureStep
<1>8. ASSUME NEW s \in Sessions, GoAway(s) \/ ConnectionReset(s) \/ IdleTimeout(s) \/ Close(s)
      PROVE  EstablishmentInv'
  BY <1>8, LaterLifeUntouched, UntouchedStep DEF EstablishmentInv
<1>9. CASE UNCHANGED vars
  BY <1>9 DEF vars, timerVars, poolVars, EstablishmentInv, PoolTypes, PendingInv,
              AtMostOneEstablishing, GuardInv, Guarded, LiveStreams, Establishing
<1>10. QED
  BY <1>1, <1>2, <1>3, <1>4, <1>5, <1>6, <1>7, <1>8, <1>9 DEF Next

(* A session never becomes unused again, and only opened sessions get a timer.              *)
LEMMA TimersStep ==
    ASSUME EstablishmentInv, TimersOpened, [Next]_vars
    PROVE  TimersOpened'
<1> USE DEF EstablishmentInv, PoolTypes, TimersOpened
<1>1. ASSUME NEW r \in Requests, NEW o \in Origins, Request(r, o) PROVE TimersOpened'
  <2>1. CASE UseCachedSession(r, o) \/ AwaitPendingSession(r, o)
    BY <2>1 DEF UseCachedSession, AwaitPendingSession, timerVars
  <2>2. CASE Connect(r, o)
    BY <2>2 DEF Connect
  <2>3. QED
    BY <1>1, <2>1, <2>2 DEF Request
<1>2. ASSUME NEW r \in Requests, StreamEnds(r) \/ StreamProtocolError(r) PROVE TimersOpened'
  BY <1>2 DEF StreamEnds, StreamProtocolError, timerVars
<1>3. ASSUME NEW s \in Sessions, Connected(s) PROVE TimersOpened'
  BY <1>3 DEF Connected
<1>4. ASSUME NEW s \in Sessions, LocalSettings(s) PROVE TimersOpened'
  <2> DEFINE becomes == [phase EXCEPT ![s] = "ready"]
  <2>1. /\ becomes \in [Sessions -> Phases]
        /\ phase' = Disposed(Cached \ {cache'[i] : i \in DOMAIN cache'}, becomes)
        /\ UNCHANGED connectTimer /\ settingsTimer' = settingsTimer \ {s}
    BY <1>4 DEF LocalSettings, CacheSet, Phases
  <2>2. \A t \in Sessions : phase'[t] = becomes[t] \/ phase'[t] = "closing"
    <3> HIDE DEF becomes
    <3>1. QED
      BY <2>1, DisposedLemma
  <2>3. QED
    BY <2>1, <2>2
<1>5. ASSUME NEW s \in Sessions, NEW refused, EstablishmentFailed(s, refused),
             connectTimer' \subseteq connectTimer, settingsTimer' \subseteq settingsTimer
      PROVE  TimersOpened'
  BY <1>5 DEF EstablishmentFailed
<1>6. ASSUME NEW s \in Sessions,
             \/ \E refused \in BOOLEAN : ErrorBeforeReady(s, refused)
             \/ ConnectTimeout(s) \/ LocalSettingsTimeout(s)
      PROVE  TimersOpened'
  BY <1>5, <1>6 DEF ErrorBeforeReady, ConnectTimeout, LocalSettingsTimeout, timerVars
<1>7. ASSUME NEW s \in Sessions, GoAway(s) \/ ConnectionReset(s) PROVE TimersOpened'
  BY <1>7 DEF GoAway, ConnectionReset, timerVars
<1>8. ASSUME NEW s \in Sessions, IdleTimeout(s) PROVE TimersOpened'
  <2>1. phase' = Disposed(CachedFor(origin[s]), phase) /\ UNCHANGED timerVars
    BY <1>8 DEF IdleTimeout, CacheDel
  <2>2. QED
    BY <2>1, DisposedLemma DEF timerVars
<1>9. ASSUME NEW s \in Sessions, Close(s) PROVE TimersOpened'
  <2> DEFINE becomes == [phase EXCEPT ![s] = "closed"]
  <2>1. /\ becomes \in [Sessions -> Phases]
        /\ phase' = becomes \/ phase' = Disposed(CachedFor(origin[s]), becomes)
        /\ UNCHANGED timerVars
    BY <1>9 DEF Close, DeleteEntry, CacheDel, Phases
  <2>2. \A t \in Sessions : phase'[t] = becomes[t] \/ phase'[t] = "closing"
    <3> HIDE DEF becomes
    <3>1. QED
      BY <2>1, DisposedLemma
  <2>3. QED
    BY <2>1, <2>2 DEF timerVars
<1>10. CASE UNCHANGED vars
  BY <1>10 DEF vars, timerVars
<1>11. QED
  BY <1>1, <1>2, <1>3, <1>4, <1>6, <1>7, <1>8, <1>9, <1>10 DEF Next

-----------------------------------------------------------------------------
(* The cache.  An entry has been ready, so that its session takes it away when it closes.   *)
Elements(c) == {c[i] : i \in DOMAIN c}

OfDistinctOrigins(c) == \A i, j \in DOMAIN c : origin[c[i]] = origin[c[j]] => i = j

CacheTypes ==
    /\ cache \in Seq(Sessions)
    /\ everReady \subseteq Sessions /\ idleHandler \subseteq Sessions
    /\ unsupported \subseteq Origins

CacheInv == CacheIsSound /\ Cached \subseteq everReady

(* Only sessions are cached. *)
LEMMA CachedAreSessions ==
    ASSUME CacheTypes
    PROVE  Cached \subseteq Sessions
BY ElementOfSeq, LenProperties DEF Cached, CacheTypes

(* What is left when one entry of a sequence is taken out. *)
LEMMA RemoveAtLemma ==
    ASSUME NEW S, NEW c \in Seq(S), NEW i \in 1..Len(c)
    PROVE  /\ RemoveAt(c, i) \in Seq(S)
           /\ Len(RemoveAt(c, i)) = Len(c) - 1
           /\ \A j \in 1..(Len(c) - 1) : RemoveAt(c, i)[j] = c[IF j < i THEN j ELSE j + 1]
<1> DEFINE a == SubSeq(c, 1, i - 1)
           b == SubSeq(c, i + 1, Len(c))
<1>1. Len(c) \in Nat /\ \A j \in 1..Len(c) : c[j] \in S
  BY LenProperties, ElementOfSeq
<1>2. /\ a \in Seq(S) /\ Len(a) = i - 1
      /\ \A j \in 1..(i - 1) : a[j] = c[j]
  BY <1>1
<1>3. /\ b \in Seq(S) /\ Len(b) = Len(c) - i
      /\ \A j \in 1..(Len(c) - i) : b[j] = c[i + j]
  BY <1>1
<1>4. RemoveAt(c, i) = a \o b
  BY DEF RemoveAt
<1> HIDE DEF a, b
<1>5. /\ a \o b \in Seq(S) /\ Len(a \o b) = Len(c) - 1
      /\ \A j \in 1..(Len(c) - 1) : (a \o b)[j] = IF j <= i - 1 THEN a[j] ELSE b[j - (i - 1)]
  BY <1>1, <1>2, <1>3, ConcatProperties
<1>6. ASSUME NEW j \in 1..(Len(c) - 1) PROVE (a \o b)[j] = c[IF j < i THEN j ELSE j + 1]
  <2>1. CASE j < i
    BY <1>1, <1>2, <1>5, <2>1
  <2>2. CASE ~(j < i)
    <3>1. j - (i - 1) \in 1..(Len(c) - i) /\ i + (j - (i - 1)) = j + 1
      BY <1>1, <2>2
    <3>2. (a \o b)[j] = b[j - (i - 1)]
      BY <1>1, <1>5, <2>2
    <3> QED
      BY <3>1, <3>2, <1>3, <2>2
  <2> QED
    BY <2>1, <2>2
<1> QED
  BY <1>4, <1>5, <1>6

(* Taking the entry of an origin out of the cache leaves every other entry. *)
LEMMA WithoutLemma ==
    ASSUME cache \in Seq(Sessions), OfDistinctOrigins(cache), NEW o
    PROVE  /\ Without(o) \in Seq(Sessions)
           /\ Len(Without(o)) <= Len(cache)
           /\ Elements(Without(o)) = Cached \ CachedFor(o)
           /\ OfDistinctOrigins(Without(o))
           /\ CachedFor(o) # {} => Len(Without(o)) < Len(cache)
<1>1. Len(cache) \in Nat /\ DOMAIN cache = 1..Len(cache) /\ \A i \in 1..Len(cache) : cache[i] \in Sessions
  BY LenProperties, ElementOfSeq
<1>2. CASE Entries(o) = {}
  <2>1. CachedFor(o) = {} /\ Without(o) = cache
    BY <1>2 DEF CachedFor, Cached, Entries, Without
  <2> QED
    BY <2>1, <1>1 DEF Elements, Cached
<1>3. CASE Entries(o) # {}
  <2> DEFINE e == CHOOSE i \in Entries(o) : TRUE
             c == RemoveAt(cache, e)
  <2>0. e \in Entries(o) /\ Without(o) = c
    <3>1. e \in Entries(o)
      BY <1>3
    <3>2. Without(o) = c
      BY <1>3 DEF Without
    <3> QED
      BY <3>1, <3>2
  <2>1. e \in 1..Len(cache) /\ origin[cache[e]] = o /\ Without(o) = c
    BY <2>0, <1>1 DEF Entries
  <2>2. CachedFor(o) = {cache[e]}
    BY <1>1, <2>1 DEF CachedFor, Cached, OfDistinctOrigins
  <2> HIDE DEF e
  <2>3. /\ c \in Seq(Sessions) /\ Len(c) = Len(cache) - 1 /\ DOMAIN c = 1..(Len(cache) - 1)
        /\ \A j \in 1..(Len(cache) - 1) : c[j] = cache[IF j < e THEN j ELSE j + 1]
    BY <2>1, <1>1, RemoveAtLemma, LenProperties
  <2> HIDE DEF c
  <2>4. \A x \in Elements(c) : x \in Cached /\ x # cache[e]
    <3>1. ASSUME NEW j \in 1..(Len(cache) - 1) PROVE c[j] \in Cached /\ c[j] # cache[e]
      <4>1. /\ (IF j < e THEN j ELSE j + 1) \in 1..Len(cache)
            /\ (IF j < e THEN j ELSE j + 1) # e
        BY <1>1, <2>1
      <4> QED
        BY <4>1, <2>1, <2>3, <1>1 DEF Cached, OfDistinctOrigins
    <3> QED
      BY <3>1, <2>3 DEF Elements
  <2>5. ASSUME NEW x \in Cached, x # cache[e] PROVE x \in Elements(c)
    <3>1. PICK k \in 1..Len(cache) : x = cache[k]
      BY <1>1 DEF Cached
    <3>2. k # e
      BY <3>1, <2>5
    <3>3. CASE k < e
      BY <3>1, <3>3, <2>1, <2>3, <1>1 DEF Elements
    <3>4. CASE k > e
      <4>1. k - 1 \in 1..(Len(cache) - 1) /\ ~(k - 1 < e) /\ (k - 1) + 1 = k
        BY <3>4, <2>1, <1>1
      <4>2. c[k - 1] = x
        BY <4>1, <3>1, <2>3
      <4> QED
        BY <4>1, <4>2, <2>3 DEF Elements
    <3> QED
      BY <3>2, <3>3, <3>4, <2>1, <1>1
  <2>6. OfDistinctOrigins(c)
    <3>1. ASSUME NEW i \in 1..(Len(cache) - 1), NEW j \in 1..(Len(cache) - 1),
                 origin[c[i]] = origin[c[j]]
          PROVE  i = j
      <4> DEFINE p == IF i < e THEN i ELSE i + 1
                 q == IF j < e THEN j ELSE j + 1
      <4>1. p \in 1..Len(cache) /\ q \in 1..Len(cache) /\ (p = q => i = j)
        BY <1>1, <2>1
      <4>2. c[i] = cache[p] /\ c[j] = cache[q]
        BY <2>3
      <4> HIDE DEF p, q
      <4>3. p = q
        BY <4>1, <4>2, <3>1, <1>1 DEF OfDistinctOrigins
      <4> QED
        BY <4>1, <4>3
    <3> QED
      BY <3>1, <2>3 DEF OfDistinctOrigins
  <2> QED
    BY <1>1, <2>1, <2>2, <2>3, <2>4, <2>5, <2>6 DEF Elements
<1> QED
  BY <1>2, <1>3

(* A session put in front of a cache that has none of its origin. *)
LEMMA PrependLemma ==
    ASSUME NEW s \in Sessions, NEW c \in Seq(Sessions), OfDistinctOrigins(c),
           \A x \in Elements(c) : origin[x] # origin[s]
    PROVE  /\ <<s>> \o c \in Seq(Sessions)
           /\ Len(<<s>> \o c) = Len(c) + 1
           /\ (<<s>> \o c)[1] = s
           /\ Elements(<<s>> \o c) = {s} \cup Elements(c)
           /\ OfDistinctOrigins(<<s>> \o c)
<1> DEFINE d == <<s>> \o c
<1>1. Len(c) \in Nat /\ DOMAIN c = 1..Len(c)
  BY LenProperties
<1>2. /\ d \in Seq(Sessions) /\ Len(d) = Len(c) + 1 /\ DOMAIN d = 1..(Len(c) + 1)
      /\ d[1] = s /\ \A i \in 2..(Len(c) + 1) : d[i] = c[i - 1]
  <2>1. /\ <<s>> \in Seq(Sessions) /\ Len(<<s>>) = 1 /\ <<s>>[1] = s
    OBVIOUS
  <2>2. /\ d \in Seq(Sessions) /\ Len(d) = 1 + Len(c)
        /\ \A i \in 1..(1 + Len(c)) : d[i] = IF i <= 1 THEN <<s>>[i] ELSE c[i - 1]
    BY <2>1, ConcatProperties
  <2> HIDE DEF d
  <2> QED
    BY <1>1, <2>1, <2>2, LenProperties
<1> HIDE DEF d
<1>3. \A i \in 2..(Len(c) + 1) : i - 1 \in 1..Len(c) /\ d[i] \in Elements(c)
  BY <1>1, <1>2 DEF Elements
<1>4. \A i \in 1..Len(c) : i + 1 \in 2..(Len(c) + 1) /\ d[i + 1] = c[i]
  BY <1>1, <1>2
<1>5. Elements(d) = {s} \cup Elements(c)
  <2>1. \A i \in DOMAIN d : d[i] \in {s} \cup Elements(c)
    BY <1>1, <1>2, <1>3
  <2>2. \A x \in Elements(c) : \E i \in DOMAIN d : d[i] = x
    BY <1>1, <1>2, <1>4 DEF Elements
  <2>3. 1 \in DOMAIN d /\ d[1] = s
    BY <1>1, <1>2
  <2>4. Elements(d) \subseteq {s} \cup Elements(c)
    BY <2>1 DEF Elements
  <2>5. {s} \subseteq Elements(d) /\ Elements(c) \subseteq Elements(d)
    BY <2>2, <2>3 DEF Elements
  <2> QED
    BY <2>4, <2>5
<1>6. OfDistinctOrigins(d)
  <2>1. ASSUME NEW i \in 1..(Len(c) + 1), NEW j \in 1..(Len(c) + 1), origin[d[i]] = origin[d[j]]
        PROVE  i = j
    <3>1. CASE i = 1 \/ j = 1
      BY <3>1, <2>1, <1>1, <1>2, <1>3
    <3>2. CASE i # 1 /\ j # 1
      <4>1. i \in 2..(Len(c) + 1) /\ j \in 2..(Len(c) + 1)
        BY <3>2, <1>1
      <4>2. i - 1 \in DOMAIN c /\ j - 1 \in DOMAIN c /\ d[i] = c[i - 1] /\ d[j] = c[j - 1]
        BY <4>1, <1>1, <1>2, <1>3
      <4>3. i - 1 = j - 1
        BY <4>2, <2>1 DEF OfDistinctOrigins
      <4> QED
        BY <4>1, <4>3, <1>1
    <3> QED
      BY <3>1, <3>2
  <2> QED
    BY <2>1, <1>2 DEF OfDistinctOrigins
<1> QED
  BY <1>2, <1>5, <1>6 DEF d

(* The cut keeps the first entry and at most CacheSize of them. *)
LEMMA TrimLemma ==
    ASSUME NEW c \in Seq(Sessions), OfDistinctOrigins(c), Len(c) >= 1
    PROVE  /\ Trim(c) \in Seq(Sessions)
           /\ Len(Trim(c)) <= CacheSize
           /\ Elements(Trim(c)) \subseteq Elements(c) /\ c[1] \in Elements(Trim(c))
           /\ OfDistinctOrigins(Trim(c))
<1>1. /\ Len(c) \in Nat /\ DOMAIN c = 1..Len(c) /\ CacheSize \in Nat \ {0}
      /\ \A i \in 1..Len(c) : c[i] \in Sessions
  BY LenProperties, ElementOfSeq, SizesAssumption
<1>2. CASE Len(c) > CacheSize
  <2> DEFINE t == SubSeq(c, 1, CacheSize)
  <2>1. Trim(c) = t
    BY <1>2 DEF Trim
  <2>2. /\ t \in Seq(Sessions) /\ Len(t) = CacheSize /\ DOMAIN t = 1..CacheSize
        /\ \A i \in 1..CacheSize : t[i] = c[i] /\ i \in DOMAIN c
    BY <1>1, <1>2
  <2> HIDE DEF t
  <2>3. 1 \in 1..CacheSize
    BY <1>1
  <2> QED
    BY <1>1, <2>1, <2>2, <2>3 DEF Elements, OfDistinctOrigins
<1>3. CASE ~(Len(c) > CacheSize)
  BY <1>1, <1>3 DEF Trim, Elements
<1> QED
  BY <1>2, <1>3

(* A step that leaves the cache alone, and makes no session ready.                          *)
LEMMA CacheUntouched ==
    ASSUME CacheTypes, CacheInv, UNCHANGED <<cache, everReady>>,
           \A s \in Cached : origin'[s] = origin[s],
           \A s \in Cached : phase'[s] \in {"ready", "closing", "destroyed"},
           \A s \in Sessions : phase'[s] = "ready" => phase[s] = "ready"
    PROVE  CacheInv'
<1>1. \A i \in DOMAIN cache : cache[i] \in Cached
  BY DEF Cached
<1>2. Cached' = Cached
  BY DEF Cached
<1> QED
  BY <1>1, <1>2 DEF CacheInv, CacheIsSound

(* The cache is empty at first. *)
LEMMA CacheInit == Init => CacheTypes /\ CacheInv
<1> SUFFICES ASSUME Init PROVE CacheTypes /\ CacheInv
  OBVIOUS
<1>1. cache = <<>> /\ CacheSize \in Nat /\ \A s \in Sessions : phase[s] # "ready"
  BY SizesAssumption DEF Init
<1>2. Cached = {}
  BY <1>1 DEF Cached
<1> QED
  BY <1>1, <1>2 DEF Init, CacheTypes, CacheInv, CacheIsSound

(* del: the sessions of the origin are closing if they were ready, none is cached.          *)
LEMMA CacheDelStep ==
    ASSUME EstablishmentInv, CacheTypes, CacheInv, NEW o,
           NEW becomes \in [Sessions -> Phases],
           \A s \in Sessions : becomes[s] = "ready" => phase[s] = "ready",
           \A s \in Cached \ CachedFor(o) : becomes[s] = phase[s],
           CacheDel(o, becomes), UNCHANGED <<origin, everReady>>
    PROVE  cache' \in Seq(Sessions) /\ CacheInv'
<1>1. cache' = Without(o) /\ phase' = Disposed(CachedFor(o), becomes)
  BY DEF CacheDel
<1>2. OfDistinctOrigins(cache)
  BY DEF CacheInv, CacheIsSound, OfDistinctOrigins
<1>3. /\ cache' \in Seq(Sessions) /\ Len(cache') <= Len(cache)
      /\ Elements(cache') = Cached \ CachedFor(o)
      /\ OfDistinctOrigins(cache')
  BY <1>1, <1>2, WithoutLemma DEF CacheTypes
<1>4. Len(cache') <= CacheSize
  <2>1. Len(cache) \in Nat /\ Len(cache') \in Nat
    BY <1>3, LenProperties DEF CacheTypes
  <2> QED
    BY <2>1, <1>3, SizesAssumption DEF CacheInv, CacheIsSound
<1>5. Cached' = Cached \ CachedFor(o)
  BY <1>3 DEF Cached, Elements
<1>6. \A i, j \in DOMAIN cache' : origin'[cache'[i]] = origin'[cache'[j]] => i = j
  BY <1>3 DEF OfDistinctOrigins
<1>7. ASSUME NEW s \in Cached'
      PROVE  phase'[s] \in {"ready", "closing", "destroyed"} /\ s \in everReady'
  <2>1. s \in Cached \ CachedFor(o) /\ s \in Sessions
    BY <1>5, <1>7, CachedAreSessions
  <2> QED
    BY <2>1, <1>1, DisposedLemma DEF CacheInv, CacheIsSound
<1>8. ASSUME NEW s \in Sessions, phase'[s] = "ready" PROVE s \in Cached'
  <2>1. becomes[s] = "ready" /\ s \notin CachedFor(o)
    BY <1>1, <1>8 DEF Disposed
  <2>2. s \in Cached
    BY <2>1 DEF CacheInv, CacheIsSound
  <2> QED
    BY <2>1, <2>2, <1>5
<1> QED
  BY <1>3, <1>4, <1>6, <1>7, <1>8 DEF CacheInv, CacheIsSound

(* 'localSettings': the session is the first of the cache; what the cache no longer has is  *)
(* disposed of.                                                                             *)
LEMMA CacheSetStep ==
    ASSUME EstablishmentInv, CacheTypes, CacheInv, NEW s \in Sessions, LocalSettings(s)
    PROVE  cache' \in Seq(Sessions) /\ CacheInv'
<1> DEFINE becomes == [phase EXCEPT ![s] = "ready"]
           rest == Without(origin[s])
           all == <<s>> \o rest
<1>1. /\ cache' = Trim(all) /\ phase' = Disposed(Cached \ Elements(cache'), becomes)
      /\ origin' = origin /\ everReady' = everReady \cup {s}
      /\ phase[s] = "connected" /\ becomes \in [Sessions -> Phases]
  BY DEF LocalSettings, CacheSet, Elements, EstablishmentInv, PoolTypes, Phases
<1>2. OfDistinctOrigins(cache) /\ cache \in Seq(Sessions)
  BY DEF CacheInv, CacheIsSound, OfDistinctOrigins, CacheTypes
<1>3. \A x \in Cached : x \in Sessions
  BY CachedAreSessions
<1>4. /\ rest \in Seq(Sessions) /\ OfDistinctOrigins(rest)
      /\ Elements(rest) = Cached \ CachedFor(origin[s])
  BY <1>2, WithoutLemma
<1>5. \A x \in Elements(rest) : origin[x] # origin[s]
  BY <1>3, <1>4 DEF CachedFor
<1> HIDE DEF rest
<1>6. /\ all \in Seq(Sessions) /\ Len(all) = Len(rest) + 1 /\ all[1] = s
      /\ Elements(all) = {s} \cup Elements(rest) /\ OfDistinctOrigins(all)
  BY <1>4, <1>5, PrependLemma
<1>7. Len(rest) \in Nat
  BY <1>4, LenProperties
<1> HIDE DEF all
<1>8. /\ cache' \in Seq(Sessions) /\ Len(cache') <= CacheSize
      /\ Elements(cache') \subseteq Elements(all) /\ s \in Elements(cache')
      /\ OfDistinctOrigins(cache')
  <2>1. Len(all) >= 1
    BY <1>6, <1>7
  <2> QED
    BY <2>1, <1>1, <1>6, TrimLemma
<1>9. Cached' = Elements(cache')
  BY DEF Cached, Elements
<1>10. \A i, j \in DOMAIN cache' : origin'[cache'[i]] = origin'[cache'[j]] => i = j
  BY <1>1, <1>8 DEF OfDistinctOrigins
<1>11. becomes[s] = "ready" /\ \A t \in Sessions : t # s => becomes[t] = phase[t]
  BY <1>1 DEF EstablishmentInv, PoolTypes
<1> HIDE DEF becomes
<1>12. ASSUME NEW t \in Cached'
       PROVE  phase'[t] \in {"ready", "closing", "destroyed"} /\ t \in everReady'
  <2>1. t = s \/ t \in Cached
    BY <1>4, <1>6, <1>8, <1>9, <1>12
  <2>2. t \in Sessions /\ becomes[t] \in {"ready", "closing", "destroyed"} /\ t \in everReady'
    BY <2>1, <1>1, <1>3, <1>11 DEF CacheInv, CacheIsSound
  <2> QED
    BY <2>2, <1>1, DisposedLemma
<1>13. ASSUME NEW t \in Sessions, phase'[t] = "ready" PROVE t \in Cached'
  <2>1. becomes[t] = "ready" /\ t \notin Cached \ Elements(cache')
    BY <1>1, <1>13 DEF Disposed
  <2>2. t = s \/ t \in Cached
    BY <2>1, <1>11 DEF CacheInv, CacheIsSound
  <2> QED
    BY <2>1, <2>2, <1>8, <1>9
<1> QED
  BY <1>8, <1>10, <1>12, <1>13 DEF CacheInv, CacheIsSound

(* A request that uses the session of its origin makes it the first of the cache.           *)
LEMMA CacheGetStep ==
    ASSUME CacheTypes, CacheInv, NEW r, NEW o, UseCachedSession(r, o)
    PROVE  cache' \in Seq(Sessions) /\ CacheInv'
<1> DEFINE rest == Without(o)
<1>1. PICK s \in Sessions : s \in CachedFor(o) /\ cache' = <<s>> \o rest
  BY DEF UseCachedSession, CachedFor
<1>2. UNCHANGED <<origin, phase, everReady>> /\ s \in Cached /\ origin[s] = o
  BY <1>1 DEF UseCachedSession, handlers, CachedFor
<1>3. /\ rest \in Seq(Sessions) /\ OfDistinctOrigins(rest) /\ Len(rest) < Len(cache)
      /\ Elements(rest) = Cached \ CachedFor(o)
  BY <1>1, WithoutLemma DEF CacheTypes, CacheInv, CacheIsSound, OfDistinctOrigins
<1>4. \A x \in Elements(rest) : origin[x] # origin[s]
  BY <1>2, <1>3, CachedAreSessions DEF CachedFor
<1> HIDE DEF rest
<1>5. /\ cache' \in Seq(Sessions) /\ Len(cache') = Len(rest) + 1
      /\ Elements(cache') = {s} \cup Elements(rest) /\ OfDistinctOrigins(cache')
  BY <1>1, <1>3, <1>4, PrependLemma
<1>6. Len(cache') <= CacheSize
  <2>1. Len(rest) \in Nat /\ Len(cache) \in Nat /\ Len(cache) <= CacheSize
    BY <1>3, LenProperties DEF CacheTypes, CacheInv, CacheIsSound
  <2> QED
    BY <2>1, <1>3, <1>5, SizesAssumption
<1>7. CachedFor(o) = {s}
  <2>1. \A t \in CachedFor(o) : t \in Cached /\ origin[t] = origin[s]
    BY <1>2 DEF CachedFor
  <2>2. \A t \in Cached : origin[t] = origin[s] => t = s
    BY <1>2 DEF CacheInv, CacheIsSound, Cached
  <2> QED
    BY <2>1, <2>2, <1>1
<1>8. Cached' = Cached
  <2>1. Cached' = Elements(cache')
    BY DEF Cached, Elements
  <2> QED
    BY <2>1, <1>2, <1>3, <1>5, <1>7
<1>9. \A i, j \in DOMAIN cache' : origin'[cache'[i]] = origin'[cache'[j]] => i = j
  BY <1>2, <1>5 DEF OfDistinctOrigins
<1> QED
  BY <1>2, <1>5, <1>6, <1>8, <1>9 DEF CacheInv, CacheIsSound

(* Every step keeps the cache invariant. *)
LEMMA CacheStep ==
    ASSUME EstablishmentInv, TimersOpened, CacheTypes, CacheInv, [Next]_vars
    PROVE  CacheTypes' /\ CacheInv'
<1> DEFINE Other == UNCHANGED <<everReady, idleHandler, cache>> /\ unsupported' \subseteq Origins
<1>o. \A s \in Cached : /\ s \in Sessions /\ s \in everReady
                        /\ phase[s] \in {"ready", "closing", "destroyed"}
  BY CachedAreSessions DEF CacheInv, CacheIsSound
<1>t. unsupported \subseteq Origins /\ \A s \in Sessions : phase[s] # "unused" => origin[s] \in Origins
  BY DEF CacheTypes, EstablishmentInv, PoolTypes
<1>u. ASSUME Other, \A s \in Cached : origin'[s] = origin[s],
             \A s \in Cached : phase'[s] \in {"ready", "closing", "destroyed"},
             \A s \in Sessions : phase'[s] = "ready" => phase[s] = "ready"
      PROVE  CacheTypes' /\ CacheInv'
  BY <1>u, CacheUntouched DEF CacheTypes
<1> USE DEF handlers, poolVars, timerVars
<1>1. ASSUME NEW r \in Requests, NEW o \in Origins, UseCachedSession(r, o)
      PROVE  CacheTypes' /\ CacheInv'
  BY <1>1, <1>t, CacheGetStep DEF UseCachedSession, CacheTypes
<1>2. ASSUME NEW r \in Requests, NEW o \in Origins, AwaitPendingSession(r, o)
      PROVE  CacheTypes' /\ CacheInv'
  BY <1>2, <1>o, <1>t, <1>u DEF AwaitPendingSession
<1>3. ASSUME NEW r \in Requests, NEW o \in Origins, Connect(r, o)
      PROVE  CacheTypes' /\ CacheInv'
  <2>1. PICK s \in Sessions : /\ phase[s] = "unused"
                              /\ phase' = [phase EXCEPT ![s] = "connecting"]
                              /\ origin' = [origin EXCEPT ![s] = o]
    BY <1>3 DEF Connect
  <2>2. s \notin Cached
    BY <2>1, <1>o
  <2>3. /\ \A t \in Cached : origin'[t] = origin[t] /\ phase'[t] = phase[t]
        /\ \A t \in Sessions : phase'[t] = "ready" => phase[t] = "ready"
    BY <2>1, <2>2, <1>o DEF EstablishmentInv, PoolTypes
  <2>4. Other
    BY <1>3, <1>t DEF Connect
  <2> QED
    BY <2>3, <2>4, <1>o, <1>u
<1>4. ASSUME NEW r \in Requests, StreamEnds(r) PROVE CacheTypes' /\ CacheInv'
  BY <1>4, <1>o, <1>t, <1>u DEF StreamEnds
<1>5. ASSUME NEW s \in Sessions, phase' = [phase EXCEPT ![s] = "destroyed"] \/ phase' = [phase EXCEPT ![s] = "closing"],
             UNCHANGED origin, Other
      PROVE  CacheTypes' /\ CacheInv'
  <2>1. /\ \A t \in Cached : phase'[t] \in {"ready", "closing", "destroyed"}
        /\ \A t \in Sessions : phase'[t] = "ready" => phase[t] = "ready"
    BY <1>5, <1>o DEF EstablishmentInv, PoolTypes
  <2> QED
    BY <2>1, <1>5, <1>u
<1>6. ASSUME NEW r \in Requests, StreamProtocolError(r) PROVE CacheTypes' /\ CacheInv'
  <2>1. stream[r] \in Sessions
    BY <1>6 DEF StreamProtocolError, EstablishmentInv, PoolTypes
  <2> QED
    BY <2>1, <1>5, <1>6, <1>t DEF StreamProtocolError
<1>7. ASSUME NEW s \in Sessions, GoAway(s) \/ ConnectionReset(s) PROVE CacheTypes' /\ CacheInv'
  BY <1>7, <1>5, <1>t DEF GoAway, ConnectionReset
<1>8. ASSUME NEW s \in Sessions, Connected(s) PROVE CacheTypes' /\ CacheInv'
  <2>1. /\ phase[s] = "connecting" /\ phase' = [phase EXCEPT ![s] = "connected"]
        /\ UNCHANGED origin /\ Other
    BY <1>8, <1>t DEF Connected
  <2>2. /\ \A t \in Cached : phase'[t] = phase[t]
        /\ \A t \in Sessions : phase'[t] = "ready" => phase[t] = "ready"
    BY <2>1, <1>o DEF EstablishmentInv, PoolTypes
  <2> QED
    BY <2>1, <2>2, <1>o, <1>u
<1>9. ASSUME NEW s \in Sessions, LocalSettings(s) PROVE CacheTypes' /\ CacheInv'
  BY <1>9, <1>t, CacheSetStep DEF LocalSettings, CacheTypes
<1>10. ASSUME NEW s \in Sessions, NEW refused \in BOOLEAN, phase[s] # "unused",
              EstablishmentFailed(s, refused)
       PROVE  CacheTypes' /\ CacheInv'
  <2>1. /\ UNCHANGED <<origin, everReady, idleHandler, cache>>
        /\ unsupported' = unsupported \cup IF refused THEN {origin[s]} ELSE {}
        /\ phase' = [phase EXCEPT ![s] = IF phase[s] = "closed" THEN phase[s] ELSE "destroyed"]
    BY <1>10 DEF EstablishmentFailed, OriginPushed
  <2>2. Other
    BY <2>1, <1>10, <1>t
  <2>3. /\ \A t \in Cached : phase'[t] \in {"ready", "closing", "destroyed"}
        /\ \A t \in Sessions : phase'[t] = "ready" => phase[t] = "ready"
    BY <2>1, <1>o DEF EstablishmentInv, PoolTypes
  <2> QED
    BY <2>1, <2>2, <2>3, <1>u
<1>11. ASSUME NEW s \in Sessions, NEW refused \in BOOLEAN, ErrorBeforeReady(s, refused)
       PROVE  CacheTypes' /\ CacheInv'
  BY <1>10, <1>11 DEF ErrorBeforeReady
<1>12. ASSUME NEW s \in Sessions, ConnectTimeout(s) \/ LocalSettingsTimeout(s)
       PROVE  CacheTypes' /\ CacheInv'
  BY <1>10, <1>12 DEF ConnectTimeout, LocalSettingsTimeout, TimeoutMeansUnsupported, TimersOpened
<1>13. ASSUME NEW s \in Sessions, IdleTimeout(s) PROVE CacheTypes' /\ CacheInv'
  <2>1. /\ CacheDel(origin[s], phase) /\ UNCHANGED <<origin, everReady, unsupported>>
        /\ idleHandler' \subseteq Sessions /\ phase \in [Sessions -> Phases]
    BY <1>13 DEF IdleTimeout, CacheTypes, EstablishmentInv, PoolTypes
  <2>2. cache' \in Seq(Sessions) /\ CacheInv'
    BY <2>1, CacheDelStep
  <2> QED
    BY <2>1, <2>2 DEF CacheTypes
<1>14. ASSUME NEW s \in Sessions, Close(s) PROVE CacheTypes' /\ CacheInv'
  <2> DEFINE becomes == [phase EXCEPT ![s] = "closed"]
  <2>1. /\ becomes \in [Sessions -> Phases]
        /\ \A t \in Sessions : t # s => becomes[t] = phase[t]
        /\ \A t \in Sessions : becomes[t] = "ready" => phase[t] = "ready"
    BY DEF EstablishmentInv, PoolTypes, Phases
  <2>2. /\ DeleteEntry(s, becomes)
        /\ UNCHANGED <<origin, everReady, idleHandler, unsupported>>
    BY <1>14 DEF Close
  <2> HIDE DEF becomes
  <2>3. CASE s \in everReady
    <3>1. CacheDel(origin[s], becomes)
      BY <2>2, <2>3 DEF DeleteEntry
    <3>2. \A t \in Cached \ CachedFor(origin[s]) : becomes[t] = phase[t]
      BY <2>1, <1>o DEF CachedFor
    <3>3. cache' \in Seq(Sessions) /\ CacheInv'
      BY <2>1, <2>2, <3>1, <3>2, CacheDelStep
    <3> QED
      BY <2>2, <3>3 DEF CacheTypes
  <2>4. CASE s \notin everReady
    <3>1. phase' = becomes /\ UNCHANGED cache
      BY <2>2, <2>4 DEF DeleteEntry
    <3>2. \A t \in Cached : phase'[t] = phase[t]
      BY <2>1, <2>4, <3>1, <1>o
    <3> QED
      BY <2>1, <2>2, <3>1, <3>2, <1>o, <1>t, <1>u
  <2> QED
    BY <2>3, <2>4
<1>15. CASE UNCHANGED vars
  BY <1>15, <1>o, <1>t, <1>u DEF vars
<1> QED
  BY <1>1, <1>2, <1>3, <1>4, <1>6, <1>7, <1>8, <1>9, <1>11, <1>12, <1>13, <1>14, <1>15
  DEF Next, Request

-----------------------------------------------------------------------------
(* The establishment invariant holds in every state. *)
THEOREM EstablishmentIsSound == Spec => [](EstablishmentInv /\ TimersOpened)
<1>1. Init => TimersOpened
  BY DEF Init, TimersOpened
<1>2. QED
  BY <1>1, EstablishmentInit, EstablishmentStep, TimersStep, PTL DEF Spec

(* The cache invariant holds in every state. *)
LEMMA CacheInvariance == Spec => [](CacheTypes /\ CacheInv)
<1>1. CacheTypes /\ CacheInv /\ EstablishmentInv /\ TimersOpened /\ [Next]_vars
      => (CacheTypes /\ CacheInv)'
  BY CacheStep
<1> QED
  BY <1>1, CacheInit, EstablishmentIsSound, PTL DEF Spec

(* The variables of the pool have their types. *)
THEOREM TypeCorrect == Spec => []TypeOK
<1>1. EstablishmentInv /\ CacheTypes => TypeOK
  BY DEF EstablishmentInv, PoolTypes, CacheTypes, TypeOK
<1> QED
  BY <1>1, EstablishmentIsSound, CacheInvariance, PTL

(* The cache has at most CacheSize sessions, one of each origin, none of them closed, and     *)
(* every ready session is one of them; so an origin has one ready session, and streams are   *)
(* on sessions that are ready or closing.                                                    *)
THEOREM SessionsSound == Spec => []SessionsAreSound
<1>1. EstablishmentInv /\ CacheTypes /\ CacheInv => SessionsAreSound
  <2>1. ASSUME CacheInv, NEW s \in Sessions, NEW t \in Sessions,
               phase[s] = "ready", phase[t] = "ready", origin[s] = origin[t]
        PROVE  s = t
    BY <2>1 DEF CacheInv, CacheIsSound, Cached
  <2> QED
    BY <2>1 DEF CacheInv, EstablishmentInv, LiveStreams, SessionsAreSound, StreamsAreLive
<1> QED
  BY <1>1, EstablishmentIsSound, CacheInvariance, PTL

(* Requests to one origin never have two sessions being established at the same time, in    *)
(* spite of the timers that outlive the attempt they were armed for.                        *)
THEOREM OneEstablishing == Spec => []AtMostOneEstablishing
<1>1. EstablishmentInv => AtMostOneEstablishing
  BY DEF EstablishmentInv
<1>2. QED
  BY <1>1, EstablishmentIsSound, PTL

(* Whatever a request waits for will be ended by a timer at the latest.                     *)
THEOREM WaitersGuarded == Spec => []WaitersAreGuarded
<1>1. EstablishmentInv => WaitersAreGuarded
  BY DEF EstablishmentInv, GuardInv, Guarded, WaitersAreGuarded, Establishing
<1>2. QED
  BY <1>1, EstablishmentIsSound, PTL

=============================================================================
