---------------------------- MODULE Http2Sessions ----------------------------
(***************************************************************************)
(* The pool of HTTP/2 sessions to destination servers,                     *)
(* request-pipeline/destination-request/http2.ts, with the requests of     *)
(* destination-request/index.ts that take a session from it.  Sessions,    *)
(* their events and their timers interleave freely; what a request does    *)
(* between two events is one action (an await on a settled promise takes   *)
(* microtasks only).                                                       *)
(***************************************************************************)
EXTENDS Naturals, FiniteSets, SequencesExt

CONSTANTS
    Origins,       \* destination origins
    Requests,      \* requests that may be under way at the same time
    CacheSize,     \* HTTP2_SESSIONS_CACHE_SIZE
    MaxSessions    \* bound on the number of sessions ever opened

ASSUME SizesAssumption == CacheSize \in Nat \ {0} /\ MaxSessions \in Nat

Sessions == 1..MaxSessions
NoSession == 0

(* "connected" is after 'connect', "ready" after 'localSettings'.  "closing" waits for its *)
(* streams, "destroyed" for its 'close' event.                                             *)
Phases == {"unused", "connecting", "connected", "ready", "closing", "destroyed", "closed"}

VARIABLES
    origin,         \* of every session that was opened
    phase,          \* of every session
    everReady,      \* sessions that have been ready: their 'close' handler is installed
    idleHandler,    \* sessions whose idle timeout handler is installed and has not run
    connectTimer,   \* sessions whose connectTimeout is armed
    settingsTimer,  \* sessions whose localSettingsTimeout is armed
    pending,        \* pendingSessions
    cache,          \* sessionsCache, the most recently used session first
    unsupported,    \* unsupportedOrigins
    waiting,        \* the session whose promise a request awaits
    stream          \* the session on which a request has a stream

poolVars  == <<pending, cache, unsupported>>
timerVars == <<connectTimer, settingsTimer>>
handlers  == <<everReady, idleHandler>>
vars      == <<origin, phase, handlers, timerVars, poolVars, waiting, stream>>

TypeOK ==
    /\ origin \in [Sessions -> Origins \cup {"none"}]
    /\ phase \in [Sessions -> Phases]
    /\ everReady \subseteq Sessions /\ idleHandler \subseteq Sessions
    /\ connectTimer \subseteq Sessions /\ settingsTimer \subseteq Sessions
    /\ pending \in [Origins -> Sessions \cup {NoSession}]
    /\ cache \in Seq(Sessions)
    /\ unsupported \subseteq Origins
    /\ waiting \in [Requests -> Sessions \cup {NoSession}]
    /\ stream \in [Requests -> Sessions \cup {NoSession}]

Init ==
    /\ origin = [s \in Sessions |-> "none"]
    /\ phase = [s \in Sessions |-> "unused"]
    /\ everReady = {} /\ idleHandler = {} /\ connectTimer = {} /\ settingsTimer = {}
    /\ pending = [o \in Origins |-> NoSession]
    /\ cache = <<>> /\ unsupported = {}
    /\ waiting = [r \in Requests |-> NoSession]
    /\ stream = [r \in Requests |-> NoSession]

-----------------------------------------------------------------------------
(* The LRU cache *)

Cached == {cache[i] : i \in DOMAIN cache}

CachedFor(o) == {s \in Sessions : s \in Cached /\ origin[s] = o}

(* The cache is keyed by the origin: it has at most one entry of each. *)
Entries(o) == {i \in DOMAIN cache : origin[cache[i]] = o}
Without(o) ==
    IF Entries(o) = {} THEN cache ELSE RemoveAt(cache, CHOOSE i \in Entries(o) : TRUE)

(* dispose: a session that leaves the cache is closed gracefully.  The first definition is *)
(* a mutated form: it is only dropped.                                                     *)
DroppedOnly(sessions, becomes) == becomes
Disposed(sessions, becomes) ==
    [s \in Sessions |-> IF s \in sessions /\ becomes[s] = "ready" THEN "closing" ELSE becomes[s]]

(* sessionsCache.del(o), while the sessions change to becomes. *)
CacheDel(o, becomes) ==
    /\ cache' = Without(o)
    /\ phase' = Disposed(CachedFor(o), becomes)

(* sessionsCache.set: a session of the same origin is replaced, then the least recently     *)
(* used one goes if the cache is too long.  The mutated form never trims.                   *)
TrimNothing(sessions) == sessions
Trim(sessions) == IF Len(sessions) > CacheSize THEN SubSeq(sessions, 1, CacheSize) ELSE sessions

CacheSet(s, becomes) ==
    /\ cache' = Trim(<<s>> \o Without(origin[s]))
    /\ phase' = Disposed(Cached \ {cache'[i] : i \in DOMAIN cache'}, becomes)

-----------------------------------------------------------------------------
(* Requests *)

(* getHttp2Session and the check of _send.  A cached session that is closing is passed over *)
(* and the request goes through HTTP/1; session.request throws on a destroyed one.  A       *)
(* request without a session is not followed any further.                                   *)
UseCachedSession(r, o) ==
    \E s \in CachedFor(o) :
        /\ cache' = <<s>> \o Without(o)
        /\ stream' = [stream EXCEPT ![r] = IF phase[s] = "ready" THEN s ELSE NoSession]
        /\ UNCHANGED <<origin, phase, handlers, timerVars, pending, unsupported, waiting>>

AwaitPendingSession(r, o) ==
    /\ CachedFor(o) = {} /\ pending[o] # NoSession
    /\ waiting' = [waiting EXCEPT ![r] = pending[o]]
    /\ UNCHANGED <<origin, phase, handlers, timerVars, poolVars, stream>>

(* The mutated form asks neither for a pending session nor for an unsupported origin. *)
AlwaysConnect(o) == CachedFor(o) = {}
MayConnect(o) == CachedFor(o) = {} /\ pending[o] = NoSession /\ o \notin unsupported

Connect(r, o) ==
    /\ MayConnect(o)
    /\ \E s \in Sessions :
        /\ phase[s] = "unused"
        /\ \A t \in 1..(s - 1) : phase[t] # "unused"
        /\ phase' = [phase EXCEPT ![s] = "connecting"]
        /\ origin' = [origin EXCEPT ![s] = o]
        /\ connectTimer' = connectTimer \cup {s}
        /\ pending' = [pending EXCEPT ![o] = s]
        /\ waiting' = [waiting EXCEPT ![r] = s]
    /\ UNCHANGED <<handlers, settingsTimer, cache, unsupported, stream>>

Request(r, o) ==
    /\ waiting[r] = NoSession /\ stream[r] = NoSession
    /\ UseCachedSession(r, o) \/ AwaitPendingSession(r, o) \/ Connect(r, o)

StreamEnds(r) ==
    /\ stream[r] # NoSession
    /\ stream' = [stream EXCEPT ![r] = NoSession]
    /\ UNCHANGED <<origin, phase, handlers, timerVars, poolVars, waiting>>

(* Destroying a session takes all its streams with it. *)
StreamsWithout(s) == [r \in Requests |-> IF stream[r] = s THEN NoSession ELSE stream[r]]

(* A stream reports an HTTP/2 protocol error: the session is destroyed and this request is  *)
(* sent again through HTTP/1.                                                               *)
StreamProtocolError(r) ==
    /\ stream[r] # NoSession
    /\ phase' = [phase EXCEPT ![stream[r]] = "destroyed"]
    /\ stream' = StreamsWithout(stream[r])
    /\ UNCHANGED <<origin, handlers, timerVars, poolVars, waiting>>

-----------------------------------------------------------------------------
(* Establishing a session *)

(* The promise of s is resolved: its requests get streams if it is ready, else they go      *)
(* through HTTP/1.  The first definition is a mutated form: the promise stays open.         *)
NeverResolved(s, ready) == UNCHANGED <<waiting, stream>>
Resolved(s, ready) ==
    /\ waiting' = [r \in Requests |-> IF waiting[r] = s THEN NoSession ELSE waiting[r]]
    /\ stream' = IF ready THEN [r \in Requests |-> IF waiting[r] = s THEN s ELSE stream[r]]
                          ELSE StreamsWithout(s)

(* unsupportedOrigins.push.  The first definition is a mutated form: the wrong thing is     *)
(* pushed.                                                                                  *)
SessionPushed(s, refused) == unsupported \cup IF refused THEN {s} ELSE {}
OriginPushed(s, refused) == unsupported \cup IF refused THEN {origin[s]} ELSE {}

(* errorHandler of s.  Destroying a session that is gone already has no effect.             *)
EstablishmentFailed(s, refused) ==
    /\ pending' = [pending EXCEPT ![origin[s]] = NoSession]
    /\ unsupported' = OriginPushed(s, refused)
    /\ phase' = [phase EXCEPT ![s] = IF @ = "closed" THEN @ ELSE "destroyed"]
    /\ Resolved(s, FALSE)
    /\ UNCHANGED <<origin, handlers, cache>>

(* 'connect'.  The mutated form forgets to arm the second timer. *)
ConnectedUnguarded(s) ==
    /\ phase[s] = "connecting"
    /\ phase' = [phase EXCEPT ![s] = "connected"]
    /\ connectTimer' = connectTimer \ {s}
    /\ UNCHANGED <<origin, handlers, settingsTimer, poolVars, waiting, stream>>

Connected(s) ==
    /\ phase[s] = "connecting"
    /\ phase' = [phase EXCEPT ![s] = "connected"]
    /\ connectTimer' = connectTimer \ {s}
    /\ settingsTimer' = settingsTimer \cup {s}
    /\ UNCHANGED <<origin, handlers, poolVars, waiting, stream>>

(* 'localSettings' *)
LocalSettings(s) ==
    /\ phase[s] = "connected"
    /\ settingsTimer' = settingsTimer \ {s}
    /\ pending' = [pending EXCEPT ![origin[s]] = NoSession]
    /\ CacheSet(s, [phase EXCEPT ![s] = "ready"])
    /\ everReady' = everReady \cup {s}
    /\ idleHandler' = idleHandler \cup {s}
    /\ Resolved(s, TRUE)
    /\ UNCHANGED <<origin, connectTimer, unsupported>>

(* 'error' before the session is ready: the server does not speak HTTP/2 (refused), or the  *)
(* connection failed.  Neither timer is cleared.                                            *)
ErrorBeforeReady(s, refused) ==
    /\ phase[s] \in {"connecting", "connected"}
    /\ EstablishmentFailed(s, refused)
    /\ UNCHANGED timerVars

(* A timer calls errorHandler with ERR_HTTP2_ERROR, whatever has become of the session.     *)
(* The first definition is a mutated form: the timer only gives the attempt up.             *)
TimeoutRefuses(s) == FALSE
TimeoutMeansUnsupported(s) == TRUE

ConnectTimeout(s) ==
    /\ s \in connectTimer
    /\ connectTimer' = connectTimer \ {s}
    /\ EstablishmentFailed(s, TimeoutMeansUnsupported(s))
    /\ UNCHANGED settingsTimer

LocalSettingsTimeout(s) ==
    /\ s \in settingsTimer
    /\ settingsTimer' = settingsTimer \ {s}
    /\ EstablishmentFailed(s, TimeoutMeansUnsupported(s))
    /\ UNCHANGED connectTimer

-----------------------------------------------------------------------------
(* The end of a session that has been ready *)

InUse(s) == \E r \in Requests : stream[r] = s

(* The destination sends GOAWAY: the session closes gracefully but stays in the cache until *)
(* its 'close' event.                                                                       *)
GoAway(s) ==
    /\ phase[s] = "ready"
    /\ phase' = [phase EXCEPT ![s] = "closing"]
    /\ UNCHANGED <<origin, handlers, timerVars, poolVars, waiting, stream>>

(* The connection is reset; its error is ignored by the handler of a ready session. *)
ConnectionReset(s) ==
    /\ phase[s] \in {"ready", "closing"}
    /\ phase' = [phase EXCEPT ![s] = "destroyed"]
    /\ stream' = StreamsWithout(s)
    /\ UNCHANGED <<origin, handlers, timerVars, poolVars, waiting>>

(* session.setTimeout, whose handler runs once: the origin's entry is deleted, whichever    *)
(* session it holds.                                                                        *)
IdleTimeout(s) ==
    /\ s \in idleHandler
    /\ phase[s] = "ready" \/ (phase[s] = "closing" /\ InUse(s))
    /\ CacheDel(origin[s], phase)
    /\ idleHandler' = idleHandler \ {s}
    /\ UNCHANGED <<origin, everReady, timerVars, pending, unsupported, waiting, stream>>

(* 'close'.  Only a session that has been ready deletes the entry of its origin.  The       *)
(* mutated form leaves the entry alone.                                                     *)
KeepEntry(s, becomes) == phase' = becomes /\ UNCHANGED cache
DeleteEntry(s, becomes) ==
    IF s \in everReady THEN CacheDel(origin[s], becomes)
                       ELSE phase' = becomes /\ UNCHANGED cache

Close(s) ==
    /\ phase[s] = "destroyed" \/ (phase[s] = "closing" /\ ~InUse(s))
    /\ DeleteEntry(s, [phase EXCEPT ![s] = "closed"])
    /\ UNCHANGED <<origin, handlers, timerVars, pending, unsupported, waiting, stream>>

-----------------------------------------------------------------------------
Next ==
    \/ \E r \in Requests :
        \/ \E o \in Origins : Request(r, o)
        \/ StreamEnds(r) \/ StreamProtocolError(r)
    \/ \E s \in Sessions :
        \/ Connected(s) \/ LocalSettings(s)
        \/ \E refused \in BOOLEAN : ErrorBeforeReady(s, refused)
        \/ ConnectTimeout(s) \/ LocalSettingsTimeout(s)
        \/ GoAway(s) \/ ConnectionReset(s) \/ IdleTimeout(s) \/ Close(s)

Spec == Init /\ [][Next]_vars

(* Only timers and 'close' events are certain; the destination may stay silent. *)
FairSpec ==
    /\ Spec
    /\ \A s \in Sessions : /\ WF_vars(ConnectTimeout(s)) /\ WF_vars(LocalSettingsTimeout(s))
                           /\ WF_vars(Close(s))

-----------------------------------------------------------------------------
(* Properties *)

Establishing(s) == phase[s] \in {"connecting", "connected"}

(* Requests to one origin never open two sessions at the same time, although the timer of   *)
(* an earlier attempt may delete the pending entry of a later one: such a timer also        *)
(* declares the origin unsupported.                                                         *)
AtMostOneEstablishing ==
    \A s, t \in Sessions :
        Establishing(s) /\ Establishing(t) /\ origin[s] = origin[t] => s = t

(* The cache respects its size, has one session per origin and never offers one that has    *)
(* emitted 'close'; and no open session is forgotten: one that is ready sits in the cache,  *)
(* where the next request, the LRU or its idle timeout finds it.                            *)
CacheIsSound ==
    /\ Len(cache) <= CacheSize
    /\ \A i, j \in DOMAIN cache : origin[cache[i]] = origin[cache[j]] => i = j
    /\ \A s \in Cached : phase[s] \in {"ready", "closing", "destroyed"}
    /\ \A s \in Sessions : phase[s] = "ready" => s \in Cached

(* At any time an origin has at most one session that new requests can get a stream on, and *)
(* requests have streams on live sessions only.                                             *)
StreamsAreLive ==
    /\ \A s, t \in Sessions :
        phase[s] = "ready" /\ phase[t] = "ready" /\ origin[s] = origin[t] => s = t
    /\ \A r \in Requests, s \in Sessions : stream[r] = s => phase[s] \in {"ready", "closing"}

(* The cache holds the sessions that requests can use, and their streams are on live ones. *)
SessionsAreSound == CacheIsSound /\ StreamsAreLive

(* No request waits for a session that nothing will resolve: the session is being           *)
(* established and the timer of its phase is armed.                                         *)
WaitersAreGuarded ==
    \A r \in Requests, s \in Sessions : waiting[r] = s =>
        \/ phase[s] = "connecting" /\ s \in connectTimer
        \/ phase[s] = "connected" /\ s \in settingsTimer

(* An origin is reported as 'server does not support http2' (utils/logger.ts) only when it  *)
(* does not: no session of it is ready at that time.                                        *)
UnsupportedIsNotReady ==
    \A s \in Sessions : phase[s] = "ready" => origin[s] \notin unsupported

(* A request that waits for a session gets an answer, even from a silent destination.       *)
WaitersAreResolved ==
    \A r \in Requests : waiting[r] # NoSession ~> waiting[r] = NoSession

=============================================================================
