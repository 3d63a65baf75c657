----------------------- MODULE DestinationRequest_proofs -----------------------
(***************************************************************************)
(* Proofs about DestinationRequest for any number of attempts.             *)
(*                                                                         *)
(* Unless an answered attempt has had an effect, one thing at a time can   *)
(* still lead to a response: a _send that waits for a session, an answer   *)
(* from the cache, or the last attempt.  It is there only while nothing    *)
(* has been reported, so that a response is the first event.               *)
(*                                                                         *)
(* And proofs about ResponseCache, which answers in the place of the       *)
(* destination, for any number of requests that use a response.            *)
(***************************************************************************)
EXTENDS DestinationRequest, ResponseCache, TLAPS, SequenceTheorems

(* this.req is the last attempt. *)
Typed(r) == r \in Requests /\ r.req = Len(r.attempts)

(* Attempt i can still lead to a response. *)
LiveAt(r, i) ==
    \/ r.attempts[i].state = "open"
    \/ r.attempts[i].state = "answered" /\ r.attempts[i].waitForData

Waiting(r) == r.sending # <<>> \/ r.cached > 0 \/ \E i \in DOMAIN r.attempts : LiveAt(r, i)

OneAtATime(r) ==
    /\ \A i \in DOMAIN r.attempts : LiveAt(r, i) => i = Len(r.attempts) /\ r.cached = 0 /\ r.sending = <<>>
    /\ r.cached <= 1 /\ (r.cached = 1 => r.sending = <<>>)
    /\ Len(r.sending) <= 1
    /\ Waiting(r) => r.emitted = <<>> /\ ~r.aborted

(* What has been reported. *)
Told(r) ==
    /\ r.hasResponse => r.emitted # <<>> /\ r.emitted[1] = "response" /\ ~r.aborted
    /\ \A i \in DOMAIN r.emitted : r.emitted[i] = "response" => i = 1 /\ r.hasResponse
    /\ r.hasResponse => \A j \in DOMAIN r.emitted : j > 1 => r.emitted[j] = "error"

(* An attempt that sent credentials in vain is the last one. *)
Refused(a) == a.auth # "none" /\ a.asks \in {"asksBasic", "asksNtlm"}

AttemptInv(r, i) ==
    LET a == r.attempts[i] IN
    /\ a.state = "destroyed" => r.aborted /\ a.via = "http1"
    /\ a.via = "http2" => ~a.waitForData
    /\ a.state = "open" => a.asks = "ok"
    /\ a.auth # "none" => r.credentialsSent
    /\ Refused(a) => i = Len(r.attempts) /\ r.sending = <<>>

Sound(r) ==
    /\ OneAtATime(r) /\ Told(r)
    /\ \A i \in DOMAIN r.attempts : AttemptInv(r, i)
    /\ r.auth # "none" => r.credentialsSent

(* Nothing has been reported, and at most an attempt can lead to a response; or nothing can. *)
Unanswered(r) ==
    /\ Sound(r)
    /\ r.sending = <<>> /\ r.cached = 0 /\ r.emitted = <<>> /\ ~r.hasResponse /\ ~r.aborted
Idle(r) == Unanswered(r) /\ \A i \in DOMAIN r.attempts : ~LiveAt(r, i)

-----------------------------------------------------------------------------
(* r2 is r but for the state of attempt i and what it was asked. *)
Touched(r, r2, i) ==
    /\ r2 \in Requests
    /\ r2.req = r.req /\ r2.sending = r.sending /\ r2.cached = r.cached /\ r2.auth = r.auth
    /\ r2.hasResponse = r.hasResponse /\ r2.credentialsSent = r.credentialsSent
    /\ r2.aborted = r.aborted /\ r2.emitted = r.emitted /\ r2.rejected = r.rejected
    /\ Len(r2.attempts) = Len(r.attempts) /\ DOMAIN r2.attempts = DOMAIN r.attempts
    /\ \A j \in DOMAIN r.attempts : j # i => r2.attempts[j] = r.attempts[j]
    /\ r2.attempts[i].via = r.attempts[i].via /\ r2.attempts[i].auth = r.attempts[i].auth
    /\ r2.attempts[i].waitForData = r.attempts[i].waitForData

States == {"open", "answered", "destroyed", "broken", "ended"}

(* A sequence with one entry replaced. *)
LEMMA Replace ==
    ASSUME NEW q \in Seq(Attempts), NEW i \in DOMAIN q, NEW a \in Attempts
    PROVE  /\ [q EXCEPT ![i] = a] \in Seq(Attempts)
           /\ Len([q EXCEPT ![i] = a]) = Len(q) /\ DOMAIN [q EXCEPT ![i] = a] = DOMAIN q
           /\ [q EXCEPT ![i] = a][i] = a
           /\ \A j \in DOMAIN q : j # i => [q EXCEPT ![i] = a][j] = q[j]
OBVIOUS

(* Replacing one attempt by one of the same transport and header touches that attempt only. *)
LEMMA ReplaceAttempt ==
    ASSUME NEW r \in Requests, NEW i \in DOMAIN r.attempts, NEW a \in Attempts,
           a.via = r.attempts[i].via, a.auth = r.attempts[i].auth,
           a.waitForData = r.attempts[i].waitForData
    PROVE  /\ Touched(r, [r EXCEPT !.attempts = [@ EXCEPT ![i] = a]], i)
           /\ [r EXCEPT !.attempts = [@ EXCEPT ![i] = a]].attempts[i] = a
<1> DEFINE q == [r.attempts EXCEPT ![i] = a]
           r2 == [r EXCEPT !.attempts = q]
<1>1. r.attempts \in Seq(Attempts)
  BY DEF Requests
<1>2. /\ q \in Seq(Attempts) /\ Len(q) = Len(r.attempts) /\ DOMAIN q = DOMAIN r.attempts
      /\ q[i] = a /\ \A j \in DOMAIN r.attempts : j # i => q[j] = r.attempts[j]
  BY <1>1, Replace
<1> HIDE DEF q
<1>3. r2 \in Requests /\ r2.attempts = q
  BY <1>2 DEF Requests
<1>4. Touched(r, r2, i)
  BY <1>2, <1>3 DEF Touched, Requests
<1> QED
  BY <1>2, <1>3, <1>4 DEF q

(* SetState touches one attempt. *)
LEMMA TouchState ==
    ASSUME NEW r \in Requests, NEW i \in DOMAIN r.attempts, NEW state \in States
    PROVE  /\ Touched(r, SetState(r, i, state), i)
           /\ SetState(r, i, state).attempts[i].state = state
           /\ SetState(r, i, state).attempts[i].asks = r.attempts[i].asks
<1> DEFINE a == [r.attempts[i] EXCEPT !.state = state]
<1>1. r.attempts[i] \in Attempts
  BY DEF Requests
<1>2. a \in Attempts /\ a.via = r.attempts[i].via /\ a.auth = r.attempts[i].auth
      /\ a.waitForData = r.attempts[i].waitForData /\ a.state = state /\ a.asks = r.attempts[i].asks
  BY <1>1 DEF Attempts, States
<1>3. SetState(r, i, state) = [r EXCEPT !.attempts = [@ EXCEPT ![i] = a]]
  BY DEF SetState
<1> HIDE DEF a
<1> QED
  BY <1>2, <1>3, ReplaceAttempt

(* An answer that arrives touches the attempt it answers. *)
LEMMA TouchAnswer ==
    ASSUME NEW r \in Requests, NEW i \in DOMAIN r.attempts, NEW status \in Statuses
    PROVE  LET r2 == [SetState(r, i, "answered") EXCEPT !.attempts[i].asks = status] IN
           /\ Touched(r, r2, i)
           /\ r2.attempts[i].state = "answered" /\ r2.attempts[i].asks = status
<1> DEFINE r1 == SetState(r, i, "answered")
           a == [r1.attempts[i] EXCEPT !.asks = status]
           r2 == [r1 EXCEPT !.attempts = [@ EXCEPT ![i] = a]]
<1>1. /\ Touched(r, r1, i) /\ r1.attempts[i].state = "answered"
  BY TouchState DEF States
<1> HIDE DEF r1
<1>2. r1 \in Requests /\ i \in DOMAIN r1.attempts
  BY <1>1 DEF Touched
<1>3. r1.attempts[i] \in Attempts
  BY <1>2 DEF Requests
<1>4. a \in Attempts /\ a.via = r1.attempts[i].via /\ a.auth = r1.attempts[i].auth
      /\ a.waitForData = r1.attempts[i].waitForData /\ a.state = "answered" /\ a.asks = status
  BY <1>1, <1>3 DEF Attempts
<1> HIDE DEF a
<1>5. Touched(r1, r2, i) /\ r2.attempts[i] = a
  BY <1>2, <1>4, ReplaceAttempt
<1> HIDE DEF r2
<1>6. Touched(r, r2, i)
  BY <1>1, <1>5 DEF Touched
<1>7. r2 = [r1 EXCEPT !.attempts[i].asks = status]
  BY DEF r2, a
<1> QED
  BY <1>4, <1>5, <1>6, <1>7 DEF r1

-----------------------------------------------------------------------------
(* What the methods return. *)

LEMMA TouchedTyped ==
    ASSUME NEW r, NEW r2, NEW i, Typed(r), Touched(r, r2, i)
    PROVE  Typed(r2)
BY DEF Typed, Touched

(* emit appends the event and leaves the attempts alone. *)
LEMMA EmitTyped ==
    ASSUME NEW r, Typed(r), NEW event \in Events
    PROVE  /\ Typed(Emit(r, event))
           /\ Emit(r, event).emitted = Append(r.emitted, event)
           /\ Emit(r, event).attempts = r.attempts /\ Emit(r, event).sending = r.sending
           /\ Emit(r, event).cached = r.cached /\ Emit(r, event).auth = r.auth
           /\ Emit(r, event).hasResponse = r.hasResponse
           /\ Emit(r, event).credentialsSent = r.credentialsSent
           /\ Emit(r, event).aborted = r.aborted
<1>1. r \in Requests /\ Append(r.emitted, event) \in Seq(Events)
  BY DEF Typed, Requests
<1> DEFINE q == Append(r.emitted, event)
           r2 == [r EXCEPT !.emitted = q]
<1> HIDE DEF q
<1>2. /\ r2 \in Requests /\ r2.emitted = q
      /\ r2.attempts = r.attempts /\ r2.sending = r.sending /\ r2.req = r.req
      /\ r2.cached = r.cached /\ r2.auth = r.auth
      /\ r2.hasResponse = r.hasResponse /\ r2.credentialsSent = r.credentialsSent
      /\ r2.aborted = r.aborted
  BY <1>1 DEF Requests, q
<1>3. Emit(r, event) = r2
  BY DEF Emit, q
<1> HIDE DEF r2
<1> QED
  BY <1>2, <1>3 DEF Typed, q

(* Emitting the response keeps the types. *)
LEMMA EmitOnResponseTyped ==
    ASSUME NEW r, Typed(r)
    PROVE  Typed(EmitOnResponse(r))
<1>1. Typed([r EXCEPT !.hasResponse = TRUE])
  BY DEF Typed, Requests
<1> QED
  BY <1>1, EmitTyped DEF EmitOnResponse, Events

(* A new attempt comes last and is live; the earlier ones stay as they are. *)
LEMMA NewAttemptTyped ==
    ASSUME NEW r, Typed(r), NEW via \in {"http1", "http2"}, NEW waitForData \in BOOLEAN
    PROVE  LET r2 == NewAttempt(r, via, waitForData) IN
           /\ Typed(r2) /\ r2.attempts # <<>>
           /\ Len(r2.attempts) = Len(r.attempts) + 1
           /\ \A i \in DOMAIN r.attempts : i \in DOMAIN r2.attempts /\ r2.attempts[i] = r.attempts[i]
           /\ r2.attempts[Len(r.attempts) + 1] =
                [via |-> via, waitForData |-> waitForData, auth |-> r.auth, asks |-> "ok", state |-> "open"]
           /\ r2.sending = r.sending /\ r2.cached = r.cached /\ r2.auth = r.auth
           /\ r2.hasResponse = r.hasResponse /\ r2.credentialsSent = r.credentialsSent
           /\ r2.aborted = r.aborted /\ r2.emitted = r.emitted
<1> DEFINE a == [via |-> via, waitForData |-> waitForData, auth |-> r.auth, asks |-> "ok", state |-> "open"]
           q == Append(r.attempts, a)
           r2 == [r EXCEPT !.attempts = q, !.req = Len(r.attempts) + 1]
<1>1. r \in Requests /\ r.attempts \in Seq(Attempts) /\ r.auth \in Headers
  BY DEF Typed, Requests
<1>2. a \in Attempts
  BY <1>1 DEF Attempts, Statuses
<1> HIDE DEF a
<1>3. /\ q \in Seq(Attempts) /\ Len(q) = Len(r.attempts) + 1 /\ q # <<>>
      /\ q[Len(r.attempts) + 1] = a
      /\ \A i \in DOMAIN r.attempts : i \in DOMAIN q /\ q[i] = r.attempts[i]
      /\ Len(r.attempts) + 1 \in Nat
  BY <1>1, <1>2
<1> HIDE DEF q
<1>4. /\ r2 \in Requests /\ r2.attempts = q /\ r2.req = Len(r.attempts) + 1
      /\ r2.sending = r.sending /\ r2.cached = r.cached /\ r2.auth = r.auth
      /\ r2.hasResponse = r.hasResponse /\ r2.credentialsSent = r.credentialsSent
      /\ r2.aborted = r.aborted /\ r2.emitted = r.emitted
  BY <1>1, <1>3 DEF Requests
<1>5. NewAttempt(r, via, waitForData) = r2
  BY DEF NewAttempt, q, a
<1> HIDE DEF r2
<1> QED
  BY <1>3, <1>4, <1>5 DEF Typed, a

(* Send finds the answer in the cache, waits for a session or makes an attempt. *)
LEMMA SendCases ==
    ASSUME NEW r, Typed(r), NEW waitForData \in BOOLEAN, NEW hit \in BOOLEAN
    PROVE  /\ Typed(Send(r, waitForData, hit))
           /\ \/ Send(r, waitForData, hit) = [r EXCEPT !.cached = @ + 1]
              \/ Send(r, waitForData, hit) = [r EXCEPT !.sending = Append(@, waitForData)]
              \/ Send(r, waitForData, hit) = NewAttempt(r, "http1", waitForData)
<1>1. r \in Requests
  BY DEF Typed
<1>2. Typed([r EXCEPT !.cached = @ + 1])
  <2>1. r.cached + 1 \in Nat
    BY <1>1 DEF Requests
  <2> QED
    BY <1>1, <2>1 DEF Typed, Requests
<1>3. Typed([r EXCEPT !.sending = Append(@, waitForData)])
  <2>1. Append(r.sending, waitForData) \in Seq(BOOLEAN)
    BY <1>1 DEF Requests
  <2> DEFINE q == Append(r.sending, waitForData)
  <2> HIDE DEF q
  <2>2. Typed([r EXCEPT !.sending = q])
    BY <1>1, <2>1 DEF Typed, Requests, q
  <2> QED
    BY <2>2 DEF q
<1> QED
  BY <1>2, <1>3, NewAttemptTyped DEF Send, SendReal

(* _fatalError destroys the last attempt and reports once. *)
LEMMA FatalErrorTyped ==
    ASSUME NEW r, Typed(r), r.attempts # <<>>
    PROVE  /\ Typed(FatalError(r))
           /\ ~r.aborted =>
                \E r2 :
                  /\ Touched(r, r2, Len(r.attempts))
                  /\ r2.attempts[Len(r.attempts)] = Destroyed(r.attempts[Len(r.attempts)])
                  /\ FatalError(r) = Emit([r2 EXCEPT !.aborted = TRUE], "fatalError")
<1> DEFINE n == Len(r.attempts)
           a == Destroyed(r.attempts[n])
           r2 == [r EXCEPT !.attempts = [@ EXCEPT ![n] = a]]
<1>1. n \in DOMAIN r.attempts /\ r.attempts[n] \in Attempts /\ r \in Requests /\ r.req = n
  BY DEF Typed, Requests
<1>2. a \in Attempts /\ a.via = r.attempts[n].via /\ a.auth = r.attempts[n].auth
      /\ a.waitForData = r.attempts[n].waitForData
  BY <1>1 DEF Destroyed, Attempts
<1> HIDE DEF a
<1>3. Touched(r, r2, n) /\ r2.attempts[n] = a
  BY <1>1, <1>2, ReplaceAttempt
<1>4. Typed(r2)
  BY <1>3, TouchedTyped
<1>5. Typed([r2 EXCEPT !.aborted = TRUE])
  <2> HIDE DEF r2
  <2> QED
    BY <1>4 DEF Typed, Requests
<1>6. ASSUME ~r.aborted
      PROVE  FatalError(r) = Emit([r2 EXCEPT !.aborted = TRUE], "fatalError")
  <2>1. [r EXCEPT !.aborted = TRUE, !.attempts[r.req] = Destroyed(@)] = [r2 EXCEPT !.aborted = TRUE]
    BY <1>1 DEF a, Requests
  <2> QED
    BY <1>6, <2>1 DEF FatalError
<1>7. Typed(FatalError(r))
  <2>1. CASE r.aborted
    BY <2>1 DEF FatalError
  <2>2. CASE ~r.aborted
    <3> HIDE DEF r2
    <3> QED
      BY <1>5, <1>6, <2>2, EmitTyped DEF Events
  <2> QED
    BY <2>1, <2>2
<1> HIDE DEF r2
<1> QED
  BY <1>3, <1>6, <1>7 DEF a

(* What is resent carries credentials, and those of a challenge only if some were sent. *)
LEMMA AddCredentialsType ==
    ASSUME NEW status \in Unauthorized
    PROVE  AddCredentials(status) \in Headers
BY DEF AddCredentials, Unauthorized, Headers

(* _onResponse authenticates again, or reports the answer, or destroys a refused one. *)
LEMMA OnResponseCases ==
    ASSUME NEW r, Typed(r), r.attempts # <<>>, NEW status \in Statuses, NEW hit \in BOOLEAN
    PROVE  /\ Typed(OnResponse(r, status, hit))
           /\ \/ /\ ShouldResendWithCredentials(r, status)
                 /\ AddCredentials(status) \in Headers
                 /\ OnResponse(r, status, hit) =
                      Send([r EXCEPT !.auth = AddCredentials(status), !.credentialsSent = TRUE],
                           status = "asksNtlm", hit)
              \/ OnResponse(r, status, hit) = FatalError(r)
              \/ OnResponse(r, status, hit) = EmitOnResponse(r)
<1>1. CASE ShouldResendWithCredentials(r, status)
  <2>1. AddCredentials(status) \in Headers
    BY <1>1, AddCredentialsType DEF ShouldResendWithCredentials
  <2>2. Typed([r EXCEPT !.auth = AddCredentials(status), !.credentialsSent = TRUE])
    BY <2>1 DEF Typed, Requests
  <2> QED
    BY <1>1, <2>1, <2>2, SendCases DEF OnResponse, ResendWithCredentials
<1>2. CASE ~ShouldResendWithCredentials(r, status)
  BY <1>2, FatalErrorTyped, EmitOnResponseTyped DEF OnResponse
<1> QED
  BY <1>1, <1>2

(* _onError keeps the types. *)
LEMMA OnErrorTyped ==
    ASSUME NEW r, Typed(r), r.attempts # <<>>, NEW err
    PROVE  Typed(OnError(r, err))
BY FatalErrorTyped, EmitTyped DEF OnError, Events

(* _onTimeout keeps the types. *)
LEMMA OnTimeoutTyped ==
    ASSUME NEW r, Typed(r), r.attempts # <<>>
    PROVE  Typed(OnTimeout(r))
BY FatalErrorTyped DEF OnTimeout

-----------------------------------------------------------------------------
(* Types of the steps. *)

TypeInv == opts \in Options /\ Typed(request) /\ disturbed \in BOOLEAN

(* The typing of the parts is that of the module. *)
LEMMA TypeInvOK == TypeInv => TypeOK
<1> SUFFICES ASSUME TypeInv
             PROVE  TypeOK
  OBVIOUS
<1>1. request.attempts \in Seq(Attempts) /\ request.req = Len(request.attempts)
  BY DEF TypeInv, Typed, Requests
<1>2. request.req \in {NoRequest} \cup DOMAIN request.attempts
  BY <1>1 DEF NoRequest
<1> QED
  BY <1>2 DEF TypeOK, TypeInv, Typed

(* A cache lookup hits or misses. *)
LEMMA HitsType == Hits \subseteq BOOLEAN
BY DEF Hits

(* The request starts well typed. *)
LEMMA InitialTyped == Typed(InitialRequest)
BY DEF Typed, Requests, InitialRequest, NoRequest, Headers

(* The initial states are well typed. *)
LEMMA TypeInit ==
    ASSUME Init
    PROVE  TypeInv
BY HitsType, InitialTyped, SendCases DEF Init, TypeInv

(* Taking an entry out of a queue of flags leaves a queue of flags. *)
LEMMA RemoveAtType ==
    ASSUME NEW q \in Seq(BOOLEAN), NEW i \in DOMAIN q
    PROVE  RemoveAt(q, i) \in Seq(BOOLEAN) /\ Len(RemoveAt(q, i)) = Len(q) - 1
<1> DEFINE s == SubSeq(q, 1, i - 1)
           t == SubSeq(q, i + 1, Len(q))
<1>1. i \in 1 .. Len(q)
  OBVIOUS
<1>2. s \in Seq(BOOLEAN) /\ Len(s) = i - 1
  BY <1>1, SubSeqProperties
<1>3. t \in Seq(BOOLEAN) /\ Len(t) = Len(q) - i
  BY <1>1, SubSeqProperties
<1>4. RemoveAt(q, i) = s \o t
  BY DEF RemoveAt
<1> HIDE DEF s, t
<1>5. s \o t \in Seq(BOOLEAN) /\ Len(s \o t) = Len(s) + Len(t)
  <2>1. s \in Seq(BOOLEAN) /\ t \in Seq(BOOLEAN)
    BY <1>2, <1>3
  <2> QED
    BY <2>1, ConcatProperties
<1>6. Len(q) \in Nat /\ (i - 1) + (Len(q) - i) = Len(q) - 1
  BY <1>1
<1>7. Len(s \o t) = Len(q) - 1
  BY <1>2, <1>3, <1>5, <1>6
<1> QED
  BY <1>4, <1>5, <1>7

(* A session has been obtained: the _send leaves the list, and makes an attempt or fails. *)
LEMMA Obtained ==
    ASSUME TypeInv, SessionObtained
    PROVE  \E i \in DOMAIN request.sending : \E r :
             /\ Typed(r) /\ r = [request EXCEPT !.sending = RemoveAt(@, i)]
             /\ r.sending \in Seq(BOOLEAN) /\ Len(r.sending) = Len(request.sending) - 1
             /\ r.attempts = request.attempts /\ r.cached = request.cached /\ r.auth = request.auth
             /\ r.hasResponse = request.hasResponse /\ r.credentialsSent = request.credentialsSent
             /\ r.aborted = request.aborted /\ r.emitted = request.emitted
             /\ \/ request' = NewAttempt(r, "http2", FALSE)
                \/ request' = NewAttempt(r, "http1", request.sending[i])
                \/ request' = [r EXCEPT !.rejected = TRUE]
<1>1. request \in Requests /\ request.sending \in Seq(BOOLEAN)
  BY DEF TypeInv, Typed, Requests
<1>2. PICK i \in DOMAIN request.sending :
        LET waiting == [request EXCEPT !.sending = RemoveAt(@, i)] IN
        \/ request' = SendRealThroughHttp2(waiting)
        \/ request' = SendReal(waiting, request.sending[i])
        \/ request' = [waiting EXCEPT !.rejected = TRUE]
  BY DEF SessionObtained
<1> DEFINE q == RemoveAt(request.sending, i)
           r == [request EXCEPT !.sending = q]
<1>3. q \in Seq(BOOLEAN) /\ Len(q) = Len(request.sending) - 1
  BY <1>1, <1>2, RemoveAtType
<1> HIDE DEF q
<1>4. /\ Typed(r) /\ r.sending = q
      /\ r.attempts = request.attempts /\ r.cached = request.cached /\ r.auth = request.auth
      /\ r.hasResponse = request.hasResponse /\ r.credentialsSent = request.credentialsSent
      /\ r.aborted = request.aborted /\ r.emitted = request.emitted
  BY <1>1, <1>3 DEF Requests, Typed, TypeInv
<1>5. r = [request EXCEPT !.sending = RemoveAt(@, i)]
  BY DEF q
<1> HIDE DEF r
<1> QED
  BY <1>2, <1>3, <1>4, <1>5 DEF SendRealThroughHttp2, SendReal

(* Every step keeps the types. *)
LEMMA TypeStep ==
    ASSUME TypeInv, [Next]_vars
    PROVE  TypeInv'
<1>t. Typed(request)
  BY DEF TypeInv
<1>g. ASSUME opts' = opts, Typed(request'), disturbed' \in BOOLEAN
      PROVE  TypeInv'
  BY <1>g DEF TypeInv, Typed, Requests, Attempts, Options
<1>i. ASSUME NEW i, NEW states, In(i, states)
      PROVE  i \in DOMAIN request.attempts /\ request.attempts # <<>>
  BY <1>i DEF In
<1>s. ASSUME NEW i \in DOMAIN request.attempts, NEW state \in States
      PROVE  Typed(SetState(request, i, state)) /\ SetState(request, i, state).attempts # <<>>
  <2>1. Touched(request, SetState(request, i, state), i)
    BY <1>t, TouchState DEF Typed
  <2> QED
    BY <2>1, <1>t, TouchedTyped DEF Touched
<1>d. disturbed \in BOOLEAN
  BY DEF TypeInv
<1>1. CASE CachedAnswer
  <2>1. Typed([request EXCEPT !.cached = @ - 1])
    <3>1. request.cached - 1 \in Nat
      BY <1>t, <1>1 DEF CachedAnswer, Typed, Requests
    <3> QED
      BY <1>t, <3>1 DEF Typed, Requests
  <2> QED
    BY <1>g, <1>d, <1>1, <2>1, EmitOnResponseTyped DEF CachedAnswer
<1>2. CASE SessionObtained
  <2>0. PICK i \in DOMAIN request.sending : \E r :
          /\ Typed(r)
          /\ \/ request' = NewAttempt(r, "http2", FALSE)
             \/ request' = NewAttempt(r, "http1", request.sending[i])
             \/ request' = [r EXCEPT !.rejected = TRUE]
    BY <1>2, Obtained
  <2>1. PICK r :
          /\ Typed(r)
          /\ \/ request' = NewAttempt(r, "http2", FALSE)
             \/ request' = NewAttempt(r, "http1", request.sending[i])
             \/ request' = [r EXCEPT !.rejected = TRUE]
    BY <2>0
  <2>2. request.sending[i] \in BOOLEAN
    BY <1>t DEF Typed, Requests
  <2>3. Typed([r EXCEPT !.rejected = TRUE])
    BY <2>1 DEF Typed, Requests
  <2>4. Typed(request')
    <3>1. CASE request' = NewAttempt(r, "http2", FALSE)
      BY <3>1, <2>1, NewAttemptTyped
    <3>2. CASE request' = NewAttempt(r, "http1", request.sending[i])
      BY <3>2, <2>1, <2>2, NewAttemptTyped
    <3>3. CASE request' = [r EXCEPT !.rejected = TRUE]
      BY <3>3, <2>3
    <3> QED
      BY <2>1, <3>1, <3>2, <3>3
  <2> QED
    BY <1>g, <1>d, <1>2, <2>4 DEF SessionObtained
<1>3. ASSUME NEW i, NEW status \in Statuses, ResponseArrives(i, status)
      PROVE  TypeInv'
  <2> DEFINE answered == [SetState(request, i, "answered") EXCEPT !.attempts[i].asks = status]
  <2>1. i \in DOMAIN request.attempts
    BY <1>3, <1>i DEF ResponseArrives
  <2>2. Touched(request, answered, i)
    BY <2>1, <1>t, TouchAnswer DEF Typed
  <2>3. request' = answered \/ \E hit \in Hits : request' = OnResponse(answered, status, hit)
    BY <1>3 DEF ResponseArrives
  <2> HIDE DEF answered
  <2>4. Typed(answered) /\ answered.attempts # <<>>
    <3>1. Typed(answered)
      BY <2>2, <1>t, TouchedTyped
    <3>2. DOMAIN answered.attempts = DOMAIN request.attempts
      BY <2>2 DEF Touched
    <3> QED
      BY <2>1, <3>1, <3>2
  <2>5. Typed(request')
    <3>1. ASSUME NEW hit \in Hits
          PROVE  Typed(OnResponse(answered, status, hit))
      <4>1. hit \in BOOLEAN
        BY HitsType
      <4> QED
        BY <4>1, <2>4, OnResponseCases
    <3> QED
      BY <2>3, <2>4, <3>1
  <2> QED
    BY <1>g, <1>d, <1>3, <2>5 DEF ResponseArrives
<1>4. ASSUME NEW i, BodyEnds(i)
      PROVE  TypeInv'
  <2> DEFINE ended == SetState(request, i, "ended")
  <2>1. i \in DOMAIN request.attempts
    BY <1>4, <1>i DEF BodyEnds
  <2>2. Typed(ended) /\ ended.attempts # <<>>
    BY <2>1, <1>s DEF States
  <2>3. request' = ended \/ \E hit \in Hits : request' = OnResponse(ended, request.attempts[i].asks, hit)
    BY <1>4 DEF BodyEnds
  <2>a. request.attempts[i] \in Attempts
    BY <1>t, <2>1 DEF Typed, Requests
  <2>4. request.attempts[i].asks \in Statuses
    BY <2>a DEF Attempts
  <2> HIDE DEF ended
  <2>5. Typed(request')
    BY <2>2, <2>3, <2>4, HitsType, OnResponseCases
  <2> QED
    BY <1>g, <1>d, <1>4, <2>5 DEF BodyEnds
<1>5. ASSUME NEW i, BodyBreaksOff(i)
      PROVE  TypeInv'
  BY <1>5, <1>g, <1>d, <1>i, <1>s DEF BodyBreaksOff, States
<1>6. ASSUME NEW i, TimeoutFires(i)
      PROVE  TypeInv'
  <2>1. Typed(request')
    BY <1>6, <1>i, <1>t, OnTimeoutTyped DEF TimeoutFires
  <2>2. disturbed' \in BOOLEAN
    BY <1>6, <1>d DEF TimeoutFires, Superseded
  <2> QED
    BY <1>6, <1>g, <2>1, <2>2 DEF TimeoutFires
<1>7. ASSUME NEW i, NEW err, AttemptFails(i, err)
      PROVE  TypeInv'
  <2> DEFINE failed == SetState(request, i, "ended")
  <2>1. i \in DOMAIN request.attempts
    BY <1>7, <1>i DEF AttemptFails
  <2>2. Typed(failed) /\ failed.attempts # <<>>
    BY <2>1, <1>s DEF States
  <2>3. request' = NewAttempt(failed, "http1", FALSE) \/ request' = OnError(failed, err)
    BY <1>7 DEF AttemptFails, SendReal
  <2> HIDE DEF failed
  <2>4. Typed(request')
    <3>1. CASE request' = NewAttempt(failed, "http1", FALSE)
      BY <3>1, <2>2, NewAttemptTyped
    <3>2. CASE request' = OnError(failed, err)
      BY <3>2, <2>2, OnErrorTyped
    <3> QED
      BY <2>3, <3>1, <3>2
  <2>5. disturbed' \in BOOLEAN
    BY <1>7, <1>d DEF AttemptFails, Superseded
  <2> QED
    BY <1>7, <1>g, <2>4, <2>5 DEF AttemptFails
<1>8. CASE UNCHANGED vars
  BY <1>8, <1>g, <1>t, <1>d DEF vars
<1> QED
  BY <1>1, <1>2, <1>3, <1>4, <1>5, <1>6, <1>7, <1>8 DEF Next

(* The options, the request and its attempts have their types, and this.req is an attempt. *)
THEOREM TypeCorrect == Spec => []TypeOK
<1>1. Init => TypeInv
  BY TypeInit
<1>2. TypeInv /\ [Next]_vars => TypeInv'
  BY TypeStep
<1> QED
  BY <1>1, <1>2, TypeInvOK, PTL DEF Spec

-----------------------------------------------------------------------------
(* What the methods do to a sound request. *)

LEMMA LiveIsUnanswered ==
    ASSUME NEW r, Typed(r), Sound(r), NEW i \in DOMAIN r.attempts, LiveAt(r, i)
    PROVE  Unanswered(r) /\ i = Len(r.attempts)
<1>1. Waiting(r) /\ r.sending = <<>> /\ r.cached = 0 /\ i = Len(r.attempts)
  BY DEF Waiting, Sound, OneAtATime
<1>2. r.emitted = <<>> /\ ~r.aborted
  BY <1>1 DEF Sound, OneAtATime
<1>3. ~r.hasResponse
  BY <1>2 DEF Sound, Told
<1> QED
  BY <1>1, <1>2, <1>3 DEF Unanswered

(* The live attempt is answered, ends or breaks. *)
LEMMA TouchUnanswered ==
    ASSUME NEW r, Typed(r), Unanswered(r), NEW r2, NEW i \in DOMAIN r.attempts,
           Touched(r, r2, i), AttemptInv(r2, i), i = Len(r.attempts)
    PROVE  Unanswered(r2)
<1>1. /\ r.attempts \in Seq(Attempts) /\ r.emitted = <<>>
      /\ r2.attempts \in Seq(Attempts) /\ DOMAIN r2.attempts = DOMAIN r.attempts
      /\ Len(r2.attempts) = Len(r.attempts)
  BY DEF Typed, Requests, Touched, Unanswered
<1>2. \A j \in DOMAIN r2.attempts : LiveAt(r2, j) => j = Len(r2.attempts)
  BY <1>1 DEF Touched, LiveAt, Unanswered, Sound, OneAtATime
<1>3. r2.sending = <<>> /\ r2.cached = 0 /\ r2.emitted = <<>> /\ ~r2.aborted /\ ~r2.hasResponse
  BY DEF Touched, Unanswered
<1>4. OneAtATime(r2)
  BY <1>2, <1>3 DEF OneAtATime
<1>5. Told(r2)
  BY <1>3 DEF Told
<1>6. ASSUME NEW j \in DOMAIN r2.attempts
      PROVE  AttemptInv(r2, j)
  <2>1. CASE j = i
    BY <2>1
  <2>2. CASE j # i
    <3>1. AttemptInv(r, j) /\ r2.attempts[j] = r.attempts[j]
      BY <2>2, <1>1 DEF Unanswered, Sound, Touched
    <3> QED
      BY <3>1, <1>1 DEF AttemptInv, Touched, Refused
  <2> QED
    BY <2>1, <2>2
<1>7. r2.auth # "none" => r2.credentialsSent
  BY DEF Touched, Unanswered, Sound
<1> QED
  BY <1>3, <1>4, <1>5, <1>6, <1>7 DEF Unanswered, Sound

(* Ending the last attempt of an unanswered request leaves none live. *)
LEMMA TouchIdle ==
    ASSUME NEW r, Typed(r), Unanswered(r), NEW r2, NEW i \in DOMAIN r.attempts,
           Touched(r, r2, i), AttemptInv(r2, i), i = Len(r.attempts), ~LiveAt(r2, i)
    PROVE  Idle(r2)
<1>1. Unanswered(r2)
  BY TouchUnanswered
<1>2. \A j \in DOMAIN r2.attempts : ~LiveAt(r2, j)
  BY DEF Touched, LiveAt, Unanswered, Sound, OneAtATime
<1> QED
  BY <1>1, <1>2 DEF Idle

(* An attempt that is over changes without effect. *)
LEMMA TouchOver ==
    ASSUME NEW r, Typed(r), Sound(r), NEW r2, NEW i \in DOMAIN r.attempts,
           Touched(r, r2, i), r2.attempts[i].asks = r.attempts[i].asks,
           r2.attempts[i].state \in {"ended", "broken"}
    PROVE  Sound(r2) /\ (Waiting(r2) => Waiting(r))
<1>1. \A j \in DOMAIN r2.attempts : LiveAt(r2, j) => LiveAt(r, j) /\ j \in DOMAIN r.attempts
  BY DEF Touched, LiveAt
<1>2. Waiting(r2) => Waiting(r)
  BY <1>1 DEF Touched, Waiting
<1>3. OneAtATime(r2)
  <2>1. /\ \A j \in DOMAIN r.attempts : LiveAt(r, j) => j = Len(r.attempts) /\ r.cached = 0 /\ r.sending = <<>>
        /\ r.cached <= 1 /\ (r.cached = 1 => r.sending = <<>>)
        /\ Len(r.sending) <= 1
        /\ Waiting(r) => r.emitted = <<>> /\ ~r.aborted
    BY DEF Sound, OneAtATime
  <2>2. r2.sending = r.sending /\ r2.cached = r.cached /\ r2.emitted = r.emitted
        /\ r2.aborted = r.aborted /\ Len(r2.attempts) = Len(r.attempts)
    BY DEF Touched
  <2> QED
    BY <1>1, <1>2, <2>1, <2>2 DEF OneAtATime
<1>4. Told(r2)
  BY DEF Sound, Told, Touched
<1>5. ASSUME NEW j \in DOMAIN r2.attempts
      PROVE  AttemptInv(r2, j)
  <2>1. j \in DOMAIN r.attempts /\ AttemptInv(r, j)
    BY DEF Sound, Touched
  <2>2. CASE j = i
    BY <2>1, <2>2 DEF AttemptInv, Touched, Refused
  <2>3. CASE j # i
    <3>1. r2.attempts[j] = r.attempts[j]
      BY <2>1, <2>3 DEF Touched
    <3> QED
      BY <2>1, <3>1 DEF AttemptInv, Touched, Refused
  <2> QED
    BY <2>2, <2>3
<1> QED
  BY <1>2, <1>3, <1>4, <1>5 DEF Sound, Touched

(* Reporting a failure of a request that nobody waits for keeps the request sound. *)
LEMMA EmitSound ==
    ASSUME NEW r, Typed(r), Sound(r), ~Waiting(r), NEW event \in {"error", "socketHangUp"},
           r.hasResponse => event = "error"
    PROVE  Sound(Emit(r, event))
<1> DEFINE r2 == Emit(r, event)
<1>1. /\ r2.emitted = Append(r.emitted, event)
      /\ r2.attempts = r.attempts /\ r2.sending = r.sending
      /\ r2.cached = r.cached /\ r2.auth = r.auth /\ r2.hasResponse = r.hasResponse
      /\ r2.credentialsSent = r.credentialsSent /\ r2.aborted = r.aborted
  BY EmitTyped DEF Events
<1>2. r.emitted \in Seq(Events)
  BY DEF Typed, Requests
<1> HIDE DEF r2
<1>3. ~Waiting(r2)
  BY <1>1 DEF Waiting, LiveAt
<1>4. OneAtATime(r2)
  BY <1>1, <1>3 DEF OneAtATime, Sound, LiveAt
<1>5. Told(r2)
  <2>1. /\ DOMAIN r2.emitted = 1 .. Len(r.emitted) + 1 /\ r2.emitted[Len(r.emitted) + 1] = event
        /\ \A j \in DOMAIN r.emitted : r2.emitted[j] = r.emitted[j] 
        /\ r2.emitted # <<>> /\ DOMAIN r.emitted = 1 .. Len(r.emitted)
    BY <1>1, <1>2
  <2>2. Told(r)
    BY DEF Sound
  <2>3. r.hasResponse => 1 \in DOMAIN r.emitted /\ r2.emitted[1] = "response" /\ ~r.aborted
    BY <2>1, <2>2, <1>2 DEF Told
  <2>4. \A j \in DOMAIN r2.emitted : j = Len(r.emitted) + 1 \/ j \in DOMAIN r.emitted
    BY <2>1, <1>2
  <2> QED
    BY <1>1, <2>1, <2>2, <2>3, <2>4 DEF Told
<1>6. \A i \in DOMAIN r2.attempts : AttemptInv(r2, i)
  BY <1>1 DEF Sound, AttemptInv
<1> QED
  BY <1>1, <1>4, <1>5, <1>6 DEF Sound, r2

(* The response is the first event. *)
LEMMA RespondSound ==
    ASSUME NEW r, Typed(r), Idle(r)
    PROVE  Sound(EmitOnResponse(r))
<1> DEFINE r1 == [r EXCEPT !.hasResponse = TRUE]
           r2 == EmitOnResponse(r)
<1>1. /\ Typed(r1) /\ r1.hasResponse = TRUE /\ r1.emitted = r.emitted
      /\ r1.attempts = r.attempts /\ r1.sending = r.sending
      /\ r1.cached = r.cached /\ r1.auth = r.auth
      /\ r1.credentialsSent = r.credentialsSent /\ r1.aborted = r.aborted
  BY DEF Typed, Requests
<1> HIDE DEF r1
<1>2. /\ r2.emitted = Append(r1.emitted, "response")
      /\ r2.attempts = r.attempts /\ r2.sending = r.sending
      /\ r2.cached = r.cached /\ r2.auth = r.auth /\ r2.hasResponse = TRUE
      /\ r2.credentialsSent = r.credentialsSent /\ r2.aborted = r.aborted
  BY <1>1, EmitTyped DEF Events, EmitOnResponse, r1
<1>3. r.emitted = <<>> /\ r.sending = <<>> /\ r.cached = 0 /\ ~r.aborted
  BY DEF Idle, Unanswered
<1> HIDE DEF r2
<1>4. r2.emitted # <<>> /\ DOMAIN r2.emitted = {1} /\ r2.emitted[1] = "response"
  BY <1>1, <1>2, <1>3
<1>5. Told(r2)
  BY <1>2, <1>3, <1>4 DEF Told
<1>6. ~Waiting(r2) /\ \A i \in DOMAIN r2.attempts : ~LiveAt(r2, i)
  BY <1>2, <1>3 DEF Waiting, LiveAt, Idle
<1>7. OneAtATime(r2)
  BY <1>2, <1>3, <1>6 DEF OneAtATime
<1>8. \A i \in DOMAIN r2.attempts : AttemptInv(r2, i)
  BY <1>2 DEF Idle, Unanswered, Sound, AttemptInv
<1> QED
  BY <1>2, <1>5, <1>7, <1>8 DEF r2, Sound, Idle, Unanswered

(* A request that is given up has no connection left. *)
LEMMA FatalErrorSound ==
    ASSUME NEW r, Typed(r), r.attempts # <<>>, Unanswered(r)
    PROVE  Sound(FatalError(r))
<1> DEFINE n == Len(r.attempts)
<1>1. PICK r2 : /\ Touched(r, r2, n)
                /\ r2.attempts[n] = Destroyed(r.attempts[n])
                /\ FatalError(r) = Emit([r2 EXCEPT !.aborted = TRUE], "fatalError")
  BY FatalErrorTyped DEF Unanswered
<1> DEFINE r3 == [r2 EXCEPT !.aborted = TRUE]
           r4 == Emit(r3, "fatalError")
<1>2. Typed(r2) /\ n \in DOMAIN r.attempts /\ r.attempts[n] \in Attempts
  BY <1>1, TouchedTyped DEF Typed, Requests
<1>3. /\ Typed(r3) /\ r3.aborted = TRUE /\ r3.emitted = r2.emitted
      /\ r3.attempts = r2.attempts /\ r3.sending = r2.sending /\ r3.cached = r2.cached
      /\ r3.auth = r2.auth /\ r3.credentialsSent = r2.credentialsSent /\ r3.hasResponse = r2.hasResponse
  BY <1>2 DEF Typed, Requests
<1> HIDE DEF r3
<1>4. /\ r4.emitted = Append(<<>>, "fatalError") /\ r4.aborted = TRUE
      /\ r4.attempts = r2.attempts /\ r4.sending = <<>> /\ r4.cached = 0 /\ r4.hasResponse = FALSE
      /\ r4.auth = r.auth /\ r4.credentialsSent = r.credentialsSent
  BY <1>1, <1>3, EmitTyped DEF Events, Touched, Unanswered
<1> HIDE DEF r4
<1>5. r4.emitted = <<"fatalError">>
  BY <1>4
<1>6. Told(r4)
  BY <1>4, <1>5 DEF Told
<1>7. ASSUME NEW i \in DOMAIN r4.attempts
      PROVE  ~LiveAt(r4, i) /\ AttemptInv(r4, i)
  <2>1. i \in DOMAIN r.attempts /\ AttemptInv(r, i) /\ (LiveAt(r, i) => i = n)
    BY <1>1, <1>4 DEF Touched, Unanswered, Sound, OneAtATime
  <2>2. CASE i = n
    BY <2>1, <2>2, <1>1, <1>2, <1>4 DEF Touched, Destroyed, AttemptInv, LiveAt, Attempts, Refused
  <2>3. CASE i # n
    <3>1. r4.attempts[i] = r.attempts[i]
      BY <2>1, <2>3, <1>1, <1>4 DEF Touched
    <3> QED
      BY <2>1, <2>3, <3>1, <1>4, <1>1 DEF AttemptInv, LiveAt, Touched, Refused
  <2> QED
    BY <2>2, <2>3
<1>8. OneAtATime(r4)
  BY <1>4, <1>7 DEF OneAtATime, Waiting
<1> QED
  BY <1>1, <1>4, <1>6, <1>7, <1>8 DEF r4, r3, Sound, Unanswered

NoneRefused(r) == \A i \in DOMAIN r.attempts : ~Refused(r.attempts[i])

(* A new attempt follows no attempt whose credentials were refused. *)
LEMMA NewAttemptSound ==
    ASSUME NEW r, Typed(r), Idle(r), NoneRefused(r),
           NEW via \in {"http1", "http2"}, NEW waitForData \in BOOLEAN,
           via = "http2" => ~waitForData
    PROVE  Sound(NewAttempt(r, via, waitForData))
<1> DEFINE r2 == NewAttempt(r, via, waitForData)
           n == Len(r.attempts) + 1
<1>1. /\ Typed(r2) /\ Len(r2.attempts) = n
      /\ \A i \in DOMAIN r.attempts : r2.attempts[i] = r.attempts[i]
      /\ r2.attempts[n] =
           [via |-> via, waitForData |-> waitForData, auth |-> r.auth, asks |-> "ok", state |-> "open"]
      /\ r2.sending = r.sending /\ r2.cached = r.cached /\ r2.auth = r.auth
      /\ r2.hasResponse = r.hasResponse /\ r2.credentialsSent = r.credentialsSent
      /\ r2.aborted = r.aborted /\ r2.emitted = r.emitted
  BY NewAttemptTyped
<1> HIDE DEF r2
<1>2. r.attempts \in Seq(Attempts) /\ r2.attempts \in Seq(Attempts)
  BY <1>1 DEF Typed, Requests
<1>3. \A i \in DOMAIN r2.attempts : i = n \/ i \in DOMAIN r.attempts
  BY <1>1, <1>2
<1>4. r.sending = <<>> /\ r.cached = 0 /\ r.emitted = <<>> /\ ~r.hasResponse /\ ~r.aborted
  BY DEF Idle, Unanswered
<1>5. \A i \in DOMAIN r2.attempts : LiveAt(r2, i) => i = n
  BY <1>1, <1>3 DEF Idle, LiveAt
<1>6. OneAtATime(r2)
  BY <1>1, <1>4, <1>5 DEF OneAtATime
<1>7. Told(r2)
  BY <1>1, <1>4 DEF Told
<1>8. ASSUME NEW i \in DOMAIN r2.attempts
      PROVE  AttemptInv(r2, i)
  <2>1. CASE i = n
    <3>1. r.auth # "none" => r2.credentialsSent
      BY <1>1 DEF Idle, Unanswered, Sound
    <3> QED
      BY <2>1, <3>1, <1>1 DEF AttemptInv, Refused
  <2>2. CASE i \in DOMAIN r.attempts
    <3>1. AttemptInv(r, i) /\ ~Refused(r.attempts[i]) /\ r2.attempts[i] = r.attempts[i]
      BY <2>2, <1>1 DEF Idle, Unanswered, Sound, NoneRefused
    <3> QED
      BY <3>1, <1>1 DEF AttemptInv
  <2> QED
    BY <1>3, <2>1, <2>2
<1> QED
  BY <1>1, <1>6, <1>7, <1>8 DEF Sound, Idle, Unanswered, r2

(* Sending from an idle request makes it sound, whichever transport or cache answers. *)
LEMMA SendSound ==
    ASSUME NEW r, Typed(r), Idle(r), NoneRefused(r), NEW waitForData \in BOOLEAN, NEW hit \in BOOLEAN
    PROVE  Sound(Send(r, waitForData, hit))
<1> DEFINE r2 == Send(r, waitForData, hit)
<1>0. /\ r.sending = <<>> /\ r.cached = 0 /\ r.emitted = <<>> /\ ~r.hasResponse /\ ~r.aborted
      /\ r \in Requests
  BY DEF Idle, Unanswered, Typed
<1>s. ASSUME r2.attempts = r.attempts, r2.emitted = r.emitted, r2.hasResponse = r.hasResponse,
             r2.aborted = r.aborted, r2.auth = r.auth, r2.credentialsSent = r.credentialsSent,
             r2.cached <= 1, r2.cached = 1 => r2.sending = <<>>, Len(r2.sending) <= 1
      PROVE  Sound(r2)
  <2> HIDE DEF r2
  <2>1. \A i \in DOMAIN r2.attempts : ~LiveAt(r2, i)
    BY <1>s DEF Idle, LiveAt
  <2>2. OneAtATime(r2)
    BY <1>s, <1>0, <2>1 DEF OneAtATime
  <2>3. Told(r2)
    BY <1>s, <1>0 DEF Told
  <2>4. \A i \in DOMAIN r2.attempts : AttemptInv(r2, i)
    BY <1>s DEF AttemptInv, NoneRefused, Idle, Unanswered, Sound
  <2> QED
    BY <1>s, <2>2, <2>3, <2>4 DEF Sound, Idle, Unanswered
<1>1. CASE r2 = [r EXCEPT !.cached = @ + 1]
  <2>1. /\ r2.attempts = r.attempts /\ r2.emitted = r.emitted /\ r2.hasResponse = r.hasResponse
        /\ r2.aborted = r.aborted /\ r2.auth = r.auth /\ r2.credentialsSent = r.credentialsSent
        /\ r2.cached = 1 /\ r2.sending = <<>>
    <3> HIDE DEF r2
    <3> QED
      BY <1>0, <1>1 DEF Requests
  <2> HIDE DEF r2
  <2>2. Sound(r2)
    BY <1>s, <2>1
  <2> QED
    BY <2>2 DEF r2
<1>2. CASE r2 = [r EXCEPT !.sending = Append(@, waitForData)]
  <2>1. /\ r2.attempts = r.attempts /\ r2.emitted = r.emitted /\ r2.hasResponse = r.hasResponse
        /\ r2.aborted = r.aborted /\ r2.auth = r.auth /\ r2.credentialsSent = r.credentialsSent
        /\ r2.cached = 0 /\ r2.sending = Append(<<>>, waitForData)
    <3> HIDE DEF r2
    <3> QED
      BY <1>0, <1>2 DEF Requests
  <2>2. Len(Append(<<>>, waitForData)) = 1
    OBVIOUS
  <2> HIDE DEF r2
  <2>3. Sound(r2)
    BY <1>s, <2>1, <2>2
  <2> QED
    BY <2>3 DEF r2
<1>3. CASE r2 = NewAttempt(r, "http1", waitForData)
  BY <1>3, NewAttemptSound
<1> QED
  BY <1>1, <1>2, <1>3, SendCases

(* A response is told, or answered with credentials that have not been refused. *)
LEMMA OnResponseSound ==
    ASSUME NEW r, Typed(r), r.attempts # <<>>, Idle(r), NEW status \in Statuses, NEW hit \in BOOLEAN,
           r.attempts[Len(r.attempts)].asks = status
    PROVE  Sound(OnResponse(r, status, hit))
<1>1. CASE ShouldResendWithCredentials(r, status)
  <2> DEFINE r1 == [r EXCEPT !.auth = AddCredentials(status), !.credentialsSent = TRUE]
  <2>1. AddCredentials(status) \in Headers
    BY <1>1, AddCredentialsType DEF ShouldResendWithCredentials
  <2>2. /\ Typed(r1) /\ r1.credentialsSent = TRUE
        /\ r1.attempts = r.attempts /\ r1.sending = r.sending /\ r1.cached = r.cached
        /\ r1.emitted = r.emitted /\ r1.hasResponse = r.hasResponse /\ r1.aborted = r.aborted
    BY <2>1 DEF Typed, Requests
  <2>3. OnResponse(r, status, hit) = Send(r1, status = "asksNtlm", hit)
    BY <1>1 DEF OnResponse, ResendWithCredentials
  <2> HIDE DEF r1
  <2>4. NoneRefused(r1)
    <3>1. \A i \in DOMAIN r.attempts : Refused(r.attempts[i]) => i = Len(r.attempts)
      BY DEF Idle, Unanswered, Sound, AttemptInv
    <3>2. ~Refused(r.attempts[Len(r.attempts)])
      <4>1. CASE status = "challenge"
        BY <4>1 DEF Refused
      <4>2. CASE ~r.credentialsSent
        <5>1. Len(r.attempts) \in DOMAIN r.attempts
          BY DEF Typed, Requests
        <5> QED
          BY <4>2, <5>1 DEF Refused, Idle, Unanswered, Sound, AttemptInv
      <4> QED
        BY <1>1, <4>1, <4>2 DEF ShouldResendWithCredentials
    <3> QED
      BY <2>2, <3>1, <3>2 DEF NoneRefused
  <2>5. Idle(r1)
    <3>1. OneAtATime(r1) /\ Told(r1)
      BY <2>2 DEF Idle, Unanswered, Sound, OneAtATime, Told, Waiting, LiveAt
    <3>2. \A i \in DOMAIN r1.attempts : AttemptInv(r1, i)
      BY <2>2 DEF Idle, Unanswered, Sound, AttemptInv
    <3>3. \A i \in DOMAIN r1.attempts : ~LiveAt(r1, i)
      BY <2>2 DEF Idle, LiveAt
    <3> QED
      BY <2>2, <3>1, <3>2, <3>3 DEF Idle, Unanswered, Sound
  <2> QED
    BY <2>2, <2>3, <2>4, <2>5, SendSound
<1>2. CASE ~ShouldResendWithCredentials(r, status)
  BY <1>2, FatalErrorSound, RespondSound DEF OnResponse, Idle
<1> QED
  BY <1>1, <1>2

-----------------------------------------------------------------------------
(* The invariant *)

SoundInv == ~disturbed => Sound(request)

(* The request starts sound. *)
LEMMA SoundInit ==
    ASSUME Init
    PROVE  SoundInv
<1>1. Idle(InitialRequest) /\ NoneRefused(InitialRequest)
  BY DEF Idle, Unanswered, Sound, OneAtATime, Told, AttemptInv, Waiting, InitialRequest, NoneRefused, NoRequest
<1> QED
  BY <1>1, HitsType, InitialTyped, SendSound DEF Init, SoundInv

(* The live attempt, or an attempt that is over, ends. *)
LEMMA Ended ==
    ASSUME Typed(request), Sound(request), NEW i \in DOMAIN request.attempts
    PROVE  LET r == SetState(request, i, "ended") IN
           /\ Typed(r) /\ r.attempts # <<>> /\ Sound(r)
           /\ Len(r.attempts) = Len(request.attempts)
           /\ r.attempts[i].asks = request.attempts[i].asks
           /\ LiveAt(request, i) => Idle(r) /\ i = Len(request.attempts) /\ Unanswered(request)
           /\ ~Waiting(request) => ~Waiting(r)
           /\ r.hasResponse = request.hasResponse /\ r.aborted = request.aborted
<1> DEFINE r == SetState(request, i, "ended")
<1>1. /\ Touched(request, r, i) /\ r.attempts[i].state = "ended"
      /\ r.attempts[i].asks = request.attempts[i].asks
  BY TouchState DEF Typed, States
<1> HIDE DEF r
<1>2. Sound(r) /\ (Waiting(r) => Waiting(request))
  BY <1>1, TouchOver
<1>3. ASSUME LiveAt(request, i)
      PROVE  Idle(r) /\ i = Len(request.attempts) /\ Unanswered(request)
  <2>1. Unanswered(request) /\ i = Len(request.attempts)
    BY <1>3, LiveIsUnanswered
  <2>2. AttemptInv(r, i) /\ ~LiveAt(r, i)
    BY <1>1, <1>2 DEF Sound, LiveAt, Touched
  <2> QED
    BY <1>1, <2>1, <2>2, TouchIdle
<1>4. Typed(r)
  BY <1>1, TouchedTyped
<1>5. Len(r.attempts) = Len(request.attempts) /\ r.attempts # <<>>
      /\ r.hasResponse = request.hasResponse /\ r.aborted = request.aborted
  BY <1>1 DEF Touched
<1> QED
  BY <1>1, <1>2, <1>3, <1>4, <1>5 DEF r

(* An answer keeps the request sound. *)
LEMMA ResponseArrivesSound ==
    ASSUME TypeInv, SoundInv, NEW i, NEW status \in Statuses, ResponseArrives(i, status), ~disturbed
    PROVE  Sound(request')
<1> DEFINE r == [SetState(request, i, "answered") EXCEPT !.attempts[i].asks = status]
           a == request.attempts[i]
<1>1. Typed(request) /\ Sound(request) /\ i \in DOMAIN request.attempts /\ a.state = "open"
  BY DEF TypeInv, SoundInv, ResponseArrives, In
<1>2. Touched(request, r, i) /\ r.attempts[i].state = "answered" /\ r.attempts[i].asks = status
  BY <1>1, TouchAnswer DEF Typed
<1>3. IF a.waitForData THEN request' = r ELSE \E hit \in Hits : request' = OnResponse(r, status, hit)
  BY DEF ResponseArrives
<1> HIDE DEF r
<1>4. Unanswered(request) /\ i = Len(request.attempts)
  BY <1>1, LiveIsUnanswered DEF LiveAt
<1>5. AttemptInv(r, i)
  <2>1. AttemptInv(request, i)
    BY <1>1 DEF Sound
  <2>2. r.sending = <<>> /\ i = Len(r.attempts)
    BY <1>2, <1>4 DEF Touched, Unanswered
  <2> QED
    BY <2>1, <2>2, <1>2 DEF AttemptInv, Touched
<1>6. CASE a.waitForData
  <2>1. Unanswered(r)
    BY <1>1, <1>2, <1>4, <1>5, TouchUnanswered
  <2> QED
    BY <2>1, <1>3, <1>6 DEF Unanswered
<1>7. CASE ~a.waitForData
  <2>1. ~LiveAt(r, i)
    BY <1>2, <1>7 DEF LiveAt, Touched
  <2>2. Idle(r)
    BY <2>1, <1>1, <1>2, <1>4, <1>5, TouchIdle
  <2>3. Typed(r) /\ r.attempts # <<>> /\ r.attempts[Len(r.attempts)].asks = status
    <3>1. Typed(r)
      BY <1>1, <1>2, TouchedTyped
    <3>2. Len(r.attempts) = i /\ i \in DOMAIN r.attempts
      BY <1>1, <1>2, <1>4 DEF Touched
    <3> QED
      BY <3>1, <3>2, <1>2
  <2> QED
    BY <2>2, <2>3, <1>3, <1>7, HitsType, OnResponseSound
<1> QED
  BY <1>6, <1>7

(* The end of a body keeps the request sound. *)
LEMMA BodyEndsSound ==
    ASSUME TypeInv, SoundInv, NEW i, BodyEnds(i), ~disturbed
    PROVE  Sound(request')
<1> DEFINE r == SetState(request, i, "ended")
           a == request.attempts[i]
<1>1. Typed(request) /\ Sound(request) /\ i \in DOMAIN request.attempts /\ a.state = "answered"
  BY DEF TypeInv, SoundInv, BodyEnds, In
<1>2. IF a.waitForData THEN \E hit \in Hits : request' = OnResponse(r, a.asks, hit) ELSE request' = r
  BY DEF BodyEnds
<1>3. /\ Typed(r) /\ r.attempts # <<>> /\ Sound(r) /\ Len(r.attempts) = Len(request.attempts)
      /\ r.attempts[i].asks = a.asks
      /\ LiveAt(request, i) => Idle(r) /\ i = Len(request.attempts)
  BY <1>1, Ended
<1>4. a \in Attempts
  BY <1>1 DEF Typed, Requests
<1>5. a.asks \in Statuses
  BY <1>4 DEF Attempts
<1> HIDE DEF r
<1>6. CASE a.waitForData
  <2>1. LiveAt(request, i)
    BY <1>1, <1>6 DEF LiveAt
  <2> QED
    BY <2>1, <1>2, <1>3, <1>5, <1>6, HitsType, OnResponseSound
<1>7. CASE ~a.waitForData
  BY <1>2, <1>3, <1>7
<1> QED
  BY <1>6, <1>7

(* A timeout keeps the request sound. *)
LEMMA TimeoutSound ==
    ASSUME TypeInv, SoundInv, NEW i, TimeoutFires(i), ~disturbed'
    PROVE  Sound(request')
<1>1. /\ Typed(request) /\ i \in DOMAIN request.attempts /\ request.attempts # <<>>
      /\ request.attempts[i].state \in {"open", "answered"} /\ request' = OnTimeout(request)
  BY DEF TypeInv, TimeoutFires, In
<1>2. ~disturbed /\ ~Superseded(i)
  BY DEF TimeoutFires
<1>3. Sound(request)
  BY <1>2 DEF SoundInv
<1>4. CASE request.hasResponse
  BY <1>1, <1>3, <1>4 DEF OnTimeout
<1>5. CASE ~request.hasResponse
  <2>1. LiveAt(request, i)
    BY <1>1, <1>2, <1>5 DEF Superseded, LiveAt
  <2>2. Unanswered(request)
    BY <1>1, <1>3, <2>1, LiveIsUnanswered
  <2> QED
    BY <1>1, <1>5, <2>2, FatalErrorSound DEF OnTimeout
<1> QED
  BY <1>4, <1>5

(* An error ends a request without a response; it is an error of its connection otherwise. *)
LEMMA FailsSound ==
    ASSUME TypeInv, SoundInv, NEW i, NEW err, AttemptFails(i, err), ~disturbed'
    PROVE  Sound(request')
<1> DEFINE r == SetState(request, i, "ended")
           a == request.attempts[i]
<1>1. /\ Typed(request) /\ i \in DOMAIN request.attempts
      /\ a.state \in {"open", "answered", "destroyed"} /\ err \in PossibleErrors(a)
      /\ request' = IF err = "protocol" THEN SendReal(r, FALSE) ELSE OnError(r, err)
  BY DEF TypeInv, AttemptFails, In
<1>2. ~disturbed /\ ~Superseded(i) /\ ~(err = "protocol" /\ a.state = "answered")
  BY DEF AttemptFails
<1>3. Sound(request)
  BY <1>2 DEF SoundInv
<1>4. /\ Typed(r) /\ r.attempts # <<>> /\ Sound(r) /\ Len(r.attempts) = Len(request.attempts)
      /\ r.attempts[i].asks = a.asks
      /\ LiveAt(request, i) => Idle(r) /\ i = Len(request.attempts) /\ Unanswered(request)
      /\ ~Waiting(request) => ~Waiting(r)
      /\ r.hasResponse = request.hasResponse /\ r.aborted = request.aborted
  BY <1>1, <1>3, Ended
<1> HIDE DEF r
<1>5. a \in Attempts /\ AttemptInv(request, i)
  BY <1>1, <1>3 DEF Typed, Requests, Sound
<1>6. a.via \in {"http1", "http2"}
  BY <1>5 DEF Attempts
<1>7. CASE LiveAt(request, i)
  <2>1. Idle(r)
    BY <1>4, <1>7
  <2>2. ~Waiting(r) /\ ~r.hasResponse /\ Unanswered(r)
    BY <2>1 DEF Idle, Unanswered, Waiting
  <2>3. CASE err = "protocol"
    <3>1. a.via = "http2"
      BY <1>1, <1>6, <2>3 DEF PossibleErrors
    <3>2. a.state = "open"
      BY <1>5, <1>7, <3>1 DEF LiveAt, AttemptInv
    <3>3. NoneRefused(r)
      <4>1. \A j \in DOMAIN r.attempts : Refused(r.attempts[j]) => j = Len(r.attempts)
        BY <1>4 DEF Sound, AttemptInv
      <4>2. ~Refused(r.attempts[i])
        BY <1>4, <1>5, <3>2 DEF AttemptInv, Refused
      <4> QED
        BY <1>4, <1>7, <4>1, <4>2 DEF NoneRefused
    <3> QED
      BY <1>1, <1>4, <2>1, <2>3, <3>3, NewAttemptSound DEF SendReal
  <2>4. CASE err # "protocol"
    <3>1. request' \in {Emit(r, "socketHangUp"), FatalError(r), Emit(r, "error")}
      BY <1>1, <2>4 DEF OnError
    <3> QED
      BY <3>1, <1>4, <2>2, FatalErrorSound, EmitSound
  <2> QED
    BY <2>3, <2>4
<1>8. CASE ~LiveAt(request, i) /\ a.state = "answered"
  <2>1. request.hasResponse /\ err # "protocol"
    BY <1>2, <1>8 DEF Superseded, LiveAt
  <2>2. err \in {"reset", "other"}
    BY <1>1, <1>6, <1>8, <2>1 DEF PossibleErrors
  <2>3. request' = Emit(r, "error")
    BY <1>1, <1>4, <2>1, <2>2 DEF OnError, IsDNSErr
  <2>4. ~Waiting(request)
    BY <1>3, <2>1 DEF Sound, OneAtATime, Told
  <2> QED
    BY <2>1, <2>3, <2>4, <1>4, EmitSound
<1>9. CASE a.state = "destroyed"
  <2>1. a.via = "http1" /\ request.aborted
    BY <1>5, <1>9 DEF AttemptInv
  <2>2. err \in {"hangUp", "other"}
    BY <1>1, <1>9, <2>1 DEF PossibleErrors
  <2>3. request' \in {Emit(r, "socketHangUp"), Emit(r, "error")}
    BY <1>1, <2>2 DEF OnError, IsDNSErr
  <2>4. ~Waiting(request) /\ ~request.hasResponse
    BY <1>3, <2>1 DEF Sound, OneAtATime, Told
  <2> QED
    BY <2>3, <2>4, <1>4, EmitSound
<1> QED
  BY <1>1, <1>7, <1>8, <1>9 DEF LiveAt

(* Every step keeps the request sound. *)
LEMMA SoundStep ==
    ASSUME TypeInv, SoundInv, [Next]_vars
    PROVE  SoundInv'
<1> SUFFICES ASSUME ~disturbed'
             PROVE  Sound(request')
  BY DEF SoundInv
<1>t. Typed(request)
  BY DEF TypeInv
<1>0. ~disturbed
  BY DEF Next, vars, CachedAnswer, SessionObtained, ResponseArrives, BodyEnds, BodyBreaksOff,
         TimeoutFires, AttemptFails
<1>s. Sound(request)
  BY <1>0 DEF SoundInv
<1>1. CASE CachedAnswer
  <2> DEFINE r == [request EXCEPT !.cached = @ - 1]
  <2>1. request.cached = 1 /\ request.sending = <<>> /\ Waiting(request)
    BY <1>1, <1>s, <1>t DEF CachedAnswer, Sound, OneAtATime, Waiting, Typed, Requests
  <2>2. request.emitted = <<>> /\ ~request.aborted /\ ~request.hasResponse
    BY <1>s, <2>1 DEF Sound, OneAtATime, Told
  <2>3. /\ Typed(r) /\ r.cached = 0 /\ r.attempts = request.attempts /\ r.sending = <<>>
        /\ r.emitted = <<>> /\ ~r.aborted /\ ~r.hasResponse
        /\ r.auth = request.auth /\ r.credentialsSent = request.credentialsSent
    BY <1>t, <2>1, <2>2 DEF Typed, Requests
  <2>4. request' = EmitOnResponse(r)
    BY <1>1 DEF CachedAnswer
  <2> HIDE DEF r
  <2>5. \A i \in DOMAIN r.attempts : ~LiveAt(r, i)
    BY <1>s, <2>1, <2>3 DEF Sound, OneAtATime, LiveAt
  <2>6. OneAtATime(r) /\ Told(r)
    BY <2>3, <2>5 DEF OneAtATime, Told
  <2>7. \A i \in DOMAIN r.attempts : AttemptInv(r, i)
    BY <1>s, <2>1, <2>2, <2>3 DEF Sound, AttemptInv
  <2>8. Idle(r)
    BY <1>s, <2>3, <2>5, <2>6, <2>7 DEF Idle, Unanswered, Sound
  <2> QED
    BY <2>3, <2>4, <2>8, RespondSound
<1>2. CASE SessionObtained
  <2>0. PICK i \in DOMAIN request.sending : \E r :
           /\ Typed(r)
           /\ r.sending \in Seq(BOOLEAN) /\ Len(r.sending) = Len(request.sending) - 1
           /\ r.attempts = request.attempts /\ r.cached = request.cached /\ r.auth = request.auth
           /\ r.hasResponse = request.hasResponse /\ r.credentialsSent = request.credentialsSent
           /\ r.aborted = request.aborted /\ r.emitted = request.emitted
           /\ \/ request' = NewAttempt(r, "http2", FALSE)
              \/ request' = NewAttempt(r, "http1", request.sending[i])
              \/ request' = [r EXCEPT !.rejected = TRUE]
    BY <1>2, Obtained
  <2>1. PICK r :
           /\ Typed(r)
           /\ r.sending \in Seq(BOOLEAN) /\ Len(r.sending) = Len(request.sending) - 1
           /\ r.attempts = request.attempts /\ r.cached = request.cached /\ r.auth = request.auth
           /\ r.hasResponse = request.hasResponse /\ r.credentialsSent = request.credentialsSent
           /\ r.aborted = request.aborted /\ r.emitted = request.emitted
           /\ \/ request' = NewAttempt(r, "http2", FALSE)
              \/ request' = NewAttempt(r, "http1", request.sending[i])
              \/ request' = [r EXCEPT !.rejected = TRUE]
    BY <2>0
  <2>2. request.sending \in Seq(BOOLEAN) /\ request.sending[i] \in BOOLEAN /\ request.cached \in Nat
    BY <1>t DEF Typed, Requests
  <2>3. request.sending # <<>> /\ Len(request.sending) = 1 /\ request.cached = 0 /\ Waiting(request)
    <3>1. request.sending # <<>> /\ Len(request.sending) >= 1
      BY <2>2
    <3>2. Len(request.sending) <= 1 /\ request.cached <= 1
          /\ (request.cached = 1 => request.sending = <<>>)
      BY <1>s DEF Sound, OneAtATime
    <3>3. Waiting(request)
      BY <3>1 DEF Waiting
    <3>a. Len(request.sending) \in Nat
      BY <2>2
    <3>b. \A n \in Nat : n >= 1 /\ n <= 1 => n = 1
      OBVIOUS
    <3>c. Len(request.sending) <= 1
      BY <3>2
    <3>4. Len(request.sending) = 1
      BY <3>a, <3>b, <3>c, <3>1, Zenon
    <3>5. request.cached = 0
      BY <2>2, <3>1, <3>2
    <3> QED
      BY <3>1, <3>3, <3>4, <3>5
  <2>4. request.emitted = <<>> /\ ~request.aborted /\ ~request.hasResponse
    BY <1>s, <2>3 DEF Sound, OneAtATime, Told
  <2>5. r.sending = <<>>
    BY <2>1, <2>3
  <2>6. \A j \in DOMAIN r.attempts : ~LiveAt(r, j)
    BY <1>s, <2>1, <2>3 DEF Sound, OneAtATime, LiveAt
  <2>7. OneAtATime(r) /\ Told(r)
    BY <2>1, <2>3, <2>4, <2>5, <2>6 DEF OneAtATime, Told
  <2>8. NoneRefused(r) /\ \A j \in DOMAIN r.attempts : AttemptInv(r, j)
    BY <1>s, <2>1, <2>3, <2>5 DEF Sound, AttemptInv, NoneRefused
  <2>9. Idle(r)
    BY <1>s, <2>1, <2>3, <2>4, <2>5, <2>6, <2>7, <2>8 DEF Idle, Unanswered, Sound
  <2>10. Sound([r EXCEPT !.rejected = TRUE])
    <3> DEFINE r2 == [r EXCEPT !.rejected = TRUE]
    <3>1. /\ r2.sending = r.sending
          /\ r2.attempts = r.attempts /\ r2.cached = r.cached /\ r2.auth = r.auth
          /\ r2.hasResponse = r.hasResponse /\ r2.credentialsSent = r.credentialsSent
          /\ r2.aborted = r.aborted /\ r2.emitted = r.emitted
      BY <2>1 DEF Typed, Requests
    <3> HIDE DEF r2
    <3>2. Sound(r2)
      BY <3>1, <2>9 DEF Idle, Unanswered, Sound, OneAtATime, Told, AttemptInv, Waiting, LiveAt
    <3> QED
      BY <3>2 DEF r2
  <2> QED
    BY <2>1, <2>2, <2>8, <2>9, <2>10, NewAttemptSound
<1>3. CASE \E i \in 1..MaxAttempts, status \in Statuses : ResponseArrives(i, status)
  BY <1>0, <1>3, ResponseArrivesSound
<1>4. CASE \E i \in 1..MaxAttempts : BodyEnds(i)
  BY <1>0, <1>4, BodyEndsSound
<1>5. CASE \E i \in 1..MaxAttempts : BodyBreaksOff(i)
  <2>1. PICK i : /\ i \in DOMAIN request.attempts /\ request' = SetState(request, i, "broken")
    BY <1>5 DEF BodyBreaksOff, In
  <2>2. Touched(request, request', i) /\ request'.attempts[i].state = "broken"
        /\ request'.attempts[i].asks = request.attempts[i].asks
    BY <2>1, <1>t, TouchState DEF Typed, States
  <2> QED
    BY <2>1, <2>2, <1>t, <1>s, TouchOver
<1>6. CASE \E i \in 1..MaxAttempts : TimeoutFires(i)
  BY <1>6, TimeoutSound
<1>7. CASE \E i \in 1..MaxAttempts, err \in {"hangUp", "unresolved", "reset", "tunnel", "protocol", "other"} :
             AttemptFails(i, err)
  BY <1>7, FailsSound
<1>8. CASE UNCHANGED vars
  BY <1>8, <1>s DEF vars
<1> QED
  BY <1>1, <1>2, <1>3, <1>4, <1>5, <1>6, <1>7, <1>8 DEF Next

-----------------------------------------------------------------------------
(* Types and soundness hold in every state. *)
LEMMA Invariance == Spec => [](TypeInv /\ SoundInv)
<1>1. Init => TypeInv /\ SoundInv
  BY TypeInit, SoundInit
<1>2. TypeInv /\ SoundInv /\ [Next]_vars => TypeInv' /\ SoundInv'
  BY TypeStep, SoundStep
<1> QED
  BY <1>1, <1>2, PTL DEF Spec

(* A response is the first event of a request and errors of its connection are all that       *)
(* follows it, and a request that was given up is not answered, whatever is resent.           *)
THEOREM AnsweredOnce == Spec => []AnswerIsReportedOnce
<1>1. TypeInv /\ SoundInv => AnswerIsReportedOnce
  <2> SUFFICES ASSUME TypeInv, Sound(request), ~disturbed
               PROVE  AnswerIsReportedOnce
    BY DEF SoundInv, AnswerIsReportedOnce, ResponseComesFirst, AnsweredIsAnswered
  <2>1. OneAtATime(request) /\ Told(request)
    BY DEF Sound
  <2>2. request.aborted => request.sending = <<>> /\ \A i \in DOMAIN request.attempts : ~In(i, {"open"})
    BY <2>1 DEF OneAtATime, Waiting, LiveAt, In
  <2>3. \A i \in DOMAIN request.emitted : Emitted(i, "response") => i = 1
    BY <2>1 DEF Told, Emitted
  <2>4. \A i, j \in DOMAIN request.emitted : i < j /\ Emitted(i, "response") => Emitted(j, "error")
    BY <2>1 DEF Told, Emitted
  <2> QED
    BY <2>2, <2>3, <2>4 DEF AnswerIsReportedOnce, ResponseComesFirst, AnsweredIsAnswered
<1> QED
  BY <1>1, Invariance, PTL

(* An attempt whose credentials were refused is the last. *)
THEOREM AuthenticationStops == Spec => []StopsAuthenticating
<1>1. TypeInv /\ SoundInv => StopsAuthenticating
  <2> SUFFICES ASSUME TypeInv, Sound(request),
                      NEW i \in DOMAIN request.attempts, NEW j \in DOMAIN request.attempts,
                      i < j, request.attempts[i].auth # "none"
               PROVE  request.attempts[i].asks \notin {"asksBasic", "asksNtlm"}
    BY DEF SoundInv, StopsAuthenticating
  <2>1. request.attempts \in Seq(Attempts)
    BY DEF TypeInv, Typed, Requests
  <2>2. i # Len(request.attempts)
    BY <2>1
  <2> QED
    BY <2>2 DEF Sound, AttemptInv, Refused
<1> QED
  BY <1>1, Invariance, PTL

-----------------------------------------------------------------------------
(* The cache of responses *)

Using(r) == users[r].step \in {"responded", "fetched", "configured"}

(* A request that has begun has an object; what it has got of a processed resource is the    *)
(* whole body, and an object whose body is gone was piped for a rule.                        *)
BodyInv ==
    /\ \A r \in Users : ~At(r, "new") => users[r].res \in DOMAIN objects
    /\ \A o \in DOMAIN objects : objects[o].body = "taken" => o \in spoiled
    /\ \A r \in Users :
        /\ processed /\ (At(r, "fetched") \/ At(r, "configured")) => users[r].got = "whole"
        /\ At(r, "stuck") => users[r].res \in spoiled
        /\ At(r, "sent") => users[r].got = "whole" \/ users[r].res \in spoiled

(* Requests that use one object at a time know of each other; the object of any other one    *)
(* has the headers of its own rules and no others, and so has its answer.                    *)
OwnHeaders(r) == IF users[r].rules.header THEN {r} ELSE {}

HeaderInv ==
    /\ \A q, r \in Users : q # r /\ Using(q) /\ Using(r) /\ users[q].res = users[r].res => r \in shared
    /\ \A r \in Users \ shared :
        /\ At(r, "responded") \/ At(r, "fetched") => Res(r).headers = {}
        /\ At(r, "configured") => Res(r).headers = OwnHeaders(r)
        /\ At(r, "sent") => users[r].headers = OwnHeaders(r)

CacheInv == CacheTypeOK /\ BodyInv /\ HeaderInv

(* The records of requests. *)
UserRecords ==
    [rules : Rules, step : {"new", "responded", "fetched", "configured", "sent", "stuck"},
     res : {NoEntry} \cup DOMAIN objects, got : {"nothing", "empty", "whole"}, headers : SUBSET Users]

LEMMA CacheInitial == CacheInit => CacheInv
BY DEF CacheInit, CacheInv, CacheTypeOK, BodyInv, HeaderInv, Using, At, NewUser, NoEntry, Rules, Res

(* What an action leaves to check of the requests other than r. *)
LEMMA AddEntryLemma ==
    ASSUME CacheTypeOK, NEW r \in Users, users[r].res \in DOMAIN objects, AddEntry(r)
    PROVE  /\ objects' \in Seq(Objects) /\ entry' \in {NoEntry} \cup DOMAIN objects'
           /\ DOMAIN objects \subseteq DOMAIN objects'
           /\ \A o \in DOMAIN objects : objects'[o] = objects[o]
           /\ \A o \in DOMAIN objects' \ DOMAIN objects : objects'[o].body = "whole"
<1> DEFINE new == [body |-> "whole", headers |-> {}, stream |-> FALSE]
<1>1. CASE objects' = Append(objects, new) /\ entry' = Len(objects) + 1
  <2>1. new \in Objects
    BY DEF Objects
  <2>2. /\ Append(objects, new) \in Seq(Objects) /\ Len(Append(objects, new)) = Len(objects) + 1
        /\ Append(objects, new)[Len(objects) + 1] = new
        /\ \A o \in 1..Len(objects) : Append(objects, new)[o] = objects[o]
    BY <2>1, AppendProperties DEF CacheTypeOK
  <2>3. DOMAIN objects = 1..Len(objects) /\ DOMAIN objects' = 1..Len(objects) + 1 /\ Len(objects) \in Nat
    BY <1>1, <2>2 DEF CacheTypeOK
  <2>. QED
    BY <1>1, <2>2, <2>3
<1>2. CASE UNCHANGED <<objects, entry>>
  BY <1>2 DEF CacheTypeOK
<1>. QED
  BY <1>1, <1>2 DEF AddEntry

LEMMA HitStep ==
    ASSUME CacheInv, NEW r \in Users, NEW rules \in Rules, Hit(r, rules)
    PROVE  CacheInv'
<1> DEFINE u == [NewUser EXCEPT !.rules = rules, !.step = "responded", !.res = entry]
<1>1. /\ u.rules = rules /\ u.step = "responded" /\ u.res = entry /\ u.got = "nothing" /\ u.headers = {}
      /\ users[r].step = "new" /\ entry \in DOMAIN objects
      /\ users' = [users EXCEPT ![r] = u] /\ objects' = [objects EXCEPT ![entry].headers = {}]
      /\ UNCHANGED <<processed, entry, spoiled>>
      /\ shared' = shared \cup (IF Sharing(entry) = {} THEN {} ELSE Sharing(entry) \cup {r})
  BY DEF Hit, NewUser, WithStoredHeaders, IsNext, At, CacheInv, CacheTypeOK
<1>2. /\ users'[r] = u /\ \A q \in Users \ {r} : users'[q] = users[q]
      /\ DOMAIN objects' = DOMAIN objects /\ objects'[entry].headers = {}
      /\ \A o \in DOMAIN objects : objects'[o].body = objects[o].body
      /\ \A o \in DOMAIN objects \ {entry} : objects'[o] = objects[o]
  <2>1. DOMAIN objects = 1..Len(objects) /\ \A o \in DOMAIN objects : objects[o] \in Objects
    BY DEF CacheInv, CacheTypeOK
  <2>2. DOMAIN users = Users
    BY DEF CacheInv, CacheTypeOK
  <2>. QED
    BY <1>1, <2>1, <2>2 DEF Objects
<1>3. CacheTypeOK'
  <2>1. objects' \in Seq(Objects)
    <3>1. objects[entry] \in Objects
      BY <1>1 DEF CacheInv, CacheTypeOK
    <3>2. [objects[entry] EXCEPT !.headers = {}] \in Objects
      BY <3>1 DEF Objects
    <3>. QED
      BY <1>1, <3>2 DEF CacheInv, CacheTypeOK
  <2>2. shared' \subseteq Users
    BY <1>1 DEF CacheInv, CacheTypeOK, Sharing
  <2>3. u \in UserRecords
    BY <1>1 DEF NewUser, UserRecords
  <2>. QED
    BY <1>1, <1>2, <2>1, <2>2, <2>3 DEF CacheInv, CacheTypeOK, UserRecords
<1>4. BodyInv'
  BY <1>1, <1>2 DEF CacheInv, BodyInv, At
<1>5. HeaderInv'
  <2>1. ASSUME NEW q \in Users, Using(q)', q # r, users'[q].res = entry
        PROVE  q \in shared' /\ r \in shared'
    BY <1>1, <1>2, <2>1 DEF Using, Sharing
  <2>2. \A p, q \in Users : p # q /\ Using(p)' /\ Using(q)' /\ users'[p].res = users'[q].res => q \in shared'
    BY <1>1, <1>2, <2>1 DEF Using, CacheInv, HeaderInv
  <2>3. ASSUME NEW q \in Users \ shared', q # r
        PROVE  /\ At(q, "responded")' \/ At(q, "fetched")' => Res(q)'.headers = {}
               /\ At(q, "configured")' => Res(q)'.headers = OwnHeaders(q)'
               /\ At(q, "sent")' => users'[q].headers = OwnHeaders(q)'
    <3>1. q \notin shared /\ users'[q] = users[q] /\ OwnHeaders(q)' = OwnHeaders(q)
      BY <1>1, <1>2, <2>3 DEF OwnHeaders
    <3>2. Using(q) => users[q].res # entry /\ users[q].res \in DOMAIN objects
      BY <1>1, <1>2, <2>1, <2>3 DEF Using, CacheInv, BodyInv, At
    <3>. QED
      BY <1>2, <3>1, <3>2 DEF CacheInv, HeaderInv, Using, At, Res
  <2>4. At(r, "responded")' /\ Res(r)'.headers = {}
    BY <1>1, <1>2 DEF At, Res
  <2>. QED
    BY <2>2, <2>3, <2>4, <1>1, <1>2 DEF HeaderInv, At
<1>. QED
  BY <1>3, <1>4, <1>5 DEF CacheInv

(* What is left to check of an action of request r that leaves the bodies of objects alone,  *)
(* and their headers but in r's own.                                                         *)
Moves(r, u) ==
    /\ users' = [users EXCEPT ![r] = u]
    /\ u.rules = users[r].rules /\ u.res = users[r].res
    /\ UNCHANGED <<processed, shared>>
    /\ DOMAIN objects \subseteq DOMAIN objects'
    /\ \A o \in DOMAIN objects \ {u.res} : objects'[o] = objects[o]
    /\ \A o \in DOMAIN objects' \ DOMAIN objects : objects'[o].body = "whole"

LEMMA MovesStep ==
    ASSUME CacheInv, NEW r \in Users, NEW u, Moves(r, u), CacheTypeOK',
           Using(r), spoiled \subseteq spoiled',
           objects'[u.res].body = "taken" => u.res \in spoiled',
           processed /\ u.step \in {"fetched", "configured"} => u.got = "whole",
           u.step = "stuck" => u.res \in spoiled',
           u.step = "sent" => u.got = "whole" \/ u.res \in spoiled',
           u.step # "new",
           r \notin shared =>
               /\ u.step \in {"responded", "fetched"} => objects'[u.res].headers = {}
               /\ u.step = "configured" => objects'[u.res].headers = OwnHeaders(r)
               /\ u.step = "sent" => u.headers = OwnHeaders(r)
    PROVE  CacheInv'
<1>1. /\ users'[r] = u /\ \A q \in Users \ {r} : users'[q] = users[q]
      /\ u.res \in DOMAIN objects /\ UNCHANGED <<processed, shared>>
  BY DEF Moves, CacheInv, CacheTypeOK, BodyInv, Using, At
<1>2. BodyInv'
  BY <1>1 DEF Moves, CacheInv, BodyInv, At
<1>3. \A p, q \in Users : p # q /\ Using(p)' /\ Using(q)' /\ users'[p].res = users'[q].res => q \in shared'
  BY <1>1 DEF Moves, CacheInv, HeaderInv, Using
<1>4. ASSUME NEW q \in Users \ shared'
      PROVE  /\ At(q, "responded")' \/ At(q, "fetched")' => Res(q)'.headers = {}
             /\ At(q, "configured")' => Res(q)'.headers = OwnHeaders(q)'
             /\ At(q, "sent")' => users'[q].headers = OwnHeaders(q)'
  <2>1. CASE q = r
    BY <1>1, <2>1 DEF Moves, At, Res, OwnHeaders
  <2>2. CASE q # r
    <3>1. q \notin shared /\ users'[q] = users[q] /\ OwnHeaders(q)' = OwnHeaders(q)
      BY <1>1, <2>2 DEF OwnHeaders
    <3>2. Using(q) => users[q].res # u.res /\ users[q].res \in DOMAIN objects
      BY <1>1, <2>2, <3>1 DEF Using, CacheInv, BodyInv, HeaderInv, At, Moves
    <3>. QED
      BY <3>1, <3>2 DEF CacheInv, HeaderInv, Using, At, Res, Moves
  <2>. QED
    BY <2>1, <2>2
<1>. QED
  BY <1>2, <1>3, <1>4 DEF CacheInv, HeaderInv

LEMMA MissStep ==
    ASSUME CacheInv, NEW r \in Users, NEW rules \in Rules, Miss(r, rules)
    PROVE  CacheInv'
<1> DEFINE u == [NewUser EXCEPT !.rules = rules, !.step = "responded", !.res = Len(objects) + 1]
<1> DEFINE new == [body |-> "whole", headers |-> {}, stream |-> TRUE]
<1>1. /\ u.rules = rules /\ u.step = "responded" /\ u.res = Len(objects) + 1 /\ u.got = "nothing"
      /\ u.headers = {} /\ users[r].step = "new"
      /\ users' = [users EXCEPT ![r] = u] /\ objects' = Append(objects, new)
      /\ UNCHANGED <<processed, entry, spoiled, shared>>
  BY DEF Miss, NewUser, IsNext, At
<1>2. /\ objects' \in Seq(Objects) /\ Len(objects) \in Nat
      /\ DOMAIN objects = 1..Len(objects) /\ DOMAIN objects' = 1..Len(objects) + 1
      /\ objects'[u.res] = new /\ \A o \in DOMAIN objects : objects'[o] = objects[o]
  <2>1. new \in Objects
    BY DEF Objects
  <2>. QED
    BY <1>1, <2>1, AppendProperties DEF CacheInv, CacheTypeOK
<1>3. users'[r] = u /\ \A q \in Users \ {r} : users'[q] = users[q]
  BY <1>1 DEF CacheInv, CacheTypeOK
<1> HIDE DEF u
<1>4. CacheTypeOK'
  <2>1. u \in UserRecords'
    <3>1. Len(objects) + 1 \in DOMAIN objects'
      BY <1>2
    <3>. QED
      BY <3>1 DEF NewUser, u, UserRecords
  <2>. QED
    BY <1>1, <1>2, <1>3, <2>1 DEF CacheInv, CacheTypeOK, UserRecords
<1>5. BodyInv'
  BY <1>1, <1>2, <1>3 DEF CacheInv, BodyInv, At
<1>6. HeaderInv'
  <2>1. \A q \in Users \ {r} : Using(q)' => Using(q) /\ users'[q].res \in DOMAIN objects
    BY <1>3 DEF Using, CacheInv, BodyInv, At
  <2>2. \A p, q \in Users : p # q /\ Using(p)' /\ Using(q)' /\ users'[p].res = users'[q].res => q \in shared'
    BY <1>1, <1>2, <1>3, <2>1 DEF CacheInv, HeaderInv
  <2>3. ASSUME NEW q \in Users \ shared', q # r
        PROVE  /\ At(q, "responded")' \/ At(q, "fetched")' => Res(q)'.headers = {}
               /\ At(q, "configured")' => Res(q)'.headers = OwnHeaders(q)'
               /\ At(q, "sent")' => users'[q].headers = OwnHeaders(q)'
    <3>1. q \notin shared /\ users'[q] = users[q] /\ OwnHeaders(q)' = OwnHeaders(q)
      BY <1>1, <1>3, <2>3 DEF OwnHeaders
    <3>. QED
      BY <1>2, <2>1, <2>3, <3>1 DEF CacheInv, HeaderInv, Using, At, Res
  <2>4. At(r, "responded")' /\ Res(r)'.headers = {}
    BY <1>1, <1>2, <1>3 DEF At, Res
  <2>. QED
    BY <2>2, <2>3, <2>4, <1>1, <1>3 DEF HeaderInv, At
<1>. QED
  BY <1>4, <1>5, <1>6 DEF CacheInv

LEMMA ExpireStep ==
    ASSUME CacheInv, Expire
    PROVE  CacheInv'
BY DEF CacheInv, CacheTypeOK, BodyInv, HeaderInv, Expire, Using, At, Res, OwnHeaders

(* A request that uses an object has one, and records of it have their types. *)
LEMMA UserLemma ==
    ASSUME CacheInv, NEW r \in Users, users[r].step # "new"
    PROVE  /\ users[r].res \in DOMAIN objects /\ Res(r) \in Objects /\ DOMAIN users = Users
           /\ users[r] \in UserRecords
BY DEF CacheInv, CacheTypeOK, BodyInv, At, Res, UserRecords

(* The types after a step of r that only adds objects. *)
LEMMA MovesType ==
    ASSUME CacheInv, NEW r \in Users, NEW u, Moves(r, u),
           users[r].step # "new",
           u \in UserRecords,
           objects' \in Seq(Objects), entry' \in {NoEntry} \cup DOMAIN objects',
           spoiled' \subseteq DOMAIN objects
    PROVE  CacheTypeOK'
BY DEF CacheInv, CacheTypeOK, Moves, UserRecords

LEMMA FetchContentStep ==
    ASSUME CacheInv, NEW r \in Users, FetchContent(r)
    PROVE  CacheInv'
<1> DEFINE u == [users[r] EXCEPT !.step = "fetched", !.got = "whole"]
<1>1. /\ users[r].step = "responded" /\ Res(r).body = "whole" /\ AddEntry(r)
      /\ UNCHANGED <<processed, spoiled, shared>>
  BY DEF FetchContent, At
<1>2. /\ users[r].res \in DOMAIN objects /\ DOMAIN users = Users
      /\ users[r] \in UserRecords
  BY <1>1, UserLemma
<1>3. users' = [users EXCEPT ![r] = u]
  BY <1>2 DEF FetchContent
<1>4. /\ u.rules = users[r].rules /\ u.res = users[r].res /\ u.step = "fetched" /\ u.got = "whole"
      /\ u \in UserRecords
  BY <1>2 DEF UserRecords
<1> HIDE DEF u
<1>5. /\ objects' \in Seq(Objects) /\ entry' \in {NoEntry} \cup DOMAIN objects'
      /\ DOMAIN objects \subseteq DOMAIN objects'
      /\ \A o \in DOMAIN objects : objects'[o] = objects[o]
      /\ \A o \in DOMAIN objects' \ DOMAIN objects : objects'[o].body = "whole"
  BY <1>1, <1>2, AddEntryLemma DEF CacheInv
<1>6. Moves(r, u)
  BY <1>1, <1>3, <1>4, <1>5 DEF Moves
<1>7. CacheTypeOK'
  BY <1>1, <1>4, <1>5, <1>6, MovesType DEF CacheInv, CacheTypeOK
<1>8. r \notin shared => objects'[u.res].headers = {}
  BY <1>1, <1>2, <1>4, <1>5 DEF CacheInv, HeaderInv, At, Res
<1>. QED
  BY <1>1, <1>2, <1>4, <1>5, <1>6, <1>7, <1>8, MovesStep DEF Using, Res

LEMMA ConfigureResponseStep ==
    ASSUME CacheInv, NEW r \in Users, ConfigureResponse(r)
    PROVE  CacheInv'
<1> DEFINE u == [users[r] EXCEPT !.step = "configured"]
<1> DEFINE o == users[r].res
<1>1. /\ users[r].step = (IF processed THEN "fetched" ELSE "responded")
      /\ UNCHANGED <<processed, entry, spoiled, shared>>
      /\ objects' = IF users[r].rules.header THEN [objects EXCEPT ![o].headers = @ \cup {r}] ELSE objects
  BY DEF ConfigureResponse, At
<1>2. /\ o \in DOMAIN objects /\ Res(r) \in Objects /\ DOMAIN users = Users
      /\ users[r] \in UserRecords
  BY <1>1, UserLemma
<1>3. users' = [users EXCEPT ![r] = u]
  BY <1>2 DEF ConfigureResponse, Becomes
<1>4. /\ u.rules = users[r].rules /\ u.res = o /\ u.step = "configured" /\ u.got = users[r].got
      /\ u \in UserRecords
  BY <1>2 DEF UserRecords
<1> HIDE DEF u
<1>5. /\ objects' \in Seq(Objects) /\ DOMAIN objects' = DOMAIN objects
      /\ \A p \in DOMAIN objects \ {o} : objects'[p] = objects[p]
      /\ objects'[o].body = objects[o].body
      /\ objects'[o].headers = objects[o].headers \cup OwnHeaders(r)
  <2>1. [objects[o] EXCEPT !.headers = @ \cup {r}] \in Objects
    BY <1>2 DEF Objects, Res
  <2>2. objects \in Seq(Objects) /\ DOMAIN objects = 1..Len(objects) /\ objects[o] \in Objects
    BY <1>2 DEF CacheInv, CacheTypeOK, Res
  <2>3. CASE users[r].rules.header
    BY <1>1, <1>2, <2>1, <2>2, <2>3 DEF Objects, OwnHeaders
  <2>4. CASE ~users[r].rules.header
    BY <1>1, <2>2, <2>4 DEF OwnHeaders
  <2>. QED
    BY <2>3, <2>4
<1>6. Moves(r, u)
  BY <1>1, <1>3, <1>4, <1>5 DEF Moves
<1>7. CacheTypeOK'
  BY <1>1, <1>4, <1>5, <1>6, MovesType DEF CacheInv, CacheTypeOK, UserRecords
<1>8. r \notin shared => objects'[u.res].headers = OwnHeaders(r)
  BY <1>1, <1>2, <1>4, <1>5 DEF CacheInv, HeaderInv, At, Res
<1>9. objects'[u.res].body = "taken" => u.res \in spoiled'
  BY <1>1, <1>2, <1>4, <1>5 DEF CacheInv, BodyInv
<1>10. processed => u.got = "whole"
  BY <1>1, <1>4 DEF CacheInv, BodyInv, At
<1>. QED
  BY <1>1, <1>2, <1>4, <1>5, <1>6, <1>7, <1>8, <1>9, <1>10, MovesStep DEF Using

(* A request that is configured is answered, with the headers of its object. *)
LEMMA AnsweredStep ==
    ASSUME CacheInv, NEW r \in Users, NEW got \in {"nothing", "empty", "whole"}, Answered(r, got),
           users[r].step = "configured", UNCHANGED <<processed, shared>>,
           objects' \in Seq(Objects), entry' \in {NoEntry} \cup DOMAIN objects',
           DOMAIN objects \subseteq DOMAIN objects',
           \A o \in DOMAIN objects \ {users[r].res} : objects'[o] = objects[o],
           \A o \in DOMAIN objects' \ DOMAIN objects : objects'[o].body = "whole",
           spoiled \subseteq spoiled', spoiled' \subseteq DOMAIN objects,
           objects'[users[r].res].body = "taken" => users[r].res \in spoiled',
           got = "whole" \/ users[r].res \in spoiled'
    PROVE  CacheInv'
<1> DEFINE u == [users[r] EXCEPT !.step = "sent", !.got = got, !.headers = Res(r).headers]
<1>1. /\ users[r].res \in DOMAIN objects /\ Res(r) \in Objects /\ DOMAIN users = Users
      /\ users[r] \in UserRecords
  BY UserLemma
<1>2. users' = [users EXCEPT ![r] = u]
  BY <1>1 DEF Answered
<1>3. /\ u.rules = users[r].rules /\ u.res = users[r].res /\ u.step = "sent" /\ u.got = got
      /\ u.headers = Res(r).headers /\ u \in UserRecords
  BY <1>1 DEF UserRecords, Objects
<1> HIDE DEF u
<1>4. Moves(r, u)
  BY <1>2, <1>3 DEF Moves
<1>5. CacheTypeOK'
  BY <1>3, <1>4, MovesType DEF UserRecords
<1>6. r \notin shared => u.headers = OwnHeaders(r)
  BY <1>3 DEF CacheInv, HeaderInv, At
<1>. QED
  BY <1>3, <1>4, <1>5, <1>6, MovesStep DEF Using

LEMMA SendProxyResponseStep ==
    ASSUME CacheInv, NEW r \in Users, SendProxyResponse(r)
    PROVE  CacheInv'
<1>1. /\ users[r].step = "configured" /\ users[r].got = "whole"
      /\ Answered(r, users[r].got) /\ UNCHANGED <<processed, objects, entry, spoiled, shared>>
  BY DEF SendProxyResponse, CacheInv, BodyInv, At
<1>2. objects[users[r].res].body = "taken" => users[r].res \in spoiled
  BY <1>1, UserLemma DEF CacheInv, BodyInv
<1>. QED
  BY <1>1, <1>2, AnsweredStep DEF CacheInv, CacheTypeOK

LEMMA PipeNonProcessedResponseStep ==
    ASSUME CacheInv, NEW r \in Users, PipeNonProcessedResponse(r)
    PROVE  CacheInv'
<1>1. /\ users[r].step = "configured" /\ Res(r).body = "whole" /\ AddEntry(r)
      /\ Answered(r, "whole") /\ UNCHANGED <<processed, spoiled, shared>>
  BY DEF PipeNonProcessedResponse, At
<1>2. users[r].res \in DOMAIN objects
  BY <1>1, UserLemma
<1>3. /\ objects' \in Seq(Objects) /\ entry' \in {NoEntry} \cup DOMAIN objects'
      /\ DOMAIN objects \subseteq DOMAIN objects'
      /\ \A o \in DOMAIN objects : objects'[o] = objects[o]
      /\ \A o \in DOMAIN objects' \ DOMAIN objects : objects'[o].body = "whole"
  BY <1>1, <1>2, AddEntryLemma DEF CacheInv
<1>. QED
  BY <1>1, <1>2, <1>3, AnsweredStep DEF CacheInv, CacheTypeOK, Res

LEMMA PipeForRuleStep ==
    ASSUME CacheInv, NEW r \in Users, PipeForRule(r)
    PROVE  CacheInv'
<1> DEFINE o == users[r].res
<1>1. /\ users[r].step = "configured" /\ Answered(r, "whole")
      /\ objects' = [objects EXCEPT ![o].body = "taken"] /\ spoiled' = spoiled \cup {o}
      /\ UNCHANGED <<processed, entry, shared>>
  BY DEF PipeForRule, At
<1>2. o \in DOMAIN objects /\ Res(r) \in Objects
  BY <1>1, UserLemma
<1>3. /\ objects' \in Seq(Objects) /\ DOMAIN objects' = DOMAIN objects
      /\ \A p \in DOMAIN objects \ {o} : objects'[p] = objects[p]
  <2>1. [objects[o] EXCEPT !.body = "taken"] \in Objects
    BY <1>2 DEF Objects, Res
  <2>. QED
    BY <1>1, <1>2, <2>1 DEF CacheInv, CacheTypeOK
<1>. QED
  BY <1>1, <1>2, <1>3, AnsweredStep DEF CacheInv, CacheTypeOK

LEMMA PipeOfNothingStep ==
    ASSUME CacheInv, NEW r \in Users, PipeOfNothing(r)
    PROVE  CacheInv'
<1>1. /\ users[r].step = "configured" /\ Res(r).body = "taken" /\ ~processed
      /\ UNCHANGED <<processed, objects, entry, spoiled, shared>>
  BY DEF PipeOfNothing, At
<1>2. /\ users[r].res \in DOMAIN objects /\ DOMAIN users = Users /\ users[r] \in UserRecords
  BY <1>1, UserLemma
<1>3. users[r].res \in spoiled
  BY <1>1, <1>2 DEF CacheInv, BodyInv, Res
<1>4. CASE Answered(r, "empty")
  BY <1>1, <1>2, <1>3, <1>4, AnsweredStep DEF CacheInv, CacheTypeOK
<1>5. CASE Becomes(r, "stuck")
  <2> DEFINE u == [users[r] EXCEPT !.step = "stuck"]
  <2>1. /\ users' = [users EXCEPT ![r] = u] /\ u.rules = users[r].rules /\ u.res = users[r].res
        /\ u.step = "stuck" /\ u \in UserRecords
    BY <1>2, <1>5 DEF Becomes, UserRecords
  <2> HIDE DEF u
  <2>2. Moves(r, u)
    BY <1>1, <2>1 DEF Moves
  <2>3. CacheTypeOK'
    BY <1>1, <2>1, <2>2, MovesType DEF CacheInv, CacheTypeOK, UserRecords
  <2>. QED
    BY <1>1, <1>3, <2>1, <2>2, <2>3, MovesStep DEF Using
<1>. QED
  BY <1>4, <1>5 DEF PipeOfNothing

(* The invariant is inductive: one step per action. *)
LEMMA CacheStep == CacheInv /\ [CacheNext]_cacheVars => CacheInv'
<1> SUFFICES ASSUME CacheInv, [CacheNext]_cacheVars PROVE CacheInv'
  OBVIOUS
<1>1. CASE Expire
  BY <1>1, ExpireStep
<1>2. ASSUME NEW r \in Users, NEW rules \in Rules, Hit(r, rules) \/ Miss(r, rules)
      PROVE  CacheInv'
  BY <1>2, HitStep, MissStep
<1>3. ASSUME NEW r \in Users, FetchContent(r) \/ ConfigureResponse(r) \/ SendProxyResponse(r)
      PROVE  CacheInv'
  BY <1>3, FetchContentStep, ConfigureResponseStep, SendProxyResponseStep
<1>4. ASSUME NEW r \in Users,
             PipeNonProcessedResponse(r) \/ PipeForRule(r) \/ PipeOfNothing(r)
      PROVE  CacheInv'
  BY <1>4, PipeNonProcessedResponseStep, PipeForRuleStep, PipeOfNothingStep
<1>5. CASE UNCHANGED cacheVars
  BY <1>5 DEF cacheVars, CacheInv, CacheTypeOK, BodyInv, HeaderInv, Using, At, Res, OwnHeaders
<1>. QED
  BY <1>1, <1>2, <1>3, <1>4, <1>5 DEF CacheNext

LEMMA CacheInvariance == CacheSpec => []CacheInv
<1>1. CacheInit => CacheInv
  BY CacheInitial
<1>2. CacheInv /\ [CacheNext]_cacheVars => CacheInv'
  BY CacheStep
<1>. QED
  BY <1>1, <1>2, PTL DEF CacheSpec

(* The variables of the cache have their types. *)
THEOREM CacheTypeCorrect == CacheSpec => []CacheTypeOK
<1>1. CacheInv => CacheTypeOK
  BY DEF CacheInv
<1>. QED
  BY <1>1, CacheInvariance, PTL

(* A request that shares a cached response gets the whole body, unless an earlier hit of the *)
(* entry was piped for a rule, and the headers of its own rules, unless another request used *)
(* the entry at the time (request-pipeline/cache.ts:58-80).                                  *)
THEOREM CachedAnswersWhole == CacheSpec => []CachedAnswersAreWhole
<1>1. CacheInv => CachedAnswersAreWhole
  BY DEF CacheInv, BodyInv, HeaderInv, CachedAnswersAreWhole, OwnHeaders
<1>. QED
  BY <1>1, CacheInvariance, PTL

=============================================================================
