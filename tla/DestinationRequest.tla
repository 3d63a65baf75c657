-------------------------- MODULE DestinationRequest --------------------------
(***************************************************************************)
(* One request to a destination server (request-pipeline/                  *)
(* destination-request/index.ts): through HTTP/2 or HTTP/1, with           *)
(* credentials when the destination asks for them, and with a timeout for  *)
(* every attempt.  The request tells its listeners of responses and        *)
(* errors; the first event decides what the browser gets.                  *)
(*                                                                         *)
(* An attempt keeps its listeners and its timer when a later one has been  *)
(* sent.                                                                   *)
(***************************************************************************)
EXTENDS Integers, SequencesExt

CONSTANT MaxAttempts   \* bound on the attempts of the request

ASSUME MaxAttemptsAssumption == MaxAttempts \in Nat \ {0}

(* What opts tells of the request.  HTTP/2 is tried for https without a proxy only; WebSocket *)
(* and disableHttp2 are the requests without it.                                              *)
Options == {o \in [https : BOOLEAN, proxy : BOOLEAN, http2 : BOOLEAN,
                   credentials : BOOLEAN, cache : BOOLEAN] :
                o.http2 => o.https /\ ~o.proxy}

(* The Authorization header, and what a response asks for.  A challenge answers an NTLM      *)
(* negotiation.                                                                              *)
Headers  == {"none", "basic", "negotiate", "authenticate"}
Statuses == {"ok", "asksBasic", "asksNtlm", "challenge", "proxyAuth"}
Unauthorized == {"asksBasic", "asksNtlm", "challenge"}

(* An attempt is open until it is answered, and then answered until its body has ended.  A   *)
(* destroyed one still reports an error; a broken one lost its connection during a body.     *)
Attempts == [via : {"http1", "http2"}, waitForData : BOOLEAN, auth : Headers, asks : Statuses,
             state : {"open", "answered", "destroyed", "broken", "ended"}]

Events == {"response", "error", "fatalError", "socketHangUp"}

VARIABLES
    opts,     \* the options, fixed
    request,  \* the DestinationRequest, see InitialRequest
    disturbed \* history: an attempt had an effect after it had been answered

vars == <<opts, request, disturbed>>

(* sending holds the waitForData of the _sends that wait for a session, cached counts the    *)
(* answers from the cache to be emitted, req is the index of this.req and rejected tells     *)
(* that a _send failed with an exception.                                                    *)
NoRequest == 0
InitialRequest ==
    [attempts |-> <<>>, req |-> NoRequest, sending |-> <<>>, cached |-> 0, auth |-> "none",
     hasResponse |-> FALSE, credentialsSent |-> FALSE, aborted |-> FALSE,
     emitted |-> <<>>, rejected |-> FALSE]

Requests ==
    [attempts : Seq(Attempts), req : Nat, sending : Seq(BOOLEAN), cached : Nat, auth : Headers,
     hasResponse : BOOLEAN, credentialsSent : BOOLEAN, aborted : BOOLEAN,
     emitted : Seq(Events), rejected : BOOLEAN]

TypeOK ==
    /\ opts \in Options
    /\ request \in Requests
    /\ request.req \in {NoRequest} \cup DOMAIN request.attempts
    /\ disturbed \in BOOLEAN

-----------------------------------------------------------------------------
(* Methods.  Each takes the request and returns it after the call.                           *)

Emit(r, event) == [r EXCEPT !.emitted = Append(@, event)]

EmitOnResponse(r) == Emit([r EXCEPT !.hasResponse = TRUE], "response")

NewAttempt(r, via, waitForData) ==
    [r EXCEPT !.attempts = Append(@, [via |-> via, waitForData |-> waitForData,
                                      auth |-> r.auth, asks |-> "ok", state |-> "open"]),
              !.req = Len(r.attempts) + 1]

SendReal(r, waitForData)    == NewAttempt(r, "http1", waitForData)
SendRealThroughHttp2(r)     == NewAttempt(r, "http2", FALSE)

(* _send: from the cache if the answer is there, at once, or when there is a session. *)
Send(r, waitForData, hit) ==
    IF hit THEN [r EXCEPT !.cached = @ + 1]
    ELSE IF opts.http2 THEN [r EXCEPT !.sending = Append(@, waitForData)]
    ELSE SendReal(r, waitForData)

(* The answer is in the cache or not; who does not cache does not look. *)
Hits == IF opts.cache THEN BOOLEAN ELSE {FALSE}

(* Destroying a request that has no response yet makes HTTP/1 report an error. *)
Destroyed(a) ==
    [a EXCEPT !.state = IF @ = "open" /\ a.via = "http1" THEN "destroyed" ELSE "ended"]

(* _fatalError; the mutated form leaves the connection alone. *)
FatalErrorKeepingRequest(r) ==
    IF r.aborted THEN r ELSE Emit([r EXCEPT !.aborted = TRUE], "fatalError")
FatalError(r) ==
    IF r.aborted THEN r
    ELSE Emit([r EXCEPT !.aborted = TRUE, !.attempts[r.req] = Destroyed(@)], "fatalError")

(* _shouldResendWithCredentials: only a challenge is answered a second time.  The mutated    *)
(* form tries again and again.                                                               *)
ShouldResendAlways(r, status) == status \in Unauthorized /\ opts.credentials
ShouldResendWithCredentials(r, status) ==
    status \in Unauthorized /\ opts.credentials /\ (status = "challenge" \/ ~r.credentialsSent)

(* addCredentials; the mutated form sends back what it was asked. *)
AddCredentialsVerbatim(status) == status
AddCredentials(status) ==
    CASE status = "asksBasic" -> "basic"
      [] status = "asksNtlm"  -> "negotiate"
      [] status = "challenge" -> "authenticate"

(* _resendWithCredentials *)
ResendWithCredentials(r, status, hit) ==
    Send([r EXCEPT !.auth = AddCredentials(status), !.credentialsSent = TRUE],
         status = "asksNtlm", hit)

(* _onResponse *)
OnResponse(r, status, hit) ==
    IF ShouldResendWithCredentials(r, status) THEN ResendWithCredentials(r, status, hit)
    ELSE IF ~opts.https /\ opts.proxy /\ status = "proxyAuth" THEN FatalError(r)
    ELSE EmitOnResponse(r)

(* _onTimeout; one mutated form does not look for a response, the other tells nobody. *)
OnTimeoutAlways(r) == FatalError(r)
OnTimeoutInSilence(r) == r
OnTimeout(r) == IF r.hasResponse THEN r ELSE FatalError(r)

(* _isDNSErr: "unresolved" is told by its message, "reset" by its code. *)
IsDNSErr(r, err) == err = "unresolved" \/ (err = "reset" /\ ~r.aborted /\ ~r.hasResponse)

(* _onError.  An SSL error is an error like any other: shouldRegressHttps compares the agent *)
(* of the request with the record that holds it, and is never true.                          *)
OnError(r, err) ==
    CASE err = "hangUp"                              -> Emit(r, "socketHangUp")
      [] err = "tunnel" \/ IsDNSErr(r, err)          -> FatalError(r)
      [] OTHER                                       -> Emit(r, "error")

-----------------------------------------------------------------------------
(* Events *)

Init ==
    /\ opts \in Options
    /\ \E hit \in Hits : request = Send(InitialRequest, FALSE, hit)
    /\ disturbed = FALSE

SetState(r, i, state) == [r EXCEPT !.attempts[i].state = state]
In(i, states) == i \in DOMAIN request.attempts /\ request.attempts[i].state \in states

(* setImmediate: no timer, and no answer to what is sent now, comes before it. *)
CachedAnswer ==
    /\ request.cached > 0
    /\ request' = EmitOnResponse([request EXCEPT !.cached = @ - 1])
    /\ UNCHANGED <<opts, disturbed>>

(* getHttp2Session has been awaited.  A session that is destroyed but does not count as      *)
(* closed yet refuses the request, and nobody handles the exception.                         *)
SessionObtained ==
    \E i \in DOMAIN request.sending :
        LET waiting == [request EXCEPT !.sending = RemoveAt(@, i)] IN
        /\ \/ request' = SendRealThroughHttp2(waiting)
           \/ request' = SendReal(waiting, request.sending[i])
           \/ request' = [waiting EXCEPT !.rejected = TRUE]
        /\ UNCHANGED <<opts, disturbed>>

(* What the destination may answer to attempt i. *)
PossibleStatuses(i) ==
    {s \in Statuses :
        /\ s \in Unauthorized => Len(request.attempts) < MaxAttempts
        /\ s = "challenge" => request.attempts[i].auth \in {"negotiate", "authenticate"}}

(* Headers of a response: an attempt that waits for data looks at it at the end of its body. *)
ResponseArrives(i, status) ==
    LET answered == [SetState(request, i, "answered") EXCEPT !.attempts[i].asks = status] IN
    /\ In(i, {"open"}) /\ request.cached = 0 /\ status \in PossibleStatuses(i)
    /\ IF request.attempts[i].waitForData
       THEN request' = answered
       ELSE \E hit \in Hits : request' = OnResponse(answered, status, hit)
    /\ UNCHANGED <<opts, disturbed>>

BodyEnds(i) ==
    LET ended == SetState(request, i, "ended") IN
    /\ In(i, {"answered"})
    /\ IF request.attempts[i].waitForData
       THEN \E hit \in Hits : request' = OnResponse(ended, request.attempts[i].asks, hit)
       ELSE request' = ended
    /\ UNCHANGED <<opts, disturbed>>

(* The connection ends during the body of a response whose end is waited for: the response   *)
(* is told, but has no listener, and the timer went with the connection.                     *)
BodyBreaksOff(i) ==
    /\ In(i, {"answered"}) /\ request.attempts[i].waitForData
    /\ request' = SetState(request, i, "broken")
    /\ UNCHANGED <<opts, disturbed>>

(* An attempt that has been answered, and another is to give the response. *)
Superseded(i) ==
    /\ request.attempts[i].state = "answered" /\ ~request.attempts[i].waitForData
    /\ ~request.hasResponse

TimeoutFires(i) ==
    /\ In(i, {"open", "answered"}) /\ request.cached = 0
    /\ request' = OnTimeout(request)
    /\ disturbed' = (disturbed \/ Superseded(i))
    /\ UNCHANGED opts

(* The errors an attempt can report. *)
PossibleErrors(a) ==
    CASE a.via = "http2"          -> {"protocol", "reset", "other"}
      [] a.state = "open"         -> {"hangUp", "unresolved", "reset", "other"}
                                     \cup IF opts.https /\ opts.proxy THEN {"tunnel"} ELSE {}
      [] a.state = "answered"     -> {"reset", "other"}
      [] a.state = "destroyed"    -> {"hangUp", "other"}

AttemptFails(i, err) ==
    LET failed == SetState(request, i, "ended") IN
    /\ In(i, {"open", "answered", "destroyed"}) /\ err \in PossibleErrors(request.attempts[i])
    /\ err = "protocol" => Len(request.attempts) < MaxAttempts
    /\ request' = IF err = "protocol" THEN SendReal(failed, FALSE) ELSE OnError(failed, err)
    /\ disturbed' = (disturbed \/ Superseded(i)
                              \/ (err = "protocol" /\ request.attempts[i].state = "answered"))
    /\ UNCHANGED opts

Next ==
    \/ CachedAnswer
    \/ SessionObtained
    \/ \E i \in 1..MaxAttempts :
        \/ \E status \in Statuses : ResponseArrives(i, status)
        \/ BodyEnds(i) \/ BodyBreaksOff(i) \/ TimeoutFires(i)
        \/ \E err \in {"hangUp", "unresolved", "reset", "tunnel", "protocol", "other"} :
            AttemptFails(i, err)

Spec == Init /\ [][Next]_vars

(* Timers fire, and sessions are obtained or not; the destination may stay silent. *)
FairSpec ==
    /\ Spec
    /\ WF_vars(CachedAnswer)
    /\ WF_vars(SessionObtained)
    /\ \A i \in 1..MaxAttempts : WF_vars(TimeoutFires(i))

-----------------------------------------------------------------------------
(* Properties *)

Emitted(i, event) == i \in DOMAIN request.emitted /\ request.emitted[i] = event

(* A response is the first event: the pipeline goes on with it, and a response that came     *)
(* after an error or another response would replace what it works on.  A request that was    *)
(* given up has no connection left that an answer could come from.  An attempt that was      *)
(* answered and still has an effect does break this.                                         *)
ResponseComesFirst ==
    ~disturbed =>
        /\ \A i \in DOMAIN request.emitted : Emitted(i, "response") => i = 1
        /\ request.aborted =>
             request.sending = <<>> /\ \A i \in DOMAIN request.attempts : ~In(i, {"open"})

(* After a response nothing but an error of its connection is reported: no timer of any      *)
(* attempt ends a request that was answered.                                                 *)
AnsweredIsAnswered ==
    ~disturbed => \A i, j \in DOMAIN request.emitted :
                    i < j /\ Emitted(i, "response") => Emitted(j, "error")

AnswerIsReportedOnce == ResponseComesFirst /\ AnsweredIsAnswered

(* Credentials that were refused are not tried again: no attempt follows an answer that asks *)
(* for authorization from the beginning although it got some.                                *)
StopsAuthenticating ==
    ~disturbed => \A i, j \in DOMAIN request.attempts :
        /\ i < j /\ request.attempts[i].auth # "none"
        => request.attempts[i].asks \notin {"asksBasic", "asksNtlm"}

(* Every request ends in an event.  What does not is a _send that failed with an exception   *)
(* and an answer to an NTLM negotiation that breaks off.                                     *)
EveryRequestEnds ==
    <>(\/ request.emitted # <<>> \/ request.rejected
       \/ \E i \in DOMAIN request.attempts : In(i, {"broken"}))

===============================================================================
