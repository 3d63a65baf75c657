--------------------------- MODULE RequestPipeline ---------------------------
(***************************************************************************)
(* One browser request travelling through the stages of                    *)
(* src/request-pipeline/stages.ts, together with the request hooks that    *)
(* user code registers, the destination server that answers and the        *)
(* browser that may go away.                                               *)
(*                                                                         *)
(* Every `await` of the pipeline is a value of `stage`: the pipeline is    *)
(* suspended there and listeners, destination events and the browser may   *)
(* interleave.  Code between two awaits is one action.                     *)
(***************************************************************************)
EXTENDS Naturals, FiniteSets, Sequences

CONSTANTS
    Rules,      \* ids of the request filter rules that user code registers
    Kinds       \* the kinds of request explored, a subset of AllKinds

(* "page" is a request of a top level HTML page, "asset" any other resource (iframes     *)
(* included), "blank" an about: page that never reaches a destination.                   *)
AllKinds == {"page", "asset", "ajax", "webSocket", "blank"}

ASSUME KindsAssumption == Kinds \subseteq AllKinds

(* How buildContentInfo classifies the answer.  requireProcessing excludes ajax,         *)
(* redirects and not modified answers; only a regular request can be answered 304.       *)
Answers == {"process", "pipe", "redirect", "notModified"}

Natures ==
    {n \in [kind : Kinds, answer : Answers, sameOriginOk : BOOLEAN] :
        /\ n.kind \in {"ajax", "webSocket"} => n.answer # "process"
        /\ n.kind \in {"webSocket", "blank"} => n.answer # "notModified"
        /\ n.kind = "blank" => n.answer # "redirect"
        /\ ~n.sameOriginOk => n.kind = "ajax" /\ n.answer # "notModified"}

HookEvents == {"onRequest", "onConfigureResponse", "onResponse"}

(* Stages in which the pipeline awaits Promise.all over hook callbacks. *)
HookStages == {"onRequest", "sopConfigure", "sopResponse", "configurePiped",
               "respondAll", "respondWithBody", "respondWithoutBody",
               "configureProcessed", "respondProcessed"}

Stages == HookStages \cup
          {"reqBody", "matchRules", "mockBody", "destination", "fetch", "process",
           "collect", "piping", "pipingAfterHooks", "tunnel", "done", "rejected"}

VARIABLES
    stage,        \* the await the pipeline is suspended in
    nature,       \* what the request and its answer are
    listeners,    \* rules registered in the session's requestEventListeners
    rules,        \* ctx.requestFilterRules (the candidates while they are being matched)
    running,      \* hook callbacks in flight: rules, or positions in eventData
    invoked,      \* rules whose user callback was really called in this hook stage
    mocked,       \* ctx.mock is set
    eventData,    \* ctx.onResponseEventData, in completion order
    calls,        \* how often each user callback was called
    goToNext,     \* ctx.goToNextStage
    dest,         \* the destination response
    browser,      \* the proxy's response to the browser
    wsReset,      \* ctx.isWebSocketConnectionReset
    crashed,      \* an exception left the pipeline (the promise of run is never handled)
    touched       \* history: rules registered or removed while the request was in flight

requestVars == <<nature, rules, mocked>>
hookVars    == <<running, invoked, eventData, calls>>
envVars     == <<listeners, touched>>
endVars     == <<goToNext, dest, browser, wsReset, crashed>>
vars        == <<stage, requestVars, hookVars, envVars, endVars>>

(* head is what kind of status line was written to the browser, if any.                  *)
Browser == [head : {"none", "response", "error"}, ended : BOOLEAN, closed : BOOLEAN]

(* "complete" is a body that ended, "died" one whose connection was lost without an      *)
(* event that is heeded, "local" a mock or an about: page.                               *)
DestStates == {"none", "pending", "responding", "complete", "local", "failed", "died", "destroyed"}

TypeOK ==
    /\ stage \in Stages
    /\ nature \in Natures
    /\ listeners \subseteq Rules /\ rules \subseteq Rules /\ touched \subseteq Rules
    /\ running \subseteq Rules \cup 1..Len(eventData)
    /\ invoked \subseteq Rules
    /\ eventData \in Seq([rule : Rules, includeBody : BOOLEAN])
    /\ calls \in [HookEvents -> [Rules -> Nat]]
    /\ browser \in Browser
    /\ dest \in DestStates
    /\ mocked \in BOOLEAN /\ goToNext \in BOOLEAN /\ wsReset \in BOOLEAN /\ crashed \in BOOLEAN

Init ==
    /\ stage = "reqBody"
    /\ nature \in Natures
    /\ listeners \in SUBSET Rules
    /\ rules = {} /\ running = {} /\ invoked = {} /\ eventData = <<>>
    /\ mocked = FALSE
    /\ calls = [e \in HookEvents |-> [r \in Rules |-> 0]]
    /\ goToNext = TRUE
    /\ dest = "none"
    /\ browser = [head |-> "none", ended |-> FALSE, closed |-> FALSE]
    /\ wsReset = FALSE /\ crashed = FALSE
    /\ touched = {}

-----------------------------------------------------------------------------
(* Request hooks *)

(* Promise.all(requestFilterRules.map(...)): every registered callback is called at once,  *)
(* a rule without a listener resolves without a call.                                      *)
CallRuleHooks(event, matched) ==
    /\ running' = matched
    /\ invoked' = matched \cap listeners
    /\ calls' = [calls EXCEPT ![event] =
                    [r \in Rules |-> @[r] + IF r \in matched \cap listeners THEN 1 ELSE 0]]
    /\ UNCHANGED eventData

(* Mutated form: entries that did not ask for the body are skipped. *)
CallBodyHooksOnly(entries) ==
    LET asking == {i \in entries : eventData[i].includeBody} IN
    /\ running' = asking
    /\ invoked' = {eventData[i].rule : i \in asking} \cap listeners
    /\ calls' = [calls EXCEPT !["onResponse"] =
                    [r \in Rules |-> @[r] + IF r \in invoked' THEN 1 ELSE 0]]
    /\ UNCHANGED eventData

(* Mutated form: an entry is looked up one place too far. *)
CallHooksOffByOne(entries) ==
    /\ running' = {i + 1 : i \in entries}
    /\ invoked' = {eventData[i].rule : i \in entries} \cap listeners
    /\ UNCHANGED <<calls, eventData>>

(* The same over entries of onResponseEventData: a rule may own several entries.           *)
CallResponseHooks(entries) ==
    /\ running' = entries
    /\ invoked' = {eventData[i].rule : i \in entries} \cap listeners
    /\ calls' = [calls EXCEPT !["onResponse"] =
                    [r \in Rules |->
                        @[r] + IF r \in listeners
                               THEN Cardinality({i \in entries : eventData[i].rule = r})
                               ELSE 0]]
    /\ UNCHANGED eventData

EntriesWithBody(wanted) == {i \in DOMAIN eventData : eventData[i].includeBody = wanted}

(* Only microtasks separate the last callback of a hook stage from its continuation, so    *)
(* no timer, socket or user action gets in between.                                        *)
MicrotasksDrained == ~(stage \in HookStages /\ running = {})

-----------------------------------------------------------------------------
(* Answering the browser *)

(* Mutated form: the error text is written, the response is not ended. *)
ErrorTextOnly ==
    [browser EXCEPT !.head = IF @ = "none" /\ nature.kind # "webSocket" THEN "error" ELSE @]

(* closeWithError: the error text is written only while no head has been sent.             *)
ClosedWithError ==
    [browser EXCEPT !.head = IF @ = "none" /\ nature.kind # "webSocket" THEN "error" ELSE @,
                    !.ended = TRUE]

(* Mutated form: the stages go on after an error has been answered. *)
AnswerAndGoOn ==
    /\ browser' = IF nature.kind = "ajax" THEN [browser EXCEPT !.closed = TRUE] ELSE ClosedWithError
    /\ UNCHANGED goToNext

(* error(): pages go to the session's handlePageError, which answers through               *)
(* closeWithError; ajax requests have their connection destroyed.                          *)
AnswerWithError ==
    IF nature.kind = "ajax"
    THEN browser' = [browser EXCEPT !.closed = TRUE] /\ UNCHANGED goToNext
    ELSE browser' = ClosedWithError /\ goToNext' = FALSE

(* A response that arrives for a WebSocket whose browser side was reset is destroyed.      *)
(* The first definition is a mutated form: the flag is not consulted.                      *)
NoReset == FALSE
ResponseIsUnwanted == wsReset

(* isDestResReadableEnded: set by the end of the body, and at once for an answer without a  *)
(* body and for a redirect, although a redirect may have one.  A mock is not looked at.     *)
ReadableEnded == dest = "complete" \/ (dest = "responding" /\ nature.answer = "redirect")

(* A plain pipe is not started for a browser that went away while the answer was awaited.  *)
(* The first definition is a mutated form: the socket is not checked.                      *)
StillListening == FALSE
ClientGone == browser.closed /\ ~ReadableEnded

(* sendResponseHeaders: writeHead throws when a head has been sent already.                *)
HeadersRefused == browser.head # "none"

Settled == browser.ended \/ browser.closed

-----------------------------------------------------------------------------
(* Stage 5, decideOnProcessingStrategy, entered with no await after stage 4. *)

DecideOnProcessingStrategy ==
    \/ /\ nature.kind = "webSocket"
       /\ goToNext' = FALSE
       /\ browser' = [browser EXCEPT !.head = "response"]
       \* a mock has no socket to tunnel to
       /\ IF mocked THEN stage' = "rejected" /\ crashed' = TRUE
                    ELSE stage' = "tunnel" /\ UNCHANGED crashed
       /\ UNCHANGED <<hookVars, wsReset>>
    \/ /\ nature.answer = "process"
       /\ goToNext' = TRUE
       /\ stage' = "fetch"
       /\ UNCHANGED <<hookVars, browser, wsReset, crashed>>
    \/ /\ nature.kind = "blank" /\ nature.answer = "pipe"
       /\ goToNext' = FALSE
       /\ browser' = [browser EXCEPT !.head = "response", !.ended = TRUE]
       /\ stage' = "done"
       /\ UNCHANGED <<hookVars, wsReset, crashed>>
    \/ /\ nature.kind \in {"page", "asset", "ajax"} /\ nature.answer # "process"
       /\ goToNext' = FALSE
       /\ stage' = "configurePiped"
       /\ CallRuleHooks("onConfigureResponse", rules)
       /\ UNCHANGED <<browser, wsReset, crashed>>

(* Mutated form: the hooks of a refused answer run for every answer. *)
RefusalAlwaysReported ==
    /\ goToNext' = TRUE
    /\ stage' = "sopConfigure"
    /\ CallRuleHooks("onConfigureResponse", rules)
    /\ UNCHANGED <<browser, wsReset, crashed>>

(* Stage 4, checkSameOriginPolicyCompliance, falls through to stage 5 when it passes. *)
CheckSameOriginPolicyCompliance ==
    \/ /\ nature.sameOriginOk
       /\ DecideOnProcessingStrategy
    \/ /\ ~nature.sameOriginOk
       /\ goToNext' = TRUE
       /\ stage' = "sopConfigure"
       /\ CallRuleHooks("onConfigureResponse", rules)
       /\ UNCHANGED <<browser, wsReset, crashed>>

-----------------------------------------------------------------------------
(* Stages 1-3: the request body, the request hooks, the destination request *)

(* fetchProxyRequestBody finished.  A special page is answered locally; otherwise the      *)
(* listeners of this instant are the candidates whose async predicates run.                *)
ReqBodyFetched ==
    /\ stage = "reqBody" /\ ~browser.closed
    /\ IF nature.kind = "blank"
       THEN /\ dest' = "local"
            /\ CheckSameOriginPolicyCompliance
            /\ UNCHANGED <<requestVars, envVars>>
       ELSE /\ stage' = "matchRules"
            /\ rules' = listeners
            /\ UNCHANGED <<nature, mocked, hookVars, envVars, endVars>>

(* The request socket broke while its body was read: fetchBody rejects. *)
ReqBodyFailed ==
    /\ stage = "reqBody" /\ browser.closed
    /\ stage' = "rejected"
    /\ crashed' = TRUE
    /\ UNCHANGED <<requestVars, hookVars, envVars, goToNext, dest, browser, wsReset>>

(* getRequestFilterRules resolved with the rules whose filters match. *)
RulesMatched(matched) ==
    /\ stage = "matchRules"
    /\ matched \subseteq rules
    /\ rules' = matched
    /\ stage' = "onRequest"
    /\ CallRuleHooks("onRequest", matched)
    /\ UNCHANGED <<nature, mocked, envVars, endVars>>

(* An onRequest callback finished; it may have called event.setMock. *)
OnRequestDone(r, setsMock) ==
    /\ stage = "onRequest" /\ r \in running
    /\ setsMock => r \in invoked
    /\ mocked' = (mocked \/ setsMock)
    /\ running' = running \ {r}
    /\ UNCHANGED <<stage, nature, rules, invoked, eventData, calls, envVars, endVars>>

SendDestinationRequest ==
    /\ stage = "onRequest" /\ running = {}
    /\ IF mocked
       THEN stage' = "mockBody" /\ UNCHANGED <<goToNext, dest>>
       ELSE stage' = "destination" /\ dest' = "pending" /\ goToNext' = FALSE
    /\ UNCHANGED <<requestVars, hookVars, envVars, browser, wsReset, crashed>>

(* mockResponse: getMockResponse resolved (an error of the mock body is answered as 500). *)
MockResponded ==
    /\ stage = "mockBody"
    /\ dest' = "local"
    /\ CheckSameOriginPolicyCompliance
    /\ UNCHANGED <<requestVars, envVars>>

DestResponse ==
    /\ stage = "destination"
    /\ IF ResponseIsUnwanted
       THEN /\ dest' = "destroyed"
            /\ stage' = "done"
            /\ UNCHANGED <<goToNext, hookVars, browser, wsReset, crashed>>
       ELSE /\ dest' = IF nature.answer = "notModified" THEN "complete" ELSE "responding"
            /\ CheckSameOriginPolicyCompliance
    /\ UNCHANGED <<requestVars, envVars>>

(* The destination request emitted error or fatalError before any response. *)
DestErrorBeforeResponse ==
    /\ stage = "destination"
    /\ dest' = "failed"
    /\ AnswerWithError
    /\ stage' = "done"
    /\ UNCHANGED <<requestVars, hookVars, envVars, wsReset, crashed>>

DestSocketHangUp ==
    /\ stage = "destination"
    /\ dest' = "failed"
    /\ browser' = [browser EXCEPT !.closed = TRUE]
    /\ stage' = "done"
    /\ UNCHANGED <<requestVars, hookVars, envVars, goToNext, wsReset, crashed>>

(* The destination request emitted error although it had answered.  The whole body may     *)
(* already sit in the socket buffer (lost = FALSE): only a body that has been read counts  *)
(* as ended.  That of a redirect counts as read, so its error is not heeded.               *)
ErrorStillMatters == dest = "responding" /\ ~ReadableEnded

DestErrorAfterResponse(lost) ==
    /\ MicrotasksDrained
    /\ dest \in {"responding", "complete"} /\ stage # "rejected"
    /\ IF ErrorStillMatters THEN AnswerWithError ELSE UNCHANGED <<browser, goToNext>>
    \* destroying an ajax connection closes res, which a plain pipe listens to
    /\ IF stage = "piping" /\ ErrorStillMatters /\ nature.kind = "ajax"
       THEN dest' = "destroyed" /\ stage' = "done"
       ELSE /\ dest' = IF ~lost \/ dest = "complete" THEN dest
                       ELSE IF ErrorStillMatters THEN "failed" ELSE "died"
            /\ UNCHANGED stage
    /\ UNCHANGED <<requestVars, hookVars, envVars, wsReset, crashed>>

(* The destination vanishes in the middle of the body: the response stream is aborted but  *)
(* the request object emits nothing any more.                                              *)
DestDies ==
    /\ MicrotasksDrained
    /\ dest = "responding" /\ stage \notin {"tunnel", "done"}
    /\ dest' = "died"
    /\ UNCHANGED <<stage, requestVars, hookVars, envVars, goToNext, browser, wsReset, crashed>>

-----------------------------------------------------------------------------
(* Stage 4, a cross-domain answer that is refused *)

(* A configureResponse callback finished; user code chose whether it wants the body. *)
ConfigureResponseDone(r, includeBody) ==
    /\ stage \in {"sopConfigure", "configurePiped", "configureProcessed"} /\ r \in running
    /\ includeBody => r \in invoked
    /\ eventData' = Append(eventData, [rule |-> r, includeBody |-> includeBody])
    /\ running' = running \ {r}
    /\ UNCHANGED <<stage, requestVars, invoked, calls, envVars, endVars>>

SopResponseHooks ==
    /\ stage = "sopConfigure" /\ running = {}
    /\ stage' = "sopResponse"
    /\ CallResponseHooks(DOMAIN eventData)
    /\ UNCHANGED <<requestVars, envVars, endVars>>

SopDone ==
    /\ stage = "sopResponse" /\ running = {}
    /\ DecideOnProcessingStrategy
    /\ UNCHANGED <<requestVars, envVars, dest>>

(* An onResponse callback finished. *)
ResponseHookDone(i) ==
    /\ stage \in {"sopResponse", "respondAll", "respondWithBody", "respondWithoutBody",
                  "respondProcessed"}
    /\ i \in running
    /\ running' = running \ {i}
    /\ UNCHANGED <<stage, requestVars, invoked, eventData, calls, envVars, endVars>>

-----------------------------------------------------------------------------
(* Stage 5 for answers that are not processed *)

WriteToEndedResponse ==
    /\ crashed' = TRUE
    /\ stage' = "rejected"
    /\ UNCHANGED <<hookVars, goToNext, dest, browser, wsReset>>

(* The body, if any, is copied to the browser; that of a redirect as well. *)
Piped == nature.answer \in {"pipe", "redirect"}

(* After the configureResponse hooks: send the head, then choose by what the rules asked    *)
(* for.  When any rule wants the body only the rules that want it are called.               *)
PipedResponse ==
    /\ stage = "configurePiped" /\ running = {}
    /\ \/ HeadersRefused /\ WriteToEndedResponse
       \/ /\ ~HeadersRefused
          /\ browser' = [browser EXCEPT !.head = "response"]
          /\ UNCHANGED <<goToNext, wsReset, crashed>>
          /\ \/ /\ nature.answer = "notModified"
                /\ stage' = "respondAll"
                /\ CallResponseHooks(DOMAIN eventData)
                /\ UNCHANGED dest
             \/ /\ Piped /\ EntriesWithBody(TRUE) # {}
                /\ stage' = "collect"
                /\ UNCHANGED <<hookVars, dest>>
             \/ /\ Piped
                /\ EntriesWithBody(TRUE) = {} /\ EntriesWithBody(FALSE) # {}
                /\ stage' = "respondWithoutBody"
                /\ CallResponseHooks(EntriesWithBody(FALSE))
                /\ UNCHANGED dest
             \/ /\ Piped /\ eventData = <<>>
                /\ IF ClientGone
                   THEN stage' = "done" /\ dest' = "destroyed"
                   ELSE stage' = "piping" /\ UNCHANGED dest
                /\ UNCHANGED hookVars
    /\ UNCHANGED <<requestVars, envVars>>

(* The PassThrough collector holds the whole body. *)
BodyCollected ==
    /\ stage = "collect" /\ dest \in {"responding", "local"}
    /\ dest' = "complete"
    /\ stage' = "respondWithBody"
    /\ CallResponseHooks(EntriesWithBody(TRUE))
    /\ UNCHANGED <<requestVars, envVars, goToNext, browser, wsReset, crashed>>

PipedHooksDone ==
    /\ stage \in {"respondAll", "respondWithBody", "respondWithoutBody"} /\ running = {}
    /\ IF stage = "respondWithoutBody"
       THEN stage' = "pipingAfterHooks" /\ UNCHANGED browser
       ELSE stage' = "done" /\ browser' = [browser EXCEPT !.ended = TRUE]
    /\ UNCHANGED <<requestVars, hookVars, envVars, goToNext, dest, wsReset, crashed>>

(* destRes.pipe(res) delivered the last chunk; a response that closes is unpiped. *)
PipeFinished ==
    /\ stage \in {"piping", "pipingAfterHooks"} /\ dest \in {"responding", "local"}
    /\ ~browser.closed
    /\ dest' = "complete"
    /\ browser' = [browser EXCEPT !.ended = TRUE]
    /\ stage' = "done"
    /\ UNCHANGED <<requestVars, hookVars, envVars, goToNext, wsReset, crashed>>

-----------------------------------------------------------------------------
(* Stages 6-8 for answers that are processed *)

(* Mutated form: the loop runs all the stages. *)
RunNextAlways(next) == next

(* The run loop returns when a stage cleared goToNextStage. *)
RunNext(next) == IF goToNext THEN next ELSE "done"

(* fetchContent: promisifyStream resolves at 'end', or as soon as content-length bytes      *)
(* have been read, when 'end' may still be to come (endSeen = FALSE).                       *)
BodyFetched(endSeen) ==
    /\ stage = "fetch" /\ dest \in {"responding", "local"}
    /\ dest' = IF endSeen \/ dest = "local" THEN "complete" ELSE dest
    /\ stage' = RunNext("process")
    /\ UNCHANGED <<requestVars, hookVars, envVars, goToNext, browser, wsReset, crashed>>

BodyFetchFailed ==
    /\ stage = "fetch" /\ dest \in {"failed", "died"}
    /\ stage' = "rejected"
    /\ crashed' = TRUE
    /\ UNCHANGED <<requestVars, hookVars, envVars, goToNext, dest, browser, wsReset>>

(* The late 'end' of a body that was resolved by its length. *)
DestEnds ==
    /\ MicrotasksDrained
    /\ stage \in {"process", "configureProcessed", "respondProcessed", "done"}
    /\ nature.answer = "process" /\ dest = "responding"
    /\ dest' = "complete"
    /\ UNCHANGED <<stage, requestVars, hookVars, envVars, goToNext, browser, wsReset, crashed>>

Processed ==
    /\ stage = "process"
    /\ stage' = RunNext("configureProcessed")
    /\ IF stage' = "done" THEN UNCHANGED hookVars
                          ELSE CallRuleHooks("onConfigureResponse", rules)
    /\ UNCHANGED <<requestVars, envVars, endVars>>

ProcessingFailed ==
    /\ stage = "process"
    /\ AnswerWithError
    /\ stage' = "done"
    /\ UNCHANGED <<requestVars, hookVars, envVars, dest, wsReset, crashed>>

(* sendProxyResponse: the head goes first, then every onResponse callback, then the body. *)
SendProxyResponse ==
    /\ stage = "configureProcessed" /\ running = {}
    /\ \/ HeadersRefused /\ WriteToEndedResponse
       \/ /\ ~HeadersRefused
          /\ browser' = [browser EXCEPT !.head = "response"]
          /\ stage' = "respondProcessed"
          /\ CallResponseHooks(DOMAIN eventData)
          /\ UNCHANGED <<goToNext, dest, wsReset, crashed>>
    /\ UNCHANGED <<requestVars, envVars>>

SendBody ==
    /\ stage = "respondProcessed" /\ running = {}
    /\ IF browser.ended
       THEN WriteToEndedResponse
       ELSE /\ browser' = [browser EXCEPT !.ended = TRUE]
            /\ stage' = "done"
            /\ UNCHANGED <<hookVars, goToNext, dest, wsReset, crashed>>
    /\ UNCHANGED <<requestVars, envVars>>

-----------------------------------------------------------------------------
(* User code and the browser *)

AddListener(r) ==
    /\ MicrotasksDrained
    /\ r \notin listeners
    /\ listeners' = listeners \cup {r}
    /\ touched' = touched \cup {r}
    /\ UNCHANGED <<stage, requestVars, hookVars, endVars>>

RemoveListener(r) ==
    /\ MicrotasksDrained
    /\ r \in listeners
    /\ listeners' = listeners \ {r}
    /\ touched' = touched \cup {r}
    /\ UNCHANGED <<stage, requestVars, hookVars, endVars>>

(* The browser drops an HTTP request; only a plain pipe listens to the 'close' of res. *)
BrowserCloses ==
    /\ MicrotasksDrained
    /\ nature.kind # "webSocket" /\ ~browser.closed /\ ~browser.ended
    /\ browser' = [browser EXCEPT !.closed = TRUE]
    /\ IF stage = "piping" /\ ~ReadableEnded
       THEN dest' = "destroyed" /\ stage' = "done"
       ELSE UNCHANGED <<dest, stage>>
    /\ UNCHANGED <<requestVars, hookVars, envVars, goToNext, wsReset, crashed>>

(* ECONNRESET on the browser's socket of a WebSocket request, handleSocketError.  Before    *)
(* the destination has answered only a flag can be left for the response handler.           *)
WebSocketReset ==
    /\ MicrotasksDrained
    /\ nature.kind = "webSocket" /\ stage # "reqBody" /\ ~browser.closed /\ ~browser.ended
    /\ browser' = [browser EXCEPT !.closed = TRUE]
    /\ IF mocked THEN crashed' = TRUE /\ stage' = "rejected" /\ UNCHANGED <<dest, wsReset>>
       ELSE IF dest = "responding"
       THEN dest' = "destroyed" /\ stage' = "done" /\ UNCHANGED <<crashed, wsReset>>
       ELSE wsReset' = TRUE /\ UNCHANGED <<dest, stage, crashed>>
    /\ UNCHANGED <<requestVars, hookVars, envVars, goToNext>>

(* The tunnel between two sockets ends with either of them. *)
TunnelEnds ==
    /\ stage = "tunnel"
    /\ browser' = [browser EXCEPT !.ended = TRUE]
    /\ dest' = "complete"
    /\ stage' = "done"
    /\ UNCHANGED <<requestVars, hookVars, envVars, goToNext, wsReset, crashed>>

-----------------------------------------------------------------------------
Hooks ==
    \/ \E r \in Rules, b \in BOOLEAN : OnRequestDone(r, b) \/ ConfigureResponseDone(r, b)
    \/ \E i \in DOMAIN eventData : ResponseHookDone(i)

Pipeline ==
    \/ ReqBodyFetched \/ ReqBodyFailed
    \/ \E m \in SUBSET Rules : RulesMatched(m)
    \/ SendDestinationRequest \/ MockResponded
    \/ SopResponseHooks \/ SopDone
    \/ PipedResponse \/ BodyCollected \/ PipedHooksDone \/ PipeFinished
    \/ \E b \in BOOLEAN : BodyFetched(b)
    \/ BodyFetchFailed
    \/ Processed \/ ProcessingFailed \/ SendProxyResponse \/ SendBody

Destination == DestResponse \/ DestErrorBeforeResponse \/ DestSocketHangUp

Environment ==
    \/ \E r \in Rules : AddListener(r) \/ RemoveListener(r)
    \/ \E lost \in BOOLEAN : DestErrorAfterResponse(lost)
    \/ DestDies \/ DestEnds \/ BrowserCloses \/ WebSocketReset \/ TunnelEnds

Next == Hooks \/ Pipeline \/ Destination \/ Environment

Spec == Init /\ [][Next]_vars

(* Promises of hook callbacks settle, the runtime runs what is ready, and a destination     *)
(* request always ends in one of its events because it has a timeout.                       *)
FairSpec == Spec /\ WF_vars(Hooks) /\ WF_vars(Pipeline) /\ WF_vars(Destination)

-----------------------------------------------------------------------------
(* Properties *)

(* A request that passes the same-origin check has its configureResponse and response       *)
(* callbacks called at most once per rule, and only for rules that matched it when it was   *)
(* sent, whatever is registered or removed meanwhile (stages 3, 5 and 8).                   *)
ResponseHooksOncePerRule ==
    nature.sameOriginOk =>
        \A r \in Rules, e \in {"onConfigureResponse", "onResponse"} :
            /\ calls[e][r] <= 1
            /\ calls[e][r] = 1 => stage = "matchRules" \/ r \in rules

SeenByEveryRule == \A r \in rules \ touched : calls["onResponse"][r] >= 1

AnsweredInFull == stage = "done" /\ browser.head = "response" /\ browser.ended
                  /\ nature.kind \in {"page", "asset", "ajax"}

SameWishes == \A i, j \in DOMAIN eventData : eventData[i].includeBody = eventData[j].includeBody

(* When the browser has its whole answer, every rule that matched the request and was       *)
(* registered throughout has been told of the response, as long as the rules agree whether  *)
(* they want the body of a resource that is piped through.                                  *)
RulesSeeTheResponse ==
    AnsweredInFull /\ (Piped => SameWishes) => SeenByEveryRule

(* Every rule hears of the response, and once. *)
RulesHearTheResponse == ResponseHooksOncePerRule /\ RulesSeeTheResponse

(* The same without the proviso, which is what the test of several rules for one request    *)
(* expects (test/server/proxy/request-hooks-test.js, 'Several rules for one request').      *)
RulesAlwaysSeeTheResponse == AnsweredInFull => SeenByEveryRule

(* Without request hooks the pipeline never throws while it answers: an exception needs a   *)
(* destination or a browser that broke off.  (With hooks an error that arrives while they   *)
(* run makes writeHead throw.)                                                              *)
NoCrashWithoutHooks ==
    crashed => rules # {} \/ browser.closed \/ dest \in {"failed", "died"}

(* An error that was answered to the browser is final: no later stage replaces it, and no   *)
(* hook callback is told of a response the browser never got.                               *)
ErrorAnswerIsFinal ==
    [][browser.head = "error" => browser'.head = "error" /\ calls' = calls]_vars

(* A browser that went away leaves no open destination connection behind, whether it went   *)
(* before or after the destination answered: neither that of a WebSocket it reset nor       *)
(* (GH-2149) that of an answer that is piped to it while nobody hooks the request.  A       *)
(* redirect is not promised that: its body counts as read before it is, so neither          *)
(* stages.ts:107 nor the listener of stages.ts:110 destroys it.                             *)
DestinationIsFreed ==
    browser.closed /\ (\/ nature.kind = "webSocket"
                       \/ rules = {} /\ nature.answer = "pipe" /\ stage \in {"piping", "done"})
    => dest # "responding"

(* Every request is settled: answered, tunnelled or disconnected, unless the destination    *)
(* breaks off in the middle of a body or an exception left the pipeline.                    *)
EveryRequestSettles ==
    <>(Settled \/ stage = "tunnel" \/ crashed \/ dest = "died")

=============================================================================
