------------------------------ MODULE XhrRequests ------------------------------
(***************************************************************************)
(* One XMLHttpRequest of the page and the wrappers around its methods      *)
(* (client/sandbox/xhr.ts).                                                *)
(*                                                                         *)
(* Whether credentials go with the request is part of the proxied URL, so  *)
(* it is fixed when the page calls open; when the page changes its mind    *)
(* before send, the sandbox opens the request again and sets its headers   *)
(* again.  An authorization header travels with a prefix, by which the     *)
(* proxy tells what the page set from what the browser adds.               *)
(*                                                                         *)
(* "page" is what the page asked for.  The object is used for up to        *)
(* MaxRequests requests.  A page that gives the authorization header twice *)
(* ("repeated") makes the browser join two prefixed values, of which the   *)
(* proxy cleans the first only: nothing is said of that request.           *)
(***************************************************************************)
EXTENDS Naturals, Sequences, SequencesExt

CONSTANTS MaxRequests, MaxHeaders

VARIABLES
    xhr,         \* the browser's object
    options,     \* what the sandbox remembers of the last open
    page,        \* the request the page asked for
    sent,        \* the request that left the browser
    reports,     \* what the rest of the client was told: [sending, completed, failed, synced]
    requests     \* number of send calls that reached the network

vars == <<xhr, options, page, sent, reports, requests>>

Nothing == [credentials |-> FALSE, headers |-> <<>>]
NoReports == [sending |-> 0, completed |-> 0, failed |-> 0, synced |-> 0]
HeaderNames == {"authorization", "other"}

Prefixed(header)   == [header EXCEPT !.prefixed = TRUE]
IsAuthorization(h) == h.name = "authorization"

(* The proxy drops an authorization header without the prefix and removes the prefix. *)
AtTheDestination(headers) ==
    SelectSeq([i \in DOMAIN headers |->
                  [headers[i] EXCEPT !.prefixed = @ /\ ~IsAuthorization(headers[i]),
                                     !.name = IF IsAuthorization(headers[i]) /\ ~headers[i].prefixed
                                              THEN "dropped" ELSE @]],
              LAMBDA h : h.name # "dropped")

Repeated == Len(SelectSeq(page.headers, IsAuthorization)) > 1

(* The wrapper of the constructor listens for the end of the request and for its headers. *)
Init ==
    /\ xhr = [state |-> "unsent", credentials |-> FALSE, url |-> FALSE, headers |-> <<>>,
              onLoadEnd |-> TRUE, onHeaders |-> TRUE, async |-> TRUE]
    /\ options = [opened |-> FALSE, credentials |-> FALSE, headers |-> <<>>]
    /\ page = Nothing /\ sent = Nothing /\ reports = NoReports /\ requests = 0

(* A request of the page that is under way is dropped without an event. *)
Open(async) ==
    /\ requests < MaxRequests
    /\ xhr' = [xhr EXCEPT !.state = "opened", !.url = xhr.credentials, !.headers = <<>>,
                          !.async = async]
    /\ options' = [opened |-> TRUE, credentials |-> xhr.credentials, headers |-> <<>>]
    /\ page' = [page EXCEPT !.headers = <<>>]
    /\ UNCHANGED <<sent, reports, requests>>

SetRequestHeader(name) ==
    LET header == [name |-> name, value |-> Len(page.headers), prefixed |-> FALSE]
        set    == IF IsAuthorization(header) THEN Prefixed(header) ELSE header
    IN /\ xhr.state = "opened" /\ Len(page.headers) < MaxHeaders
       /\ xhr' = [xhr EXCEPT !.headers = Append(@, set)]
       /\ options' = IF options.opened THEN [options EXCEPT !.headers = Append(@, set)] ELSE options
       /\ page' = [page EXCEPT !.headers = Append(@, header)]
       /\ UNCHANGED <<sent, reports, requests>>

(* The browser refuses the change once the request is sent. *)
SetWithCredentials(value) ==
    /\ xhr.state \in {"unsent", "opened"}
    /\ xhr' = [xhr EXCEPT !.credentials = value]
    /\ page' = [page EXCEPT !.credentials = value]
    /\ UNCHANGED <<options, sent, reports, requests>>

ReopenWithoutHeaders ==
    IF options.opened /\ options.credentials # xhr.credentials /\ xhr.state \in {"unsent", "opened"}
    THEN [xhr EXCEPT !.state = "opened", !.url = xhr.credentials, !.headers = <<>>]
    ELSE xhr

(* An object that the page aborted is opened by this as well, where the browser would refuse. *)
ReopenXhr ==
    IF options.opened /\ options.credentials # xhr.credentials /\ xhr.state \in {"unsent", "opened"}
    THEN [xhr EXCEPT !.state = "opened", !.url = xhr.credentials, !.headers = options.headers]
    ELSE xhr

(* A synchronous request is over when the browser's send returns; its end is reported by the *)
(* listener, if it is still there, and by send itself.                                        *)
Send ==
    LET done == ~xhr.async
    IN /\ ReopenXhr.state = "opened" /\ requests < MaxRequests
       /\ requests' = requests + 1
       /\ sent' = [credentials |-> ReopenXhr.url, headers |-> ReopenXhr.headers]
       /\ options' = [options EXCEPT !.credentials = xhr.credentials]
       /\ xhr' = [ReopenXhr EXCEPT !.state = IF done THEN "done" ELSE "sent",
                                   !.onLoadEnd = @ /\ ~done, !.onHeaders = @ /\ ~done]
       /\ reports' = [reports EXCEPT !.sending = @ + 1,
                         !.completed = IF done THEN @ + 1 + (IF xhr.onLoadEnd THEN 1 ELSE 0) ELSE @,
                         !.synced = IF done THEN requests' ELSE @]
       /\ UNCHANGED page

(* The browser throws when there is no open request to send, but the sending has been announced. *)
SendTooEarly ==
    /\ ReopenXhr.state # "opened" /\ reports.sending < MaxRequests
    /\ reports' = [reports EXCEPT !.sending = @ + 1]
    /\ UNCHANGED <<xhr, options, page, sent, requests>>

(* The cookies of the answer are synchronised when its headers are there, once per object. *)
HeadersArriveUnsynced ==
    /\ xhr.state = "sent" /\ xhr' = [xhr EXCEPT !.state = "headers"]
    /\ UNCHANGED <<options, page, sent, reports, requests>>

HeadersArrive ==
    /\ xhr.state = "sent"
    /\ xhr' = [xhr EXCEPT !.state = "headers", !.onHeaders = FALSE]
    /\ reports' = IF xhr.onHeaders THEN [reports EXCEPT !.synced = requests] ELSE reports
    /\ UNCHANGED <<options, page, sent, requests>>

(* The end of a request that may have failed before its headers came. *)
Done ==
    /\ xhr.state \in {"sent", "headers"}
    /\ xhr' = [xhr EXCEPT !.state = "done", !.onHeaders = FALSE, !.onLoadEnd = FALSE]
    /\ reports' = [reports EXCEPT !.completed = @ + (IF xhr.onLoadEnd THEN 1 ELSE 0),
                                  !.synced = IF xhr.onHeaders THEN requests ELSE @]
    /\ UNCHANGED <<options, page, sent, requests>>

(* The end of a request under way is reported before the failure. *)
Abort ==
    LET ongoing == xhr.state \in {"sent", "headers"}
    IN /\ reports.failed < MaxRequests
       /\ xhr' = IF xhr.state = "opened" THEN xhr
                 ELSE [xhr EXCEPT !.state = "unsent", !.onHeaders = @ /\ ~ongoing,
                                  !.onLoadEnd = @ /\ ~ongoing]
       /\ reports' = [reports EXCEPT !.failed = @ + 1,
                         !.completed = @ + (IF ongoing /\ xhr.onLoadEnd THEN 1 ELSE 0),
                         !.synced = IF ongoing /\ xhr.onHeaders THEN requests ELSE @]
       /\ UNCHANGED <<options, page, sent, requests>>

Next ==
    \/ \E async \in BOOLEAN : Open(async)
    \/ \E name \in HeaderNames : SetRequestHeader(name)
    \/ \E value \in BOOLEAN : SetWithCredentials(value)
    \/ Send \/ SendTooEarly \/ HeadersArrive \/ Done \/ Abort

Spec == Init /\ [][Next]_vars

(*** properties *************************************************************)

TypeOK ==
    /\ xhr.state \in {"unsent", "opened", "sent", "headers", "done"}
    /\ requests \in 0..MaxRequests /\ reports.synced \in 0..MaxRequests

(* The destination gets the request that the page asked for: with the credentials it chose    *)
(* last, and with the headers it set since it opened the request, in their order.             *)
RequestIsAsAsked ==
    xhr.state \in {"sent", "headers", "done"} /\ ~Repeated =>
        /\ sent.credentials = page.credentials
        /\ AtTheDestination(sent.headers) = page.headers

(* The first request of an object is reported as completed when it is over, and the cookies   *)
(* of its answer are synchronised before the page can see its headers.                        *)
FirstRequestIsFollowed ==
    requests = 1 /\ xhr.state \in {"headers", "done"} =>
        /\ reports.synced = 1
        /\ xhr.state = "done" => reports.completed > 0
===============================================================================
