----------------------------- MODULE FetchRequests -----------------------------
(***************************************************************************)
(* The page's Headers and Request objects and its calls of fetch           *)
(* (client/sandbox/fetch.ts).                                              *)
(*                                                                         *)
(* The authorization header of a request is prefixed when the page sets it *)
(* and, if that did not happen, when a request is made of the headers; the *)
(* prefix is removed from what the page reads.  A value is a sequence: the *)
(* browser joins the values that are appended to a header.                 *)
(*                                                                         *)
(* "theirs" holds the objects as they would be without the proxy.  Two     *)
(* things the page may do are lost, and the model says nothing of them: a  *)
(* value appended to the headers of a Request is never prefixed, and a     *)
(* Request that is fetched with another credentials mode is replaced by    *)
(* its URL ("lost").                                                       *)
(***************************************************************************)
EXTENDS Naturals, Sequences

CONSTANTS MaxValues      \* bounds the values of the header

VARIABLES
    headers,    \* the authorization value of the page's Headers object
    request,    \* its Request object
    theirs,     \* both as the page knows them
    sent,       \* the request that left, and the one the page made
    lost

vars == <<headers, request, theirs, sent, lost>>

Modes    == {"omit", "same-origin", "include"}
Unknown  == "unknown"                       \* no credentials option
Default  == "same-origin"                   \* DEFAULT_REQUEST_CREDENTIALS
Methods  == {"GET", "POST"}
NoRequest == [method |-> "none", credentials |-> Default, headers |-> <<>>]

(* A value is a sequence of prefixes and texts. *)
Prefix == "prefix"
AddAuthorizationPrefix(value)    == <<Prefix>> \o value
HasAuthorizationPrefix(value)    == \E i \in DOMAIN value : value[i] = Prefix
RemoveAuthorizationPrefix(value) ==
    IF ~HasAuthorizationPrefix(value) THEN value
    ELSE LET first == CHOOSE i \in DOMAIN value :
                         value[i] = Prefix /\ \A j \in 1..(i - 1) : value[j] # Prefix
         IN SubSeq(value, 1, first - 1) \o SubSeq(value, first + 1, Len(value))

(* What the page reads of a header by get, forEach, entries and values. *)
RemoveAuthHeadersPrefix(value) == RemoveAuthorizationPrefix(value)

ProcessEveryInit(value) == IF value = <<>> THEN value ELSE AddAuthorizationPrefix(value)

(* A header that is there is prefixed when a request is made of the headers. *)
ProcessInit(value) ==
    IF value = <<>> \/ HasAuthorizationPrefix(value) THEN value ELSE AddAuthorizationPrefix(value)

(* The proxy lets only a prefixed header through, without its prefix. *)
AtTheDestination(value) == IF HasAuthorizationPrefix(value) THEN RemoveAuthorizationPrefix(value) ELSE <<>>

Init ==
    /\ headers = <<>> /\ request = NoRequest
    /\ theirs = [headers |-> <<>>, request |-> NoRequest]
    /\ sent = [actual |-> NoRequest, meant |-> NoRequest] /\ lost = FALSE

(*** the page's Headers object ***********************************************)

(* The constructor and append are the browser's. *)
NewHeaders(text) ==
    /\ headers' = <<text>>
    /\ theirs' = [theirs EXCEPT !.headers = <<text>>]
    /\ UNCHANGED <<request, sent, lost>>

AppendHeader(text) ==
    /\ Len(theirs.headers) < MaxValues
    /\ headers' = Append(headers, text)
    /\ theirs' = [theirs EXCEPT !.headers = Append(@, text)]
    /\ UNCHANGED <<request, sent, lost>>

SetHeader(text) ==
    /\ headers' = AddAuthorizationPrefix(<<text>>)
    /\ theirs' = [theirs EXCEPT !.headers = <<text>>]
    /\ UNCHANGED <<request, sent, lost>>

(* The browser copies headers through the iterator, which the sandbox overrides. *)
CopyHeaders ==
    /\ headers' = RemoveAuthHeadersPrefix(headers)
    /\ UNCHANGED <<request, theirs, sent, lost>>

(*** its Request object ******************************************************)

(* The headers object that the page passes is the one that is prefixed; while the browser      *)
(* copies its entries, the iterator is the browser's.                                          *)
NewRequest(method, credentials) ==
    /\ headers' = ProcessInit(headers)
    /\ request' = [method |-> method, headers |-> headers',
                   credentials |-> IF credentials = Unknown THEN Default ELSE credentials]
    /\ theirs' = [theirs EXCEPT !.request =
                     [method |-> method, headers |-> theirs.headers,
                      credentials |-> IF credentials = Unknown THEN Default ELSE credentials]]
    /\ UNCHANGED <<sent, lost>>

SetRequestHeader(text) ==
    /\ request # NoRequest
    /\ request' = [request EXCEPT !.headers = AddAuthorizationPrefix(<<text>>)]
    /\ theirs' = [theirs EXCEPT !.request.headers = <<text>>]
    /\ UNCHANGED <<headers, sent, lost>>

AppendRequestHeader(text) ==
    /\ request # NoRequest /\ Len(theirs.request.headers) < MaxValues
    /\ request' = [request EXCEPT !.headers = Append(@, text)]
    /\ theirs' = [theirs EXCEPT !.request.headers = Append(@, text)]
    /\ lost' = (lost \/ request.headers = <<>>)
    /\ UNCHANGED <<headers, sent>>

(* The headers of another Request replace those of the page's Headers object. *)
TakeRequestHeaders ==
    /\ request # NoRequest
    /\ headers' = RemoveAuthHeadersPrefix(request.headers)
    /\ theirs' = [theirs EXCEPT !.headers = theirs.request.headers]
    /\ UNCHANGED <<request, sent, lost>>

(*** fetch *******************************************************************)

Sent(actual, meant) == sent' = [actual |-> actual, meant |-> meant]

FetchUrl(method, credentials) ==
    LET mode == IF credentials = Unknown THEN Default ELSE credentials
    IN /\ headers' = ProcessInit(headers)
       /\ Sent([method |-> method, credentials |-> mode, headers |-> headers'],
               [method |-> method, credentials |-> mode, headers |-> theirs.headers])
       /\ UNCHANGED <<request, theirs, lost>>

(* The credentials mode is part of the proxied URL. *)
FetchRequest ==
    /\ request # NoRequest
    /\ Sent(request, theirs.request)
    /\ UNCHANGED <<headers, request, theirs, lost>>

FetchRequestWithHeaders ==
    /\ request # NoRequest /\ headers # <<>>
    /\ headers' = ProcessInit(headers)
    /\ Sent([request EXCEPT !.headers = headers'], [theirs.request EXCEPT !.headers = theirs.headers])
    /\ UNCHANGED <<request, theirs, lost>>

FetchRequestWithCredentials(credentials) ==
    /\ request # NoRequest
    /\ Sent([method |-> "GET", credentials |-> credentials, headers |-> <<>>],
            [theirs.request EXCEPT !.credentials = credentials])
    /\ lost' = TRUE
    /\ UNCHANGED <<headers, request, theirs>>

Next ==
    /\ ~lost
    /\ \/ \E text \in {"a", "b"} : \/ NewHeaders(text) \/ AppendHeader(text) \/ SetHeader(text)
                                   \/ SetRequestHeader(text) \/ AppendRequestHeader(text)
       \/ CopyHeaders \/ TakeRequestHeaders
       \/ \E method \in Methods, credentials \in Modes \cup {Unknown} :
             NewRequest(method, credentials) \/ FetchUrl(method, credentials)
       \/ FetchRequest \/ FetchRequestWithHeaders
       \/ \E credentials \in Modes : FetchRequestWithCredentials(credentials)

Spec == Init /\ [][Next]_vars

(*** properties *************************************************************)

TypeOK ==
    /\ request.method \in Methods \cup {"none"} /\ request.credentials \in Modes
    /\ Len(theirs.headers) <= MaxValues /\ lost \in BOOLEAN

(* The page reads the authorization that it gave, whatever became of the object that holds it, *)
(* and the destination gets every request with the method, the credentials mode and the        *)
(* authorization that the page gave it.                                                         *)
RequestsAreAsMade ==
    ~lost =>
        /\ RemoveAuthHeadersPrefix(headers) = theirs.headers
        /\ RemoveAuthHeadersPrefix(request.headers) = theirs.request.headers
        /\ [sent.actual EXCEPT !.headers = AtTheDestination(@)] = sent.meant
===============================================================================
