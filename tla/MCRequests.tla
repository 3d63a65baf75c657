------------------------------ MODULE MCRequests ------------------------------
(***************************************************************************)
(* Finite instances of what carries requests of a page and their cookies:  *)
(* the synchronisation of cookies, XMLHttpRequest, fetch, and the exchange *)
(* with the destination through the proxy.  They share no state; a         *)
(* behaviour is one of one of them, the others stay as they are.           *)
(***************************************************************************)
EXTENDS CookieSync

VARIABLES part,
    xhr, options, wanted, xhrSent, reports, sends,                      \* XhrRequests
    pageHeaders, pageRequest, theirs, fetched, lost,                    \* FetchRequests
    ask, target, tainted, asker, url, dest, headers, answer, info, seen, stage, redirects, confused   \* Exchange

X == INSTANCE XhrRequests WITH MaxRequests <- 2, MaxHeaders <- 2,
        page <- wanted, sent <- xhrSent, requests <- sends
F == INSTANCE FetchRequests WITH MaxValues <- 2,
        headers <- pageHeaders, request <- pageRequest, sent <- fetched
E == INSTANCE Exchange WITH MaxRedirects <- 2

xhrs     == <<xhr, options, wanted, xhrSent, reports, sends>>
fetches  == <<pageHeaders, pageRequest, theirs, fetched, lost>>
exchange == <<ask, target, tainted, asker, url, dest, headers, answer, info, seen, stage, redirects, confused>>
all      == <<part, vars, xhrs, fetches, exchange>>

RequestsInit ==
    /\ part \in {"cookies", "xhr", "fetch", "exchange"}
    /\ Init /\ X!Init /\ F!Init /\ E!Init
    /\ part # "exchange" => ask = (CHOOSE a \in E!Asks : a.kind = "page")

RequestsNext ==
    /\ UNCHANGED part
    /\ \/ part = "cookies" /\ Next /\ UNCHANGED <<xhrs, fetches, exchange>>
       \/ part = "xhr" /\ X!Next /\ UNCHANGED <<vars, fetches, exchange>>
       \/ part = "fetch" /\ F!Next /\ UNCHANGED <<vars, xhrs, exchange>>
       \/ part = "exchange" /\ E!Next /\ UNCHANGED <<vars, xhrs, fetches>>

RequestsSpec == RequestsInit /\ [][RequestsNext]_all

(* A run in which two changes of a cookie cannot be told apart is not followed any further:  *)
(* nothing is said of it.                                                                     *)
ChangesCanBeTold == ~Ambiguous

(* Which value a cookie gets makes no difference. *)
CookieValues == Permutations(Values)

(* The destination gets the requests that the page makes, with the headers, the credentials   *)
(* and the origin they would have without the proxy, but for what the parts except by name.   *)
RequestsAreAsAsked ==
    /\ part = "cookies" => TypeOK
    /\ part = "xhr" => X!TypeOK /\ X!RequestIsAsAsked
    /\ part = "fetch" => F!TypeOK /\ F!RequestsAreAsMade
    /\ part = "exchange" => E!TypeOK /\ E!DestinationSeesThePage

===============================================================================
