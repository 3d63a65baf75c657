------------------------------ MODULE ResponseCache ------------------------------
(***************************************************************************)
(* The cache of responses (request-pipeline/cache.ts) and the requests of  *)
(* one URL that fill and use it, as far as the stages of the pipeline      *)
(* touch the response.  All hits of an entry have one response object, an  *)
(* IncomingMessageLike, whose headers every lookup replaces and whose body *)
(* a pipe takes out of it.                                                 *)
(***************************************************************************)
EXTENDS Naturals, Sequences

CONSTANT MaxUsers   \* bound on the requests that use the response

Users == 1..MaxUsers

(* The body of a response object and whose headers it has, beside its own: the rules of a    *)
(* request set headers in it.  A stream is one from the network.                             *)
Objects == [body : {"whole", "taken"}, headers : SUBSET Users, stream : BOOLEAN]

(* Whether a rule of the request sets a header, and whether one wants the response.          *)
Rules == [header : BOOLEAN, response : BOOLEAN]

VARIABLES
    processed, \* whether the resource is one that is processed, fixed
    objects,   \* the response objects, in the order they were created
    entry,     \* the object of the cache entry, or NoEntry
    users,     \* the requests
    spoiled,   \* history: objects that a rule's pipe took the body of
    shared     \* history: requests that met another one in the same object

cacheVars == <<processed, objects, entry, users, spoiled, shared>>

NoEntry == 0
NewUser == [rules |-> [header |-> FALSE, response |-> FALSE], step |-> "new", res |-> NoEntry,
            got |-> "nothing", headers |-> {}]

CacheTypeOK ==
    /\ processed \in BOOLEAN /\ objects \in Seq(Objects)
    /\ entry \in {NoEntry} \cup DOMAIN objects
    /\ users \in [Users ->
           [rules : Rules, step : {"new", "responded", "fetched", "configured", "sent", "stuck"},
            res : {NoEntry} \cup DOMAIN objects, got : {"nothing", "empty", "whole"},
            headers : SUBSET Users]]
    /\ spoiled \subseteq DOMAIN objects /\ shared \subseteq Users

CacheInit ==
    /\ processed \in BOOLEAN /\ objects = <<>> /\ entry = NoEntry
    /\ users = [r \in Users |-> NewUser] /\ spoiled = {} /\ shared = {}

Res(r)     == objects[users[r].res]
Sharing(o) == {q \in Users : /\ users[q].step \in {"responded", "fetched", "configured"}
                             /\ users[q].res = o}
At(r, step) == users[r].step = step
IsNext(r)   == At(r, "new") /\ \A q \in 1..r - 1 : ~At(q, "new")
Becomes(r, step) == users' = [users EXCEPT ![r].step = step]

-----------------------------------------------------------------------------
(* getResponse and _send: a hit takes the object of the entry, with the headers as they were *)
(* stored; otherwise the destination answers, with a response that may be stored.            *)

WithOldHeaders(o)    == objects
WithStoredHeaders(o) == [objects EXCEPT ![o].headers = {}]

Hit(r, rules) ==
    /\ IsNext(r) /\ entry # NoEntry
    /\ users' = [users EXCEPT ![r] = [NewUser EXCEPT !.rules = rules, !.step = "responded",
                                                     !.res = entry]]
    /\ objects' = WithStoredHeaders(entry)
    /\ shared' = shared \cup (IF Sharing(entry) = {} THEN {} ELSE Sharing(entry) \cup {r})
    /\ UNCHANGED <<processed, entry, spoiled>>

Miss(r, rules) ==
    /\ IsNext(r) /\ entry = NoEntry
    /\ objects' = Append(objects, [body |-> "whole", headers |-> {}, stream |-> TRUE])
    /\ users' = [users EXCEPT ![r] = [NewUser EXCEPT !.rules = rules, !.step = "responded",
                                                     !.res = Len(objects) + 1]]
    /\ UNCHANGED <<processed, entry, spoiled, shared>>

(* The entry became too old, or gave way to others. *)
Expire ==
    /\ entry # NoEntry /\ entry' = NoEntry
    /\ UNCHANGED <<processed, objects, users, spoiled, shared>>

(* _addTemporaryEntryToCache: the entry of a response from the destination gets its body and *)
(* replaces what is there.  A response that is not processed may be too large for it.        *)
AddEntry(r) ==
    IF Res(r).stream
    THEN \/ /\ objects' = Append(objects, [body |-> "whole", headers |-> {}, stream |-> FALSE])
            /\ entry' = Len(objects) + 1
         \/ ~processed /\ UNCHANGED <<objects, entry>>
    ELSE UNCHANGED <<objects, entry>>

-----------------------------------------------------------------------------
(* The stages.  _getDestResBody takes the body of the object, if it is still there; a stream *)
(* that was piped before ends with nothing, or has ended and never will again.               *)

FetchContent(r) ==
    /\ processed /\ At(r, "responded") /\ Res(r).body = "whole"
    /\ users' = [users EXCEPT ![r].step = "fetched", ![r].got = "whole"]
    /\ AddEntry(r)
    /\ UNCHANGED <<processed, spoiled, shared>>

(* A rule sets its header in the response object. *)
ConfigureResponse(r) ==
    /\ At(r, IF processed THEN "fetched" ELSE "responded")
    /\ Becomes(r, "configured")
    /\ objects' = IF users[r].rules.header THEN [objects EXCEPT ![users[r].res].headers = @ \cup {r}]
                  ELSE objects
    /\ UNCHANGED <<processed, entry, spoiled, shared>>

Answered(r, got) ==
    users' = [users EXCEPT ![r].step = "sent", ![r].got = got, ![r].headers = Res(r).headers]

SendProxyResponse(r) ==
    /\ processed /\ At(r, "configured")
    /\ Answered(r, users[r].got)
    /\ UNCHANGED <<processed, objects, entry, spoiled, shared>>

PipeNonProcessedResponse(r) ==
    /\ ~processed /\ At(r, "configured") /\ ~users[r].rules.response
    /\ Res(r).body = "whole"
    /\ Answered(r, "whole") /\ AddEntry(r)
    /\ UNCHANGED <<processed, spoiled, shared>>

(* With a rule that wants the response the stream itself is piped, and never stored. *)
PipeForRule(r) ==
    /\ ~processed /\ At(r, "configured") /\ users[r].rules.response
    /\ Res(r).body = "whole"
    /\ Answered(r, "whole")
    /\ objects' = [objects EXCEPT ![users[r].res].body = "taken"]
    /\ spoiled' = spoiled \cup {users[r].res}
    /\ UNCHANGED <<processed, entry, shared>>

PipeOfNothing(r) ==
    /\ ~processed /\ At(r, "configured") /\ Res(r).body = "taken"
    /\ \/ Answered(r, "empty")
       \/ Becomes(r, "stuck")
    /\ UNCHANGED <<processed, objects, entry, spoiled, shared>>

CacheNext ==
    \/ Expire
    \/ \E r \in Users :
        \/ \E rules \in Rules : Hit(r, rules) \/ Miss(r, rules)
        \/ FetchContent(r) \/ ConfigureResponse(r) \/ SendProxyResponse(r)
        \/ PipeNonProcessedResponse(r) \/ PipeForRule(r) \/ PipeOfNothing(r)

CacheSpec == CacheInit /\ [][CacheNext]_cacheVars

-----------------------------------------------------------------------------
(* An answer has the whole body, unless an earlier hit of the same entry was piped for a     *)
(* rule; and it has the headers that its own rules set and no others, unless two requests    *)
(* used the entry at once (request-pipeline/cache.ts:58-80).                                 *)
CachedAnswersAreWhole ==
    \A r \in Users :
        /\ At(r, "stuck") => users[r].res \in spoiled
        /\ At(r, "sent") =>
               /\ users[r].got = "whole" \/ users[r].res \in spoiled
               /\ users[r].headers = (IF users[r].rules.header THEN {r} ELSE {}) \/ r \in shared
===============================================================================
