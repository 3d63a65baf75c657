------------------------------- MODULE Exchange -------------------------------
(***************************************************************************)
(* One request of a page and its answer on their way through the proxy:    *)
(* the proxied URL that the client asks for, its dispatch, the headers     *)
(* that the destination gets, what the proxy makes of the answer and of    *)
(* its headers, and the redirects that follow                              *)
(* (request-pipeline/context/index.ts, header-transforms, same-origin-     *)
(* policy.ts, utils/url.ts and the client's utils/url.ts).                 *)
(*                                                                         *)
(* The page is at origin "p", served by the proxy's port "main"; its frame *)
(* and its scripted requests for another origin go to the port "cross",    *)
(* so that the browser takes them for cross-origin too.                    *)
(*                                                                         *)
(* The type that a redirected URL gets is made of the redirecting answer:  *)
(* when that answer has the type of a script, the URL becomes one of a     *)
(* script, from which credentials mode and origin are not read back; a     *)
(* redirect of an object is no longer known as one; one of a frame that    *)
(* tells no referrer keeps its port.  The model ends there ("confused").   *)
(***************************************************************************)
EXTENDS ProxyUrls

CONSTANTS MaxRedirects

VARIABLES
    ask,        \* what the page asks for
    target,     \* the origin that it is at now, as the page's browser would know it
    tainted,    \* it has been at another origin than the page's
    asker,      \* the origin in whose name a browser would send it
    url,        \* the proxied URL of the current request
    dest,       \* the proxy's description of it
    headers,    \* what the destination gets
    answer,     \* what it answers
    info,       \* contentInfo
    seen,       \* what the browser gets
    stage, redirects, confused

vars == <<ask, target, tainted, asker, url, dest, headers, answer, info, seen, stage, redirects, confused>>
history == <<target, tainted, asker>>

Origins == {"p", "q", "r"}
Kinds   == {"page", "iframe", "script", "css", "image", "form", "object", "ajax", "unproxied"}
Modes   == {"include", "sameOrigin", "omit"}

Accept(a) == IF a.kind \in {"page", "iframe", "form"} THEN "html"
             ELSE IF a.kind = "css" THEN "css" ELSE a.accept

(* Requests of a page: only a script chooses credentials and authorization, the browser may   *)
(* add an authorization of its own, hide the referrer and validate what it has.               *)
Asks ==
    {a \in [kind : Kinds, origin : {"p", "q"}, credentials : Modes \cup {None},
            authorization : {None, "page", "browser"}, accept : {"any", "script"},
            referer : {"page", "option", None}, conditional : BOOLEAN, restoring : BOOLEAN] :
        /\ a.kind = "ajax" <=> a.credentials # None
        /\ a.authorization = "page" => a.kind = "ajax"
        /\ a.accept = "script" => a.kind = "ajax"
        /\ a.restoring => a.kind = "page"
        /\ a.conditional => a.kind \in {"page", "ajax", "image"} /\ a.authorization = None
        /\ a.kind = "unproxied" => a.origin = "p" /\ a.referer = "page"}

(*** the client **************************************************************)

IsCrossDomain(a) == a.kind \in {"iframe", "ajax"} /\ a.origin # "p"

TypeOf(kind) ==
    CASE kind = "iframe" -> {"isIframe"} [] kind = "script" -> {"isScript"}
      [] kind = "form"   -> {"isForm"}   [] kind = "object" -> {"isObject"}
      [] kind = "ajax"   -> {"isAjax"}   [] OTHER -> {}

(* getProxyUrl of the client, and getAjaxProxyUrl. *)
ClientProxyUrl(a) ==
    ProxyUrl(a.origin, IF IsCrossDomain(a) THEN "cross" ELSE "main",
             Options(TypeOf(a.kind), IF a.kind = "script" THEN "utf-8" ELSE None, a.credentials,
                     IF IsCrossDomain(a) THEN "p" ELSE None))

NoDest == [origin |-> None, type |-> {}, charset |-> None, credentials |-> None,
           reqOrigin |-> None, referer |-> None]
NoHeaders == [origin |-> None, cookie |-> FALSE, authorization |-> None, referer |-> None,
              reqOrigin |-> None, conditional |-> FALSE]
NoAnswer == [status |-> "none", type |-> "none", location |-> None, allowOrigin |-> None,
             allowCredentials |-> FALSE, disposition |-> "none"]
NoInfo == [isPage |-> FALSE, isScript |-> FALSE, isNotModified |-> FALSE, isRedirect |-> FALSE,
           requireProcessing |-> FALSE, isAttachment |-> FALSE, token |-> {}]
Unseen == [location |-> [dest |-> None, port |-> "main", type |-> {}, data |-> <<>>],
           allowed |-> FALSE, allowOrigin |-> None, processed |-> FALSE, attachment |-> FALSE]

Init ==
    /\ ask \in Asks /\ url = ClientProxyUrl(ask)
    /\ target = ask.origin /\ tainted = (ask.origin # "p") /\ asker = "p"
    /\ dest = NoDest /\ headers = NoHeaders /\ answer = NoAnswer /\ info = NoInfo /\ seen = Unseen
    /\ stage = "asked" /\ redirects = 0 /\ confused = FALSE

(*** the request *************************************************************)

HasReferer == ask.referer # None
Unproxied  == ask.kind = "unproxied" /\ redirects = 0

(* A request whose URL was never proxied is for the origin of the page that sends it; its     *)
(* description is made of the referrer's, which becomes the URL of the request itself.        *)
Dispatch ==
    LET parsed == ParseDescriptor(url)
        origin == IF Unproxied THEN "p" ELSE url.dest
    IN /\ stage = "asked" /\ stage' = "dispatched"
       /\ dest' = [origin |-> origin, type |-> parsed.type, charset |-> parsed.charset,
                   credentials |-> parsed.credentials,
                   reqOrigin |-> IF parsed.reqOrigin # None THEN parsed.reqOrigin
                                 ELSE IF HasReferer THEN "p" ELSE origin,
                   referer |-> IF ~HasReferer THEN None
                               ELSE IF Unproxied THEN "itself" ELSE "page"]
       /\ UNCHANGED <<ask, history, url, headers, answer, info, seen, redirects, confused>>

IsAjax   == "isAjax" \in dest.type
IsIframe == "isIframe" \in dest.type
IsPageRequest == ~IsAjax /\ Accept(ask) = "html"

ShouldOmitCredentials ==
    \/ dest.credentials = "omit"
    \/ dest.credentials = "sameOrigin" /\ dest.reqOrigin # dest.origin

(* The browser names the origin of a request that crosses origins, and of a submitted form. *)
BrowserNamesOrigin == url.port = "cross" \/ ask.kind = "form"

TransformAuthorization == IF ask.authorization = "page" THEN "page" ELSE None

ForRequest ==
    /\ stage = "dispatched" /\ stage' = "sent"
    /\ headers' = [origin |-> dest.origin,
                   cookie |-> ~ShouldOmitCredentials,
                   authorization |-> TransformAuthorization,
                   referer |-> dest.referer,
                   reqOrigin |-> IF BrowserNamesOrigin THEN dest.reqOrigin ELSE None,
                   conditional |-> ask.conditional /\ ~ask.restoring]
    /\ UNCHANGED <<ask, history, url, dest, answer, info, seen, redirects, confused>>

(*** the answer **************************************************************)

Types == {"html", "text", "script", "css", "image", "none"}

(* What an answer says of who may read it; of an answer to no script it makes no difference. *)
Grants ==
    {NoAnswer} \cup {[NoAnswer EXCEPT !.allowOrigin = o, !.allowCredentials = c] :
                        o \in (IF ask.kind = "ajax" THEN {"*", "p", "null"} ELSE {}), c \in BOOLEAN}

Answers ==
    {[NoAnswer EXCEPT !.status = "ok", !.type = t, !.disposition = d] :
        t \in Types, d \in {"none", "attachment"}}
    \cup {[NoAnswer EXCEPT !.status = s] : s \in {"no content"}}
    \cup {[g EXCEPT !.status = "ok"] : g \in Grants}
    \cup {[g EXCEPT !.status = "redirect", !.location = o, !.type = t] :
             g \in Grants, o \in Origins, t \in {"html", "script"}}
    \cup (IF headers.conditional THEN {[NoAnswer EXCEPT !.status = "not modified"]} ELSE {})

Answer ==
    /\ stage = "sent" /\ stage' = "answered"
    /\ answer' \in Answers
    /\ UNCHANGED <<ask, history, url, dest, headers, info, seen, redirects, confused>>

(* What the content is: a page by the type of the answer or, if it has none, by what the      *)
(* browser accepts, a script or style sheet by either.                                        *)
BuildContentInfo ==
    LET isTextPage == IsPageRequest /\ answer.type \in {"text", "none"}
        isPage     == IsPageRequest /\ (isTextPage \/ answer.type = "html")
        isCSS      == answer.type = "css" \/ Accept(ask) = "css"
        isScript   == "isScript" \in dest.type \/ answer.type = "script" \/ Accept(ask) = "script"
        isForm     == "isForm" \in dest.type
        isRedirect == answer.status = "redirect"
        notModified == answer.status = "not modified" /\ ask.conditional
        isAssets   == (isCSS \/ isScript) /\ answer.status # "no content"
    IN /\ stage = "answered" /\ stage' = "known"
       /\ info' = [isPage |-> isPage, isScript |-> isScript, isNotModified |-> notModified,
                   isRedirect |-> isRedirect,
                   requireProcessing |->
                       /\ ~IsAjax /\ ~isRedirect /\ ~notModified
                       /\ ~(isForm /\ answer.status = "no content")
                       /\ isPage \/ IsIframe \/ isAssets,
                   isAttachment |-> ~isPage /\ ~IsAjax /\ ~IsIframe /\ ~isTextPage /\ ~isScript
                                    /\ ~isForm /\ "isObject" \notin dest.type,
                   token |-> ContentTypeToken(IsIframe, IsAjax, isForm, isScript)]
       /\ UNCHANGED <<ask, history, url, dest, headers, answer, seen, redirects, confused>>

(* check of same-origin-policy.ts. *)
SameOriginPolicy ==
    \/ dest.origin = dest.reqOrigin
    \/ /\ answer.allowOrigin # None
       /\ dest.credentials = "include" => answer.allowCredentials /\ answer.allowOrigin # "*"
       /\ answer.allowOrigin \in {"*", dest.reqOrigin}

IsPassSameOriginPolicy == ~IsAjax \/ info.isNotModified \/ SameOriginPolicy

OtherPort == IF url.port = "main" THEN "cross" ELSE "main"


RedirectUrl ==
    LET location == answer.location
        before == dest.origin # "p"
        after  == location # "p"
        cross  == IsIframe /\ dest.referer # None /\ before # after
    IN ProxyUrl(location, IF cross THEN OtherPort ELSE url.port,
                IF IsIframe /\ dest.referer # None
                THEN Options(info.token, None, None, IF cross THEN dest.origin ELSE None)
                ELSE IF IsAjax THEN Options(info.token, None, dest.credentials, dest.reqOrigin)
                ELSE Options(info.token, None, None, None))

TransformContentDisposition ==
    answer.disposition = "attachment" \/ info.isAttachment

SendResponseHeaders ==
    /\ stage = "known" /\ stage' = "seen"
    /\ seen' = [location |-> IF info.isRedirect THEN RedirectUrl ELSE Unseen.location,
                allowed |-> IsPassSameOriginPolicy,
                allowOrigin |-> IF answer.allowOrigin = None \/ ~IsPassSameOriginPolicy THEN None
                                ELSE OtherPort,
                processed |-> info.requireProcessing,
                attachment |-> TransformContentDisposition]
    /\ UNCHANGED <<ask, history, url, dest, headers, answer, info, redirects, confused>>

(* The browser lets the page have what passes the proxy's check and, at the other port, its   *)
(* own.                                                                                       *)
PageMayHave ==
    /\ seen.allowed
    /\ ask.kind = "ajax" /\ url.port = "cross" =>
          /\ seen.allowOrigin = "main"
          /\ ask.credentials = "include" => answer.allowCredentials

(* Once a redirect leads from another origin to yet another, or back to the page's, no origin *)
(* asks for a browser.                                                                        *)
FollowRedirect ==
    /\ stage = "seen" /\ info.isRedirect /\ PageMayHave /\ redirects < MaxRedirects
    /\ stage' = "asked" /\ redirects' = redirects + 1
    /\ url' = seen.location /\ target' = answer.location
    /\ tainted' = (tainted \/ answer.location # "p")
    /\ asker' = IF target \notin {"p", answer.location} THEN "null" ELSE asker
    /\ confused' = (\/ ask.kind = "object"
                    \/ info.isScript /\ "isScript" \notin dest.type
                    \/ IsIframe /\ ~HasReferer)
    /\ dest' = NoDest /\ headers' = NoHeaders /\ answer' = NoAnswer /\ info' = NoInfo
    /\ seen' = Unseen
    /\ UNCHANGED ask

Next == ~confused /\ (\/ Dispatch \/ ForRequest \/ Answer \/ BuildContentInfo
                      \/ SendResponseHeaders \/ FollowRedirect)

Spec == Init /\ [][Next]_vars

(*** properties *************************************************************)

TypeOK ==
    /\ url.port \in {"main", "cross"} /\ target \in Origins /\ asker \in {"p", "null"}
    /\ stage \in {"asked", "dispatched", "sent", "answered", "known", "seen"}
    /\ redirects \in 0..MaxRedirects

(* What a browser knows of a redirected request and the proxy does not: that it has crossed   *)
(* from one origin to another, and that it has come back to the page's.                       *)
Crossed  == asker = "null" \/ (ask.origin = "p" /\ tainted)
Returned == target = "p" /\ tainted

(* The destination gets the request that it would get from the page itself: at the same       *)
(* origin, with cookies exactly when the mode says so, with the authorization that the page   *)
(* set and no other, and with the page's origin exactly when a browser names it.  Of a        *)
(* scripted request that was redirected the proxy knows only who asked first: it has          *)
(* same-origin cookies when it is back at the page's origin, and an origin where for a        *)
(* browser none asks; and the browser, to which it never left the page's port, names no       *)
(* origin when a redirect takes it away.  Whether it keeps an authorization of the page then  *)
(* is not said.                                                                               *)
DestinationSeesThePage ==
    stage = "sent" /\ ~confused =>
        /\ headers.origin = target
        /\ \/ Returned /\ ask.credentials = "sameOrigin"
           \/ headers.cookie = (ask.credentials \in {None, "include"}
                                    \/ (ask.credentials = "sameOrigin" /\ ~tainted))
        /\ IF Crossed THEN headers.authorization # "browser"
           ELSE headers.authorization = (IF ask.authorization = "page" THEN "page" ELSE None)
        /\ ask.kind = "ajax" /\ ~Crossed => headers.reqOrigin = (IF tainted THEN asker ELSE None)
        /\ ask.kind # "ajax" => headers.reqOrigin \in {None, "p"} \/ ask.referer = None
        /\ ask.kind # "unproxied" => headers.referer = (IF HasReferer THEN "page" ELSE None)

(* For a browser: any answer until it has left the page's origin, then one that allows asker. *)
MightHave ==
    \/ ~tainted
    \/ /\ answer.allowOrigin \in {"*", asker}
       /\ ask.credentials = "include" => answer.allowCredentials /\ answer.allowOrigin # "*"

(* A script may read an answer, and is redirected by it, exactly when it might be without the *)
(* proxy.  Where no origin asks for the browser, the answer is read too when it allows the    *)
(* page's origin by name, and not when it allows "null"; and what comes from the page's own   *)
(* origin is not checked by the proxy, nor by the browser if it comes through the page's port *)
(* or allows credentials that the request includes.                                           *)
ReadableAsWithoutProxy ==
    stage = "seen" /\ ask.kind = "ajax" /\ ~info.isNotModified /\ ~confused =>
        \/ asker = "null" /\ answer.allowOrigin \notin {None, "*"}
        \/ Returned /\ (url.port = "main" \/ ask.credentials = "include")
        \/ PageMayHave = MightHave

(* What the browser is going to interpret is processed, and what a script reads is not. *)
InterpretedIsProcessed ==
    stage = "seen" /\ answer.status = "ok" /\ ~confused =>
        /\ ask.kind \in {"page", "iframe", "form"} /\ answer.type = "html" => seen.processed
        /\ ask.kind \in {"script", "css"} => seen.processed
        /\ ask.kind = "ajax" => ~seen.processed
        /\ ask.kind \in {"image", "object", "unproxied"} /\ answer.type \in {"image", "none", "text", "html"}
               => ~seen.processed

(* A frame is served by the page's port exactly when it is at the page's origin, however it   *)
(* got there: the browser lets page and frame see each other exactly when it would without    *)
(* the proxy.                                                                                 *)
FrameIsAtItsPort ==
    ask.kind = "iframe" /\ ~confused => (url.port = "main") = (target = "p")
===============================================================================
