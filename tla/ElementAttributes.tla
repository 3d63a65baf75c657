--------------------------- MODULE ElementAttributes ---------------------------
(***************************************************************************)
(* The attributes of one element (client/sandbox/node/element.ts and       *)
(* processing/dom).  An attribute whose value has to differ from what the  *)
(* page wrote (URLs, targets, event handlers, ...) is kept twice, as the   *)
(* native attribute and as a stored one with what the page wrote.  A       *)
(* proxied URL says how its resource is used; that depends on other        *)
(* attributes and on the windows that exist.                               *)
(***************************************************************************)
EXTENDS Naturals, FiniteSets

CONSTANTS
    Depths,    \* of the element's window: 0 is the top window
    Owners     \* flags of the action of the form of an input, or NoForm

NoForm == {"no form"}

VARIABLES
    element,   \* tag, native and stored attributes; forced: an image goes through the proxy;
               \* frame: a window named "f" exists; depth and owner as above
    written,   \* history: what the page wrote
    misread    \* history: attributes of which the page is told something else, see below

vars == <<element, written, misread>>

(* What the page may write into the attributes of an element. *)
Urls    == {"abs", "rel", "about", "js", ""}
Targets == {"_blank", "_top", "_parent", "f"}
Alphabet ==
    [a      |-> [href |-> Urls \cup {"mail"}, target |-> Targets],
     form   |-> [action |-> {"abs", "js", ""}, target |-> Targets],
     input  |-> [formaction |-> {"abs", ""}, formtarget |-> Targets, type |-> {"file", "image"},
                 required |-> {""}, autocomplete |-> {"on", "off"}],
     img    |-> [src |-> {"abs", "rel", "about", ""}, srcset |-> {"abs", "rel"}],
     iframe |-> [src |-> {"abs", "cross", "about", "js", ""}, srcdoc |-> {"html"},
                 sandbox |-> {"", "allowed"}],
     script |-> [src |-> {"abs", ""}, integrity |-> {"sha"}],
     link   |-> [href |-> {"abs", "about"}, rel |-> {"prefetch", "modulepreload", "import"},
                 as |-> {"script", "style"}, integrity |-> {"sha"}],
     span   |-> [onclick |-> {"code"}, style |-> {"css"}]]

UrlAttrs     == {"href", "src", "srcset", "action", "formaction"}
Attrs(tag)   == DOMAIN Alphabet[tag]
Supported(v) == v \in {"abs", "rel", "cross", ""}

(* A value as it is in the document: what it was made of, in which form, and the flags of a  *)
(* proxied URL.                                                                              *)
Value(v, form) == [v |-> v, form |-> form, flags |-> {}]
Plain(v)       == Value(v, "plain")
Proxied(x, fl) == [v |-> x.v, form |-> "proxied", flags |-> fl]
Absent         == Value("absent", "plain")
Marker         == Value("hammerhead|autocomplete-attribute-absence-marker", "plain")

Resolved(x)    == IF x.v = "rel" THEN Value(x.v, "resolved") ELSE x
Corrected(e, v) == IF v = "_blank" \/ (v = "f" /\ ~e.frame) THEN "_top" ELSE v

-----------------------------------------------------------------------------
(* How the resource of a URL is used *)

TargetAttr(tag) == IF tag \in {"input", "button"} THEN "formtarget" ELSE "target"
Native(e, a)    == IF a \in Attrs(e.tag) THEN e.native[a] ELSE Absent

IsOpenLinkInIframe(e) ==
    LET target == Native(e, TargetAttr(e.tag)).v
        must   == \/ e.tag \in {"a", "form", "input"}
                     /\ ~(e.tag = "input" /\ Native(e, "type").v = "image")
                  \/ e.tag = "link" /\ Native(e, "rel").v = "import"
    IN  /\ target # "_top" /\ must
        /\ IF target = "_parent" THEN e.depth > 1 ELSE e.depth > 0 \/ (target = "f" /\ e.frame)

GetElementResourceType(e) ==
    IF e.tag = "link" /\ (Native(e, "as").v = "script" \/ Native(e, "rel").v = "modulepreload")
    THEN {"script"}
    ELSE {fl \in {"iframe", "form", "script", "htmlImport"} :
            \/ fl = "iframe" /\ (e.tag = "iframe" \/ IsOpenLinkInIframe(e))
            \/ fl = "form" /\ e.tag \in {"form", "input"}
            \/ fl = "script" /\ e.tag = "script"
            \/ fl = "htmlImport" /\ e.tag = "link" /\ Native(e, "rel").v = "import"}

(* setAttribute looks at the form of an input that says nothing itself. *)
ResourceTypeForSet(e, a) ==
    IF a = "formaction" /\ e.native["formtarget"] = Absent
    THEN IF e.owner = NoForm THEN {"form"} ELSE e.owner
    ELSE GetElementResourceType(e)

(* A cross-domain iframe has a port of its own. *)
ProxyUrl(e, x, fl) == IF e.tag = "iframe" /\ x.v = "cross" THEN Proxied(x, fl \cup {"cross"})
                      ELSE Proxied(x, fl)

-----------------------------------------------------------------------------
(* Reading: getAttributeCore and _hasAttributeCore *)

IsFileInput(e) == e.tag = "input" /\ e.native["type"].v = "file"

ReadsStored(e, a) ==
    \/ a \in UrlAttrs \cup {"onclick", "sandbox", "autocomplete", "target", "formtarget",
                            "integrity", "rel", "srcdoc"}
    \/ a = "required" /\ IsFileInput(e)

(* style is cleaned when it is read. *)
GetAttribute(e, a) ==
    IF a = "style" THEN [e.native[a] EXCEPT !.form = "plain"]
    ELSE IF ~ReadsStored(e, a) \/ e.stored[a] = Absent THEN e.native[a]
    ELSE IF e.stored[a] = Marker THEN Absent
    ELSE e.stored[a]

HasAttribute(e, a) ==
    CASE a = "autocomplete" /\ e.stored[a] = Marker -> FALSE
      [] a = "integrity" -> e.stored[a] # Absent
      [] a = "rel" \/ (a = "required" /\ IsFileInput(e)) -> Absent # e.native[a] \/ Absent # e.stored[a]
      [] OTHER -> e.native[a] # Absent

-----------------------------------------------------------------------------
(* Processing of an element that comes as HTML: DomProcessor.processElement *)

Both(e, a, n, s) == [e EXCEPT !.native[a] = n, !.stored[a] = s]

(* A target is only looked at together with a URL, a formtarget always. *)
ProcessTargetBlank(e) ==
    LET t == TargetAttr(e.tag) IN
    IF /\ t \in Attrs(e.tag) /\ e.stored[t] = Absent /\ e.native[t].v = "_blank"
       /\ t = "formtarget" \/ \E a \in UrlAttrs \cap Attrs(e.tag) : e.native[a] # Absent
    THEN Both(e, t, Plain("_top"), Plain("_blank"))
    ELSE e

ProcessUrlAttr(e, a) ==
    LET x == e.native[a] special == x.v = "about" IN
    IF x = Absent \/ e.stored[a] # Absent THEN e
    ELSE IF x.v = "js" THEN Both(e, a, Value(x.v, "script"), x)
    ELSE IF ~Supported(x.v) /\ ~special THEN e
    ELSE Both(e, a,
              IF (special /\ e.tag # "a") \/ (e.tag \in {"img", "iframe"} /\ x.v = "") THEN x
              ELSE IF e.tag = "img" /\ ~e.forced /\ a # "srcset" THEN Resolved(x)
              ELSE ProxyUrl(e, x, GetElementResourceType(e)),
              x)

(* The sandbox tokens that the scripts of hammerhead need are added.  The mutated form adds  *)
(* them whether they are there or not.                                                       *)
AllowedTwice(x) == IF x.v = "allowed" THEN Value("allowed twice", "allowed") ELSE Value(x.v, "allowed")
Allowed(x) == IF x.v = "allowed" THEN x ELSE Value(x.v, "allowed")

ProcessOtherAttr(e, a) ==
    LET n == e.native[a] s == e.stored[a] IN
    CASE a = "autocomplete" ->
            Both(e, a, Plain("off"), IF s # Absent THEN s ELSE IF n = Absent THEN Marker ELSE n)
      [] a = "required" ->
            IF IsFileInput(e) /\ s = Absent /\ n # Absent THEN Both(e, a, Absent, n) ELSE e
      [] a = "integrity" -> IF n = Absent THEN e ELSE Both(e, a, Absent, n)
      [] a = "rel" -> IF n.v = "prefetch" THEN Both(e, a, Absent, n) ELSE e
      [] a = "onclick" -> IF n = Absent \/ s # Absent THEN e ELSE Both(e, a, Value(n.v, "script"), n)
      [] a = "sandbox" -> IF n = Absent THEN e ELSE Both(e, a, Allowed(n), n)
      [] a = "srcdoc" -> IF n = Absent THEN e ELSE Both(e, a, Value(n.v, "page"), n)
      [] a = "style" -> IF n = Absent THEN e ELSE Both(e, a, Value(n.v, "css"), s)
      [] OTHER -> e

(* Every attribute is processed by itself once the target is right.                          *)
ProcessElement(e) ==
    LET t == ProcessTargetBlank(e)
        done(a) == IF a \in UrlAttrs THEN ProcessUrlAttr(t, a) ELSE ProcessOtherAttr(t, a)
    IN  [t EXCEPT !.native = [a \in Attrs(e.tag) |-> done(a).native[a]],
                  !.stored = [a \in Attrs(e.tag) |-> done(a).stored[a]]]

-----------------------------------------------------------------------------
(* Writing: setAttributeCore *)

(* What becomes of a URL; the native value of an image is left to the browser until it is    *)
(* forced through the proxy.                                                                 *)
SetUrlAttr(e, a, x) ==
    LET special == x.v = "about" IN
    Both(e, a,
         CASE x.v = "js" -> Value(x.v, "script")
           [] x.v = "mail" \/ x = Plain("") \/ (special /\ e.tag # "a") -> x
           [] e.tag = "img" /\ ~e.forced -> Resolved(x)
           [] OTHER -> ProxyUrl(e, x, ResourceTypeForSet(e, a)),
         x)

(* _onTargetChanged: the URL is written again with what the page wrote.  The mutated form    *)
(* leaves it as it was.                                                                      *)
OnTargetChangedNothing(e) == e
OnTargetChanged(e) ==
    LET a == CASE e.tag = "form" -> "action" [] e.tag = "input" -> "formaction" [] OTHER -> "href" IN
    IF e.stored[a] # Absent /\ (Supported(e.stored[a].v) \/ e.stored[a].form = "proxied")
    THEN SetUrlAttr(e, a, e.stored[a])
    ELSE e

(* A target that does not change the native one is not written at all. *)
SetTarget(e, a, v) ==
    IF e.native[a] = Plain(Corrected(e, v)) THEN e
    ELSE OnTargetChanged(Both(e, a, Plain(Corrected(e, v)), Plain(v)))

RecalcHref(e) == IF e.native["href"] = Absent THEN e ELSE SetUrlAttr(e, "href", e.native["href"])

(* A prefetch link gets no native rel.  The href of a preloaded module is that of a script.  *)
SetRel(e, v) ==
    LET old == e.native["rel"].v
        new == IF v = "prefetch" THEN Both(e, "rel", Absent, Plain(v)) ELSE Both(e, "rel", Plain(v), Absent)
    IN  IF v # old /\ "modulepreload" \in {v, old} THEN RecalcHref(new) ELSE new

SetAs(e, v) ==
    LET old == e.native["as"].v new == [e EXCEPT !.native["as"] = Plain(v)] IN
    IF v # old /\ "script" \in {v, old} THEN RecalcHref(new) ELSE new

(* A file input is never required natively; its files are not in the browser. *)
SetType(e, v) ==
    LET new      == [e EXCEPT !.native["type"] = Plain(v)]
        required == IF e.stored["required"] # Absent THEN e.stored["required"] ELSE e.native["required"]
    IN  IF e.native["type"] = Plain(v) \/ required = Absent THEN new
        ELSE IF v = "file" THEN Both(new, "required", Absent, required)
        ELSE IF e.native["type"].v = "file" THEN Both(new, "required", required, Absent)
        ELSE new

SetAttribute(e, a, v) ==
    CASE a \in UrlAttrs -> SetUrlAttr(e, a, Plain(v))
      [] a \in {"target", "formtarget"} -> SetTarget(e, a, v)
      [] a = "rel"          -> SetRel(e, v)
      [] a = "as"           -> SetAs(e, v)
      [] a = "type"         -> SetType(e, v)
      [] a = "onclick"      -> Both(e, a, Value(v, "script"), Plain(v))
      [] a = "autocomplete" -> Both(e, a, Plain("off"), Plain(v))
      [] a = "sandbox"      -> Both(e, a, Allowed(Plain(v)), Plain(v))
      [] a = "srcdoc"       -> Both(e, a, Value(v, "page"), Plain(v))
      [] a = "integrity"    -> [e EXCEPT !.stored[a] = Plain(v)]
      [] a = "required" /\ IsFileInput(e) -> Both(e, a, Absent, Plain(v))
      [] a = "style"        -> [e EXCEPT !.native[a] = Value(v, "css")]
      [] OTHER              -> [e EXCEPT !.native[a] = Plain(v)]

-----------------------------------------------------------------------------
(* Removing: removeAttributeCore *)

(* autocomplete stays off natively, the stored marker says that the page has none.  The      *)
(* stored attributes of integrity and srcdoc are not removed.  The mutated form removes none. *)
RemoveNativeAttribute(e, a) == [e EXCEPT !.native[a] = Absent]
RemoveAttribute(e, a) ==
    CASE a = "autocomplete" -> [e EXCEPT !.stored[a] = Marker]
      [] a \in {"target", "formtarget"} -> OnTargetChanged(Both(e, a, Absent, Absent))
      [] a \in UrlAttrs \cup {"sandbox", "onclick", "rel"} \/ (a = "required" /\ IsFileInput(e)) ->
            Both(e, a, Absent, Absent)
      [] a = "type" /\ e.stored["required"] # Absent ->
            Both([e EXCEPT !.native[a] = Absent], "required", e.stored["required"], Absent)
      [] OTHER -> [e EXCEPT !.native[a] = Absent]

-----------------------------------------------------------------------------
(* What happens to the element *)

Nothing(tag) == [a \in Attrs(tag) |-> Absent]
Fresh(tag, depth, owner) ==
    [tag |-> tag, native |-> Nothing(tag), stored |-> Nothing(tag), forced |-> FALSE,
     frame |-> FALSE, depth |-> depth, owner |-> owner]

Init == /\ element \in {Fresh(tag, depth, owner) :
                            tag \in DOMAIN Alphabet, depth \in Depths, owner \in Owners}
        /\ element.owner # NoForm => element.tag = "input"
        /\ written = element.native
        /\ misread = {}

(* The element comes as HTML with up to two attributes. *)
Parse ==
    /\ element = Fresh(element.tag, element.depth, element.owner)
    /\ \E as \in SUBSET Attrs(element.tag) :
        /\ Cardinality(as) \in 1..2
        /\ \E f \in [as -> UNION {Alphabet[element.tag][a] : a \in as}] :
            /\ \A a \in as : f[a] \in Alphabet[element.tag][a]
            /\ written' = [a \in Attrs(element.tag) |-> IF a \in as THEN Plain(f[a]) ELSE Absent]
            /\ element' = ProcessElement([element EXCEPT !.native = written'])
    /\ UNCHANGED misread

Ignored(e, a, v) ==
    a \in {"target", "formtarget"} /\ e.native[a] = Plain(Corrected(e, v)) /\ GetAttribute(e, a) # Plain(v)

Recalculates(e, a, v) ==
    /\ \/ a = "rel" /\ v # e.native[a].v /\ "modulepreload" \in {v, e.native[a].v}
       \/ a = "as" /\ v # e.native[a].v /\ "script" \in {v, e.native[a].v}
    /\ e.native["href"].form = "proxied"

Write(a, v) ==
    /\ element' = SetAttribute(element, a, v)
    /\ written' = [written EXCEPT ![a] = Plain(v)]
    /\ misread' = (misread \ {a}) \cup (IF Ignored(element, a, v) THEN {a} ELSE {})
                                  \cup (IF Recalculates(element, a, v) THEN {"href"} ELSE {})

Remove(a) ==
    /\ element' = RemoveAttribute(element, a)
    /\ written' = [written EXCEPT ![a] = Absent]
    /\ misread' = IF a \in {"integrity", "srcdoc"} /\ element.stored[a] # Absent
                  THEN misread \cup {a}
                  ELSE misread \ {a}

(* The first of its URL attributes: getUrlAttr. *)
UrlAttr(tag) == CASE tag \in {"a", "link"} -> "href" [] tag = "form" -> "action" [] OTHER -> "src"

(* The element comes to another window, or the base URL has changed. *)
Adopt ==
    /\ UrlAttr(element.tag) \in Attrs(element.tag)
    /\ element.native[UrlAttr(element.tag)] # Absent
    /\ element' = SetUrlAttr(element, UrlAttr(element.tag), GetAttribute(element, UrlAttr(element.tag)))
    /\ UNCHANGED <<written, misread>>

(* An input is inserted into a form: its formaction is written again. *)
Insert ==
    /\ element.tag = "input" /\ element.owner # NoForm /\ element.native["formaction"] # Absent
    /\ element' = SetUrlAttr(element, "formaction", GetAttribute(element, "formaction"))
    /\ UNCHANGED <<written, misread>>

(* The copy has the attributes but not what the scripts have noted in the element. *)
Clone ==
    /\ element' = LET copy == [element EXCEPT !.forced = FALSE] IN
                  IF Native(copy, TargetAttr(copy.tag)).v = "_parent" THEN ProcessElement(copy) ELSE copy
    /\ UNCHANGED <<written, misread>>

(* innerHTML is the native HTML with some attributes put back: cleanUpHtml.  The mutated form *)
(* leaves targets as they are.                                                               *)
PutBack(e, attrs) ==
    [a \in Attrs(e.tag) |->
        IF a \notin attrs \/ e.native[a] = Absent \/ e.stored[a] = Absent THEN e.native[a]
        ELSE IF e.stored[a] = Marker THEN Absent ELSE e.stored[a]]
CleanedAttrs(e) == {UrlAttr(e.tag), TargetAttr(e.tag), "autocomplete", "sandbox"} \cap Attrs(e.tag)
InnerHtmlWithoutTarget(e) == PutBack(e, CleanedAttrs(e) \ {"target"})
InnerHtml(e) == PutBack(e, CleanedAttrs(e))

(* The page writes the HTML that it has read, which holds the other stored attributes; what  *)
(* is stored of a srcdoc then is the processed page.                                         *)
CopyAsHtml ==
    /\ element' = ProcessElement([element EXCEPT
           !.native = InnerHtml(element), !.forced = FALSE,
           !.stored = [a \in Attrs(element.tag) |->
                         IF a \in CleanedAttrs(element) /\ element.native[a] # Absent THEN Absent ELSE @[a]]])
    /\ misread' = IF "srcdoc" \in Attrs(element.tag) /\ element.native["srcdoc"] # Absent
                  THEN misread \cup {"srcdoc"} ELSE misread
    /\ UNCHANGED written

(* An iframe with the name "f" is added to the document: elements whose target it is are     *)
(* processed again, from their native attributes.                                            *)
FrameAppears ==
    LET reprocessed == Native(element, "target").v = "f"
        u == UrlAttr(element.tag)
    IN  /\ ~element.frame
        /\ misread' = IF reprocessed /\ element.native[u].form # "plain" THEN misread \cup {u} ELSE misread
        /\ UNCHANGED written
        /\ element' = IF reprocessed
                      THEN ProcessElement([element EXCEPT !.frame = TRUE, !.stored[u] = Absent])
                      ELSE [element EXCEPT !.frame = TRUE]

FrameGoes ==
    /\ element.frame
    /\ element' = [element EXCEPT !.frame = FALSE]
    /\ UNCHANGED <<written, misread>>

(* _ensureTargetContainsExistingBrowsingContext, before the page handles a click. *)
EnsureTarget(e) ==
    IF Native(e, "target") = Absent THEN e
    ELSE SetTarget(e, "target", IF e.stored["target"] # Absent THEN e.stored["target"].v
                                ELSE e.native["target"].v)
Click ==
    /\ element.tag \in {"a", "form"}
    /\ element' = EnsureTarget(element)
    /\ UNCHANGED <<written, misread>>

(* A load handler makes an image go through the proxy, since its answer may set cookies; so  *)
(* does an error of one that was loaded directly.  The mutated form only marks the image.    *)
ResetNothing(e, a) == e
Reset(e, a) == IF e.native[a].v \in {"absent", ""} THEN e ELSE SetUrlAttr(e, a, e.native[a])

LoadHandler ==
    /\ element.tag = "img" /\ ~element.forced
    /\ element' = Reset(Reset([element EXCEPT !.forced = TRUE], "src"), "srcset")
    /\ misread' = misread \cup {a \in {"src", "srcset"} : element.native[a].form # "plain"}
    /\ UNCHANGED written

ImageError ==
    /\ element.tag = "img" /\ ~element.forced
    /\ element.stored["src"] # Absent /\ element.native["src"].v \in {"abs", "rel"}
    /\ element' = [element EXCEPT !.native["src"] = Proxied(element.stored["src"], {})]
    /\ UNCHANGED <<written, misread>>

Next ==
    \/ Parse
    \/ \E a \in Attrs(element.tag) : Remove(a) \/ \E v \in Alphabet[element.tag][a] : Write(a, v)
    \/ Adopt \/ Insert \/ Clone \/ CopyAsHtml \/ FrameAppears \/ FrameGoes \/ Click \/ LoadHandler \/ ImageError

Spec == Init /\ [][Next]_vars

-----------------------------------------------------------------------------
Values(tag) == [v : UNION {Alphabet[tag][a] : a \in Attrs(tag)} \cup {Absent.v, Marker.v},
                form : {"plain", "proxied", "resolved", "script", "page", "css", "allowed"},
                flags : SUBSET {"iframe", "form", "script", "htmlImport", "cross"}]

TypeOK ==
    /\ element.tag \in DOMAIN Alphabet /\ element.forced \in BOOLEAN
    /\ \A a \in Attrs(element.tag) :
        {element.native[a], element.stored[a], written[a]} \subseteq Values(element.tag)
    /\ misread \subseteq Attrs(element.tag) /\ element.frame \in BOOLEAN

(* The page reads what it has written, from the attribute and from innerHTML, in whatever    *)
(* order attributes were written, removed, processed and processed again; except for         *)
(* attributes in misread.                                                                    *)
ReadsWhatItWrote ==
    \A a \in Attrs(element.tag) \ misread :
        /\ GetAttribute(element, a) = written[a]
        /\ HasAttribute(element, a) <=> written[a] # Absent
        /\ a \in CleanedAttrs(element) => InnerHtml(element)[a] = written[a]

(* What the page has the browser load goes through the proxy, images excepted until they     *)
(* must.                                                                                     *)
NothingBypassesTheProxy ==
    \A a \in UrlAttrs \cap Attrs(element.tag) :
        written[a].v \in {"abs", "rel", "cross"} /\ (element.tag = "img" => element.forced) =>
            element.native[a].form = "proxied"

(* When a link or form is used, its URL says what its resource is used for: whether it opens *)
(* in an iframe depends on its target and on the windows that exist by then.                 *)
UrlFitsItsUse ==
    element.tag \in {"a", "form"} =>
        LET e == EnsureTarget(element) u == UrlAttr(e.tag) IN
        e.native[u].form = "proxied" /\ e.native[u].v # "about" => e.native[u].flags = GetElementResourceType(e)

(* The script hides the proxy from the page (node/index.ts:136): a proxied URL is never read. *)
NoProxiedUrlIsRead ==
    \A a \in Attrs(element.tag) : GetAttribute(element, a).form # "proxied"
===============================================================================
