-------------------------------- MODULE PageTexts --------------------------------
(***************************************************************************)
(* A page's answer and its scripts on their way through the processors of  *)
(* the resources (processing/resources): in which charset a text is        *)
(* decoded and encoded again, what is put into the page and where, and the *)
(* cache of processed scripts.  Then the browser reads them.               *)
(*                                                                         *)
(* A text is known by the charset its bytes are read in.  Decoding and     *)
(* encoding keeps the bytes if the charset has a character for every byte, *)
(* as iso-8859-1 does here, or is the one of the text.                     *)
(***************************************************************************)
EXTENDS Naturals, Sequences, SequencesExt

CONSTANTS
    Pages,      \* the pages: how they are answered (contentType, bom, metas), how they are made
                \* (head, frame, restoring, styles, users) and the scripts they may ask for
    MaxScripts  \* bound on the scripts asked for

VARIABLES
    answer,     \* the page, fixed
    charset,    \* what contentInfo.charset of its request is
    decoded,    \* the charset the page was decoded in
    step,       \* how far the request is
    doc,        \* the nodes of the page as served
    jsCache,    \* the texts in the cache of processed scripts, and where their imports lead
    scripts     \* the scripts asked for, and how they were read

vars == <<answer, charset, decoded, step, doc, jsCache, scripts>>

None    == "none"
DEFAULT == "iso-8859-1"
Charsets == {DEFAULT, "windows-1252", "utf-8", "windows-1251", "utf-16"}
ServiceNodes == {"charset", "style", "restore", "hammerhead", "task", "user", "titleRead", "body", "bodyCreated"}

TypeOK ==
    /\ step \in {"asked", "answered", "served"}
    /\ {charset, decoded} \subseteq [name : Charsets, priority : 0..3]
    /\ doc \in Seq(ServiceNodes \cup {"title", "script", "other"})
    /\ \A k \in jsCache : k.charset \in Charsets
    /\ Len(scripts) <= MaxScripts

-----------------------------------------------------------------------------
(* The charset of a resource                                                                *)

(* The name of a label: the one of iso-8859-1 is another charset; None for a bad label.      *)
EncodingName(label) == CASE label = DEFAULT   -> "windows-1252"
                         [] label \in {None, "bad"} -> None
                         [] OTHER             -> label

DefaultPriority == 0
MetaPriority == 1
UrlPriority == 1
ContentTypePriority == 2
BomPriority == 3

Unknown == [name |-> DEFAULT, priority |-> DefaultPriority]

Set(c, name, priority) ==
    IF name # None /\ c.name # name /\ c.priority <= priority
    THEN [name |-> name, priority |-> priority] ELSE c

FromContentType(c, label) == Set(c, EncodingName(label), ContentTypePriority)
FromUrl(c, label)         == Set(c, EncodingName(label), UrlPriority)
FromBOM(c, bom)           == Set(c, bom, BomPriority)

(* The last meta that tells one, and after one with the attribute no http-equiv.             *)
MetaLabel(metas) ==
    LET OneMore(found, meta) ==
            CASE meta.attr   -> [label |-> meta.label, pragma |-> FALSE]
              [] ~meta.attr /\ found.pragma -> [found EXCEPT !.label = meta.label]
              [] OTHER       -> found
    IN  FoldLeft(OneMore, [label |-> None, pragma |-> TRUE], metas).label

FromMeta(c, metas) ==
    IF c.priority < MetaPriority THEN Set(c, EncodingName(MetaLabel(metas)), MetaPriority) ELSE c

(* A charset that the content type tells goes before the one in the URL.                     *)
OfHeaders(contentType, urlLabel) ==
    LET c == FromContentType(Unknown, contentType)
    IN  IF c = Unknown THEN FromUrl(c, urlLabel) ELSE c

(* What decodeContent and encodeContent make of the bytes of a text.                         *)
Encoded(from, c, own, bom) ==
    [bytes |-> IF from.name = c.name /\ c.name \in {DEFAULT, own} THEN "own" ELSE "broken",
     bom   |-> IF c.priority = BomPriority THEN bom ELSE None]

-----------------------------------------------------------------------------
(* How a browser reads                                                                      *)

FirstKnown(names) == SelectSeq(names, LAMBDA n : n # None)[1]

(* The first meta with a known label; one of the page itself cannot say utf-16.              *)
MetaReading(metas) ==
    LET names == SelectSeq([i \in DOMAIN metas |-> EncodingName(metas[i].label)], LAMBDA n : n # None)
    IN  IF names = <<>> THEN None ELSE IF names[1] = "utf-16" THEN "utf-8" ELSE names[1]

PageReading(contentType, bom, metas) ==
    FirstKnown(<<bom, EncodingName(contentType), MetaReading(metas), "windows-1252">>)

OwnReading == PageReading(answer.contentType, answer.bom, answer.metas)

(* A module is read in utf-8; a script in the charset of the document if nothing tells.      *)
ScriptReading(s, bom, document) ==
    IF s.module THEN "utf-8"
    ELSE FirstKnown(<<bom, EncodingName(s.contentType), EncodingName(s.attr),
                      IF s.blank THEN "utf-8" ELSE document>>)

-----------------------------------------------------------------------------
(* What is put into a page                                                                  *)

IsScript(node) == node \in {"script", "restore", "hammerhead", "task", "user", "titleRead"}

InsertBeforeFirstScript(node, head) ==
    LET i == SelectInSeq(head, IsScript)
    IN  InsertAt(head, IF i = 0 THEN Len(head) + 1 ELSE i, node)

InjectableScripts == <<"hammerhead", "task">> \o [i \in 1..answer.users |-> "user"]

(* The last one is inserted first.                                                           *)
AddPageResources(head) ==
    FoldRight(InsertBeforeFirstScript, [i \in 1..answer.styles |-> "style"] \o InjectableScripts, head)

(* After the first title or after the task's script, whichever comes later.                  *)
AddTitleScript(head) ==
    LET title == SelectInSeq(head, LAMBDA n : n = "title")
        task  == SelectInSeq(head, LAMBDA n : n = "task")
    IN  IF title = 0 THEN head
        ELSE InsertAt(head, (IF task > title THEN task ELSE title) + 1, "titleRead")

AddRestoreStoragesScript(head) ==
    IF answer.restoring /\ ~answer.frame THEN InsertBeforeFirstScript("restore", head) ELSE head

Assembled ==
    <<"charset">> \o AddRestoreStoragesScript(AddTitleScript(AddPageResources(answer.head)))
    \o <<"body", "bodyCreated", "script">>

-----------------------------------------------------------------------------
(* The steps                                                                                *)

Init ==
    /\ answer \in Pages /\ step = "asked"
    /\ charset = Unknown /\ decoded = Unknown /\ doc = <<>> /\ jsCache = {} /\ scripts = <<>>

PageArrives ==
    /\ step = "asked" /\ step' = "answered"
    /\ charset' = OfHeaders(answer.contentType, None)
    /\ UNCHANGED <<answer, decoded, doc, jsCache, scripts>>

(* Without the restart: what is decoded in one charset is encoded in another.                *)
ProcessPageOnce ==
    /\ step = "answered" /\ step' = "served" /\ doc' = Assembled
    /\ decoded' = FromBOM(charset, answer.bom) /\ charset' = FromMeta(decoded', answer.metas)
    /\ UNCHANGED <<answer, jsCache, scripts>>

(* process: a meta that changes the charset restarts it.                                     *)
ProcessPage ==
    LET told == FromMeta(decoded', answer.metas)
    IN  /\ step = "answered"
        /\ decoded' = FromBOM(charset, answer.bom)
        /\ charset' = told
        /\ IF told # decoded'
           THEN UNCHANGED <<step, doc>>
           ELSE step' = "served" /\ doc' = Assembled
        /\ UNCHANGED <<answer, jsCache, scripts>>

(* The reading of the page as it is served, and of the URLs its scripts get.                 *)
Served          == Encoded(decoded, charset, OwnReading, answer.bom)
ReadingOfServed == PageReading(answer.contentType, Served.bom,
                               <<[attr |-> TRUE, label |-> charset.name]>> \o answer.metas)

(* The charset in the URL of a script: its attribute, as it is when the URL is set, or the   *)
(* one of the page, which a script of the page finds in its meta; a redirect loses it.       *)
UrlLabel(s) == CASE s.redirected -> None
                 [] ~s.redirected /\ s.attr # None /\ ~s.late -> s.attr
                 [] OTHER -> IF s.blank THEN None ELSE charset.name

(* The script processor: a processed script is found again by its text alone.  The session   *)
(* in the URLs of its imports is then replaced by the one of the request.                    *)
Cached(s, c) == {k \in jsCache : k.text = s.text /\ k.charset = c}

KeepImportUrls(imports, s)         == imports     \* as the request that filled the cache
UpdateScriptImportUrls(imports, s) == [imports EXCEPT !.session = s.session]

ProcessScript(s, c) ==
    IF Cached(s, c) = {}
    THEN [base |-> s.base, session |-> s.session]
    ELSE UpdateScriptImportUrls((CHOOSE k \in Cached(s, c) : TRUE).imports, s)

AskScript(s) ==
    LET c        == FromBOM(OfHeaders(s.contentType, UrlLabel(s)), s.bom)
        own      == ScriptReading(s, s.bom, OwnReading)
        out      == Encoded(c, c, own, s.bom)
        imports  == ProcessScript(s, c.name)
    IN  /\ jsCache' = IF Cached(s, c.name) # {} THEN jsCache
                      ELSE jsCache \cup {[text |-> s.text, charset |-> c.name, imports |-> imports]}
        /\ scripts' = Append(scripts,
               [asked |-> s, bytes |-> out.bytes, own |-> own, imports |-> imports,
                reading |-> ScriptReading(s, out.bom, ReadingOfServed)])
        /\ UNCHANGED <<answer, charset, decoded, step, doc>>

Next ==
    \/ PageArrives
    \/ ProcessPage
    \/ /\ step = "served" /\ Len(scripts) < MaxScripts
       /\ \E s \in answer.scripts : AskScript(s)

Spec == Init /\ [][Next]_vars

-----------------------------------------------------------------------------
(* What the code does not get right: two metas that differ, of which the browser takes the   *)
(* first; a meta that says utf-16; a module on a page, or from a server, with another        *)
(* charset; a charset attribute set after the URL.                                           *)

OddMetas ==
    \/ \E i \in DOMAIN answer.metas : answer.metas[i].label = "utf-16"
    \/ \E i, j \in DOMAIN answer.metas : answer.metas[i].label # answer.metas[j].label
Misread(s) ==
    \/ s.module /\ EncodingName(s.contentType) # "utf-8"
    \/ s.late
    \/ OddMetas

PageIsReadAlike ==
    step = "served" /\ ~OddMetas => Served.bytes = "own" /\ ReadingOfServed = OwnReading

ScriptsAreReadAlike ==
    \A i \in DOMAIN scripts : ~Misread(scripts[i].asked) =>
        scripts[i].bytes = "own" /\ scripts[i].reading = scripts[i].own

(* A text that came from another place before keeps the imports of that place.               *)
Reused(i) == \E j \in 1..i - 1 : /\ scripts[j].asked.text = scripts[i].asked.text
                                 /\ scripts[j].asked.base # scripts[i].asked.base
ImportsAreOfTheRequest ==
    \A i \in DOMAIN scripts :
        /\ scripts[i].imports.session = scripts[i].asked.session
        /\ ~Reused(i) => scripts[i].imports.base = scripts[i].asked.base

(* Before the first script of the page come its storages, the scripts of the proxy, the      *)
(* task's and the user's, in this order; the title is told before a script can look at it.   *)
Before(a, b) == \A i, j \in DOMAIN doc : doc[i] = a /\ doc[j] = b => i < j
PageFindsTheProxy ==
    /\ \A pair \in {<<"style", "hammerhead">>, <<"restore", "hammerhead">>, <<"hammerhead", "task">>,
                    <<"task", "user">>, <<"task", "titleRead">>, <<"task", "script">>, <<"user", "script">>} :
           Before(pair[1], pair[2])
    /\ \A i, t \in DOMAIN doc : doc[i] = "script" /\ doc[t] = "title" /\ t < i =>
           \E r \in 1..i - 1 : doc[r] = "titleRead"

(* The browser reads the texts of the page in the charsets and with the imports it would     *)
(* have without the proxy, and the proxy's scripts before the page's.                        *)
PageIsReadAsSent ==
    PageIsReadAlike /\ ScriptsAreReadAlike /\ ImportsAreOfTheRequest /\ PageFindsTheProxy
================================================================================
