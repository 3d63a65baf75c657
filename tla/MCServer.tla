------------------------------- MODULE MCServer -------------------------------
(***************************************************************************)
(* Finite instances of components of the server that share no state.  A    *)
(* behaviour is one of one of them, the others stay as they are.           *)
(***************************************************************************)
EXTENDS DestinationRequest, ProxyServer, ResponseCache

VARIABLES part,
    form, inputs, hidden, uploading, disk, stores, uploaded,     \* Uploads
    answer, charset, decoded, step, doc, jsCache, scripts        \* PageTexts

(* Two states, one with storages; one cookie.  Forms with inputs that can be told apart and  *)
(* that cannot; two files of one name.                                                       *)
Snapshot(name, storages) == [name |-> name, storages |-> storages]
TwoSnapshots == {Snapshot("a", TRUE), Snapshot("b", FALSE)}
File(data) == [name |-> "x", data |-> data]
Input(id, name) == [id |-> id, name |-> name]

(* Pages that tell their charset in every way, with scripts that do; pages with every head   *)
(* of up to three nodes; a page with modules of one text that import others.                 *)
Meta(label)   == [attr |-> TRUE, label |-> label]
Pragma(label) == [attr |-> FALSE, label |-> label]
Page(contentType, bom, metas, asked) ==
    [contentType |-> contentType, bom |-> bom, metas |-> metas, scripts |-> asked,
     head |-> <<"title">>, frame |-> FALSE, restoring |-> TRUE, styles |-> 1, users |-> 0]
Script(module, contentType, bom) ==
    [module |-> module, attr |-> "none", late |-> FALSE, blank |-> FALSE, redirected |-> FALSE,
     contentType |-> contentType, bom |-> bom, text |-> "x", base |-> "a", session |-> "s"]
Plain == Script(FALSE, "none", "none")
Scripts ==
    {Script(m, ct, bom) : m \in BOOLEAN, ct \in {"none", "utf-8"}, bom \in {"none", "utf-8"}}
    \cup {[Plain EXCEPT !.attr = a, !.late = l] : a \in {"windows-1251", "bad"}, l \in BOOLEAN}
    \cup {[Plain EXCEPT !.redirected = r, !.blank = b] : r \in BOOLEAN, b \in BOOLEAN}
Modules == {[Script(TRUE, "utf-8", "none") EXCEPT !.text = t, !.base = b, !.session = s] :
               t \in {"y", "z"}, b \in {"a", "b"}, s \in {"s", "t"}}
Metas == {<<>>, <<Meta("utf-8")>>, <<Pragma("utf-8")>>, <<Meta("utf-16")>>, <<Pragma("bad")>>,
          <<Pragma("windows-1251"), Meta("windows-1251")>>, <<Meta("windows-1251"), Pragma("utf-8")>>}
Heads == UNION {[1..n -> {"title", "script", "other"}] : n \in 0..3}
Pages ==
    {Page(ct, bom, m, Scripts) : ct \in {"none", "utf-8", "bad"}, bom \in {"none", "utf-8", "utf-16"},
                                 m \in Metas}
    \cup {[Page("none", "none", <<>>, {}) EXCEPT !.head = h, !.frame = f, !.styles = n, !.users = u] :
              h \in Heads, f \in BOOLEAN, n \in {0, 2}, u \in 0..1}
    \cup {Page("none", "none", <<>>, Modules)}

U == INSTANCE Uploads WITH
        Forms <- {<<Input("a", "f"), Input("b", "g")>>, <<Input("", "f"), Input("", "g")>>},
        Selections <- {<<>>, <<File("1")>>, <<File("2")>>, <<File("1"), File("2")>>},
        MaxChanges <- 2, MaxMoves <- 2, MaxTaken <- 6, calls <- uploading, history <- uploaded
T == INSTANCE PageTexts WITH MaxScripts <- 2

destination == <<opts, request, disturbed>>
uploads     == <<form, inputs, hidden, uploading, disk, stores, uploaded>>
texts       == <<answer, charset, decoded, step, doc, jsCache, scripts>>
server      == <<part, destination, proxyVars, uploads, cacheVars, texts>>

ServerInit ==
    /\ part \in {"destination", "proxy", "uploads", "cache", "texts"}
    /\ Init /\ ProxyInit /\ U!Init /\ CacheInit /\ T!Init
    /\ part # "destination" => opts = (CHOOSE o \in Options : TRUE)
    /\ part # "uploads" => U!Distinct
    /\ part # "cache" => ~processed
    /\ part # "texts" => answer = (CHOOSE p \in Pages : TRUE)

ServerNext ==
    /\ UNCHANGED part
    /\ \/ part = "destination" /\ Next /\ UNCHANGED <<proxyVars, uploads, cacheVars, texts>>
       \/ part = "proxy" /\ ProxyNext /\ UNCHANGED <<destination, uploads, cacheVars, texts>>
       \/ part = "uploads" /\ U!Next /\ UNCHANGED <<destination, proxyVars, cacheVars, texts>>
       \/ part = "cache" /\ CacheNext /\ UNCHANGED <<destination, proxyVars, uploads, texts>>
       \/ part = "texts" /\ T!Next /\ UNCHANGED <<destination, proxyVars, uploads, cacheVars>>

ServerSpec == ServerInit /\ [][ServerNext]_server

(* The variables of every component have their types. *)
ServerTypeOK ==
    CASE part = "destination" -> TypeOK
      [] part = "proxy"       -> ProxyTypeOK
      [] part = "uploads"     -> U!TypeOK
      [] part = "cache"       -> CacheTypeOK
      [] part = "texts"       -> T!TypeOK

(* Chosen files are stored under names of their own, and submitted as the page sees them. *)
UploadsArrive == part = "uploads" => U!UploadsArrive

(* The texts of a page are read as without the proxy, and the proxy's scripts before its own. *)
PageIsReadAsSent == T!PageIsReadAsSent
===============================================================================
