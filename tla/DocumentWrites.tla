---------------------------- MODULE DocumentWrites ----------------------------
(***************************************************************************)
(* document.write: a page writes its HTML in any portions, each of which   *)
(* has to be processed by itself before the browser gets it                *)
(* (client/sandbox/node/document/writer.ts).                               *)
(*                                                                         *)
(* A portion that begins or ends inside of an element is parsed between    *)
(* two markers, behind the tags that are open before it.  What of it lies  *)
(* in a script or comment that stays open is cut out again, and a script   *)
(* is processed when its end is written, the part that the document        *)
(* already has included.                                                   *)
(*                                                                         *)
(* HTML is a sequence of symbols: "<", "</" and ">" around a name ("d" for *)
(* a div, "s" for a script), the limits of comments, the markers, and "x"  *)
(* for a text that does not begin with a letter; "P" stands for the code   *)
(* that processing adds to a script.  Where the search for the markers     *)
(* goes wrong or fails ("confused") nothing is said.                       *)
(***************************************************************************)
EXTENDS Naturals, Sequences, SequencesExt, FiniteSetsExt

CONSTANTS Pages      \* what a page may write, as a whole

VARIABLES
    page, pos,       \* the page's HTML, and how much of it is written
    document,        \* the HTML that the browser has got
    writer,          \* the DocumentWriter
    confused

vars == <<page, pos, document, writer, confused>>

Begin == "begin"
End   == "end"
Markers == {Begin, End}
Names   == {"d", "s"}

(*** the browser's parser ****************************************************)

(* The nodes in document order: an element is an "open" and a "close" node, a script, a       *)
(* comment, a text and a marker one node each.  "held" is a tag that is not complete.         *)
Node(kind, data) == [kind |-> kind, data |-> data, unclosed |-> FALSE]
Tags(name) == <<"<", name, ">">>

AddNode(p, kind, data) == [p EXCEPT !.nodes = Append(@, Node(kind, data)), !.held = <<>>]
AddData(p, data) == [p EXCEPT !.nodes[Len(p.nodes)].data = @ \o data, !.held = <<>>]

InScript(p, t) ==
    IF p.held = <<"</", "s">> /\ t = ">" THEN [p EXCEPT !.mode = "data", !.held = <<>>]
    ELSE IF p.held = <<"</">> /\ t = "s" THEN [p EXCEPT !.held = <<"</", "s">>]
    ELSE IF t = "</" THEN [AddData(p, p.held) EXCEPT !.held = <<"</">>]
    ELSE AddData(p, Append(p.held, t))

InComment(p, t) == IF t = "-->" THEN [p EXCEPT !.mode = "data"] ELSE AddData(p, <<t>>)

InText(p, t) ==
    CASE t \in {"<", "</"} -> [p EXCEPT !.held = <<t>>]
      [] t = "<!--"        -> [AddNode(p, "comment", <<>>) EXCEPT !.mode = "comment"]
      [] t \in Markers     -> AddNode(p, "marker", <<t>>)
      [] OTHER             -> AddNode(p, "text", <<t>>)

InTag(p, t) ==
    IF Len(p.held) = 1 THEN IF t \in Names THEN [p EXCEPT !.held = Append(@, t)]
                            ELSE InText(AddNode(p, "text", <<"lt">>), t)
    ELSE IF t # ">" THEN p
    ELSE IF p.held = <<"<", "s">> THEN [AddNode(p, "script", <<>>) EXCEPT !.mode = "script"]
    ELSE IF p.held = <<"<", "d">> THEN [AddNode(p, "open", <<>>) EXCEPT !.depth = @ + 1]
    ELSE IF p.held = <<"</", "d">> /\ p.depth > 0
         THEN [AddNode(p, "close", <<>>) EXCEPT !.depth = @ - 1]
    ELSE [p EXCEPT !.held = <<>>]

Read(p, t) ==
    CASE p.mode = "script"  -> InScript(p, t)
      [] p.mode = "comment" -> InComment(p, t)
      [] OTHER              -> IF p.held = <<>> THEN InText(p, t) ELSE InTag(p, t)

Parse(html) == FoldLeft(Read, [nodes |-> <<>>, depth |-> 0, mode |-> "data", held |-> <<>>], html)

Closed(p) == p.nodes \o [i \in 1..p.depth |-> Node("close", <<>>)]

Html(node) ==
    CASE node.kind = "open"    -> Tags("d")
      [] node.kind = "close"   -> <<"</", "d", ">">>
      [] node.kind = "script"  -> Tags("s") \o node.data \o <<"</", "s", ">">>
      [] node.kind = "comment" -> <<"<!--">> \o node.data \o <<"-->">>
      [] OTHER                 -> node.data

InnerHtml(nodes) == FlattenSeq([i \in DOMAIN nodes |-> Html(nodes[i])])

(*** places in the parsed portion ********************************************)

IsTag(node) == node.kind \in {"open", "close", "script", "marker"}

(* The "close" node of the element that node i opens. *)
CloseOf(nodes, i) ==
    LET Count(kind, j) == Len(SelectSeq(SubSeq(nodes, i, j), LAMBDA n : n.kind = kind))
    IN CHOOSE j \in i..Len(nodes) : /\ Count("open", j) = Count("close", j)
                                    /\ \A k \in i..(j - 1) : Count("open", k) > Count("close", k)

(* An element without elements in it; the container is node 0. *)
Leaves(nodes) ==
    {i \in DOMAIN nodes :
        \/ nodes[i].kind \in {"script", "marker"}
        \/ nodes[i].kind = "open" /\ \A k \in (i + 1)..(CloseOf(nodes, i) - 1) : ~IsTag(nodes[k])}
FirstLeaf(nodes) == Min(Leaves(nodes) \cup (IF Leaves(nodes) = {} THEN {0} ELSE {}))
LastLeaf(nodes)  == Max(Leaves(nodes) \cup {0})

Ancestors(nodes, i) == {j \in 1..(i - 1) : nodes[j].kind = "open" /\ CloseOf(nodes, j) > i}
Parent(nodes, i)    == Max(Ancestors(nodes, i) \cup {0})

(* A child of an element that has one, or of the container. *)
FirstChild(i) == i + 1
LastChild(nodes, i) ==
    LET last == (IF i = 0 THEN Len(nodes) + 1 ELSE CloseOf(nodes, i)) - 1
    IN IF nodes[last].kind = "close"
       THEN CHOOSE j \in 1..last : nodes[j].kind = "open" /\ CloseOf(nodes, j) = last
       ELSE last

IsComment(nodes, i) == i \in DOMAIN nodes /\ nodes[i].kind = "comment"
MarkersIn(nodes, marker) == {i \in DOMAIN nodes : nodes[i].kind = "marker" /\ nodes[i].data = <<marker>>}

(* The marker, or the node whose text it is part of.  The container is not anybody's child. *)
SearchBeginMarker(nodes) ==
    LET leaf  == FirstLeaf(nodes)
        first == FirstChild(Parent(nodes, leaf))
    IN IF MarkersIn(nodes, Begin) # {} THEN Min(MarkersIn(nodes, Begin))
       ELSE IF leaf # 0 /\ first # leaf THEN first
       ELSE IF (leaf = 0 \/ nodes[leaf].kind = "open") /\ IsComment(nodes, FirstChild(leaf))
       THEN FirstChild(leaf)
       ELSE leaf

SearchEndMarker(nodes) ==
    LET leaf == LastLeaf(nodes)
        last == LastChild(nodes, Parent(nodes, leaf))
    IN IF MarkersIn(nodes, End) # {} THEN Min(MarkersIn(nodes, End))
       ELSE IF leaf # 0 /\ last # leaf THEN last
       ELSE IF (leaf = 0 \/ nodes[leaf].kind = "open") /\ IsComment(nodes, LastChild(nodes, leaf))
       THEN LastChild(nodes, leaf)
       ELSE leaf

(*** the writer **************************************************************)

NewWriter == [pending |-> <<>>, chain |-> <<>>, comment |-> FALSE, nonClosed |-> 0]
Empty == Parse(<<>>)

Init ==
    /\ page \in Pages /\ pos = 0
    /\ document = Empty /\ writer = NewWriter /\ confused = FALSE

(* A tag that is not complete is kept for the next portion. *)
CutPending(html) ==
    LET starts == {i \in DOMAIN html :
                      /\ html[i] \in {"<", "</"}
                      /\ \A j \in (i + 1)..Len(html) : html[j] \notin {">", "-->"}
                      /\ i < Len(html) => html[i + 1] \in Names}
    IN IF starts = {} THEN [html |-> html, pending |-> <<>>]
       ELSE [html |-> SubSeq(html, 1, Min(starts) - 1), pending |-> SubSeq(html, Min(starts), Len(html))]

WrapHtmlChunk(html) ==
    FlattenSeq([i \in DOMAIN writer.chain |-> Tags(writer.chain[i])])
    \o (IF writer.comment THEN <<"<!--">> ELSE <<>>) \o <<Begin>> \o html \o <<End>>

After(data, marker) ==
    IF Contains(data, marker) THEN SubSeq(data, SelectLastInSeq(data, LAMBDA t : t = marker) + 1, Len(data))
    ELSE data
Before(data, marker) ==
    IF Contains(data, marker) THEN SubSeq(data, 1, SelectInSeq(data, LAMBDA t : t = marker) - 1) ELSE data

(* Mutated form: a tag that is cut off before its name is no closing tag. *)
PendingIsClosingTag(pending) == pending = <<"</", "s">>
PendingStartsWithClosingTag(pending) == pending \in {<<"</">>, <<"</", "s">>}

(* What the search finds, and what follows from it. *)
Found(nodes) ==
    LET begin == SearchBeginMarker(nodes)
        end   == SearchEndMarker(nodes)
        beginIn == nodes[begin].kind = "marker"
        endIn   == nodes[end].kind = "marker"
    IN [begin |-> begin, end |-> end, beginIn |-> beginIn, endIn |-> endIn,
        add |-> begin = end, closing |-> ~beginIn /\ begin # end]

(* The search took another node for the one with the marker; the end of the portion is in a  *)
(* comment and a tag is pending, at which the writer throws; a portion leads from a comment   *)
(* into a script, or back, and the ends are cut alike; a script's "less than" is taken for    *)
(* the begin of the pending tag, in which the begin of the closing tag is then lost.          *)
EndsAsClosingTag(html) == \E n \in {1, 2} : n < Len(html) /\ PendingStartsWithClosingTag(SubSeq(html, Len(html) - n + 1, Len(html)))

Fails(nodes, found, pending) ==
    \/ ~Contains(nodes[found.begin].data, Begin) \/ ~Contains(nodes[found.end].data, End)
    \/ IsComment(nodes, found.end) /\ pending # <<>>
    \/ ~found.beginIn /\ ~found.endIn /\ nodes[found.begin].kind # nodes[found.end].kind
    \/ ~found.endIn /\ EndsAsClosingTag(pending)

(* The tags that are open at the end of the portion. *)
UpdateParentTagChain(nodes, found) ==
    [i \in 1..Cardinality(Ancestors(nodes, found.end)) |-> "d"]
    \o (IF nodes[found.end].kind = "script" THEN <<"s">> ELSE <<>>)

Unclosed(nodes, i, data) ==
    [nodes EXCEPT ![i].data = data, ![i].unclosed = nodes[i].kind = "script"]

(* The content of a script that ends in this portion goes to the script of the document. *)
ProcessBeginMarkerInContent(nodes, found) ==
    IF found.beginIn THEN nodes
    ELSE LET script  == found.closing /\ nodes[found.begin].kind = "script"
             content == IF script THEN <<>> ELSE After(nodes[found.begin].data, Begin)
         IN InsertAt(Unclosed(nodes, found.begin, content), found.begin, Node("marker", <<Begin>>))

ProcessEndMarkerInContent(nodes, found, pending) ==
    IF found.endIn THEN nodes
    ELSE LET end     == found.end + (IF found.beginIn THEN 0 ELSE 1)
             content == Before(nodes[end].data, End)
                        \o (IF PendingStartsWithClosingTag(pending) THEN <<>> ELSE pending)
         IN InsertAt(Unclosed(nodes, end, content), end + 1, Node("marker", <<End>>))

ProcessScript(content) == IF content = <<>> THEN <<>> ELSE <<"P">> \o content

(* Scripts that are not marked as unclosed are processed with the other elements. *)
ProcessElements(nodes) ==
    [i \in DOMAIN nodes |-> IF nodes[i].kind = "script" /\ ~nodes[i].unclosed
                            THEN [nodes[i] EXCEPT !.data = ProcessScript(@)] ELSE nodes[i]]

RemoveOpeningTag(html) == SubSeq(html, SelectInSeq(html, LAMBDA t : t = ">") + 1, Len(html))
RemoveClosingTag(html) == SubSeq(html, 1, Len(html) - 3)

UnwrapHtmlChunk(html, found, comment) ==
    LET portion == Before(After(html, Begin), End)
        head    == IF found.beginIn THEN portion
                   ELSE IF comment THEN Tail(portion) ELSE RemoveOpeningTag(portion)
    IN IF found.endIn THEN head ELSE IF comment THEN Front(head) ELSE RemoveClosingTag(head)

(* The content of the document's script and of its end in the portion. *)
ContentForProcessing(nodes, found) ==
    IF found.closing /\ nodes[found.begin].kind = "script"
    THEN document.nodes[writer.nonClosed].data \o After(nodes[found.begin].data, Begin)
    ELSE <<>>

WithContent(content) ==
    IF content = <<>> THEN document
    ELSE [document EXCEPT !.nodes[writer.nonClosed].data = ProcessScript(content)]

WriteParsed(nodes, found, pending) ==
    LET comment  == writer.comment \/ (~found.add /\ IsComment(nodes, found.end))
        prepared == ProcessEndMarkerInContent(ProcessBeginMarkerInContent(nodes, found), found, pending)
        chunk    == UnwrapHtmlChunk(InnerHtml(ProcessElements(prepared)), found, comment)
    IN /\ document' = FoldLeft(Read, WithContent(ContentForProcessing(nodes, found)), chunk)
       /\ writer' = [pending |-> IF found.endIn \/ PendingStartsWithClosingTag(pending)
                                 THEN pending ELSE <<>>,
                     chain |-> IF found.add THEN writer.chain ELSE UpdateParentTagChain(nodes, found),
                     comment |-> comment /\ ~(~found.beginIn /\ found.endIn),
                     nonClosed |-> IF ~found.endIn /\ ~found.add THEN LastLeaf(Closed(document'))
                                   ELSE writer.nonClosed]

Write(n) ==
    LET cut   == CutPending(writer.pending \o SubSeq(page, pos + 1, pos + n))
        nodes == Closed(Parse(WrapHtmlChunk(cut.html)))
        found == Found(nodes)
    IN /\ pos' = pos + n
       /\ IF Fails(nodes, found, cut.pending)
          THEN confused' = TRUE /\ UNCHANGED <<document, writer>>
          ELSE WriteParsed(nodes, found, cut.pending) /\ UNCHANGED confused
       /\ UNCHANGED page

(* The page opens its document anew, or writes into one that is loaded: there is a new writer. *)
Open ==
    /\ pos' = 0 /\ document' = Empty /\ writer' = NewWriter
    /\ UNCHANGED <<page, confused>>

Next == ~confused /\ (\/ \E n \in 1..(Len(page) - pos) : Write(n)
                      \/ Open)

Spec == Init /\ [][Next]_vars

(*** properties **************************************************************)

IsOpen(i) == i = Len(document.nodes) /\ document.mode = "script"

(* However the page divides its HTML, after each portion the document is the one it would be  *)
(* without the proxy, apart from the code that is added to scripts; and a script is processed *)
(* as a whole and once, when its end is written.                                              *)
DocumentIsAsWritten ==
    LET theirs == Parse(SubSeq(page, 1, pos))
        Plain(node) == [node EXCEPT !.data = SelectSeq(node.data, LAMBDA t : t # "P")]
    IN ~confused =>
        /\ [i \in DOMAIN document.nodes |-> Plain(document.nodes[i])] = theirs.nodes
        /\ document.depth = theirs.depth /\ document.mode = theirs.mode
        /\ \A i \in DOMAIN document.nodes : document.nodes[i].kind = "script" =>
               LET data == document.nodes[i].data
               IN /\ \A k \in 2..Len(data) : data[k] # "P"
                  /\ data # <<>> => (data[1] = "P") = ~IsOpen(i)
===============================================================================
