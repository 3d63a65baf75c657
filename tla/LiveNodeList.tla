------------------------------ MODULE LiveNodeList ------------------------------
(***************************************************************************)
(* The collection that getElementsByTagName gives to a page                *)
(* (client/sandbox/node/live-node-list): a native live collection and a    *)
(* copy of it without the elements of the shadow UI.  The copy is made     *)
(* anew when the mutation tracker has a later version of the tag than the  *)
(* copy, so a change of the document that nobody tells the tracker of      *)
(* leaves it as it was.                                                    *)
(*                                                                         *)
(* One document and one collection; elements that have its tag, of the     *)
(* page and of the shadow UI.  The last read of the page is in answer, with *)
(* what a browser without a proxy would have answered.                     *)
(***************************************************************************)
EXTENDS Naturals, Integers, SequencesExt, FiniteSetsExt

CONSTANTS
    Elements,    \* elements of the page with the tag
    UIElements,  \* elements of the shadow UI with the tag
    Names,       \* values of the name attribute
    MaxVersion   \* bound: changes that the tracker is told of

NotTracked == -1   \* a tag that no collection asked for
Never      == -1   \* the version of a copy that was not made yet
Nothing    == "undefined"
NoName     == "no name"

VARIABLES
    nodes,   \* the elements with the tag that are in the document, in its order
    name,    \* name attributes, which stay
    tracker, \* [loaded, version]
    list,    \* [asked, version, items, native, getters]
    untold,  \* whether elements changed and nothing shows it
    answer   \* [got, want] of the last read

liveVars == <<nodes, name, tracker, list, untold, answer>>

Own(ns) == SelectSeq(ns, LAMBDA e : e \in Elements)
At(s, i) == IF i \in DOMAIN s THEN s[i] ELSE Nothing
NamedIn(s, n) == LET with == SelectSeq(s, LAMBDA e : name[e] = n) IN At(with, 1)
NoAnswer == [of |-> "none", got |-> Nothing, want |-> Nothing, within |-> TRUE]

(* onElementChanged, onChildrenChanged: elements of the shadow UI are not counted. *)
Told(es, t) ==
    IF t.version = NotTracked THEN t
    ELSE [t EXCEPT !.version = @ + Cardinality(es \cap Elements)]

OutdatedByTwo(l, t) == l.version + 1 < t.version
IsOutdated(l, t)    == l.version < t.version

(* _refreshCollection: asking the tracker makes it track the tag. *)
Tracked(t) == [t EXCEPT !.version = IF @ = NotTracked THEN 0 ELSE @]
Filtered(l, t) ==
    LET items == Own(nodes)
    IN [l EXCEPT !.version = t.version, !.items = items, !.getters = Len(items), !.native = Len(nodes)]
Refreshed(l, t) ==
    IF ~IsOutdated(l, t) /\ (t.loaded \/ l.native = Len(nodes))
    THEN [l EXCEPT !.native = Len(nodes)] ELSE Filtered(l, t)

Init ==
    /\ nodes = <<>> /\ untold = FALSE /\ answer = NoAnswer
    /\ name \in [Elements \cup UIElements -> Names \cup {NoName}]
    /\ tracker = [loaded |-> FALSE, version |-> NotTracked]
    /\ list = [asked |-> FALSE, version |-> Never, items |-> <<>>, native |-> 0, getters |-> 0]

CanTell == tracker.version < MaxVersion

(* The parser adds elements and tells nobody. *)
Parsed(e) ==
    /\ ~tracker.loaded /\ e \notin Range(nodes)
    /\ nodes' = Append(nodes, e)
    /\ answer' = NoAnswer /\ UNCHANGED <<name, tracker, list, untold>>

(* DOMContentLoaded *)
Loaded ==
    /\ ~tracker.loaded /\ CanTell
    /\ tracker' = [loaded |-> TRUE, version |-> IF tracker.version = NotTracked THEN NotTracked ELSE tracker.version + 1]
    /\ answer' = NoAnswer /\ UNCHANGED <<nodes, name, list, untold>>

(* appendChild, insertBefore and the like put an element into the document, removeChild and  *)
(* remove take it out.  While the page is parsed, one of the shadow UI that goes makes room   *)
(* for one that is parsed: the number of native elements stays what it was.                  *)
Insert(e, i) ==
    /\ CanTell /\ i \in 1..Len(nodes) + 1 /\ e \notin Range(nodes)
    /\ nodes' = InsertAt(nodes, i, e)
    /\ tracker' = Told({e}, tracker)
    /\ answer' = NoAnswer /\ UNCHANGED <<name, list, untold>>
RemoveElement(e) ==
    /\ CanTell /\ e \in Range(nodes)
    /\ nodes' = Remove(nodes, e)
    /\ tracker' = Told({e}, tracker)
    /\ untold' = (untold \/ (~tracker.loaded /\ e \in UIElements))
    /\ answer' = NoAnswer /\ UNCHANGED <<name, list>>
ReplaceChild(new, old) ==
    /\ CanTell /\ old \in Range(nodes) /\ new \notin Range(nodes)
    /\ nodes' = [i \in DOMAIN nodes |-> IF nodes[i] = old THEN new ELSE nodes[i]]
    /\ tracker' = Told({old}, Told({new}, tracker))
    /\ answer' = NoAnswer /\ UNCHANGED <<name, list, untold>>

(* innerHTML: the children that go and the ones that come are told; with textContent and     *)
(* innerText nothing comes.  The shadow UI is put back into the body.                        *)
SetInnerHTML(es) ==
    /\ CanTell /\ nodes' = SetToSeq(es) \o SelectSeq(nodes, LAMBDA e : e \in UIElements)
    /\ tracker' = Told(es, Told(Range(nodes), tracker))
    /\ answer' = NoAnswer /\ UNCHANGED <<name, list, untold>>

(* A row or a cell is inserted, or an element is appended to one that is not in the document. *)
InsertRow(e) ==
    /\ e \notin Range(nodes) /\ e \in Elements
    /\ nodes' = Append(nodes, e) /\ untold' = TRUE
    /\ answer' = NoAnswer /\ UNCHANGED <<name, tracker, list>>
MoveOut(e) ==
    /\ e \in Range(nodes) /\ e \in Elements
    /\ nodes' = Remove(nodes, e) /\ untold' = TRUE
    /\ answer' = NoAnswer /\ UNCHANGED <<name, tracker, list>>

(* getElementsByTagName *)
Ask ==
    /\ tracker' = Tracked(tracker)
    /\ list' = Refreshed([list EXCEPT !.asked = TRUE], tracker')
    /\ answer' = NoAnswer /\ UNCHANGED <<nodes, name, untold>>

(* The page reads the collection. *)
Read(of, got(_), want, within) ==
    /\ list.asked /\ list' = Refreshed(list, tracker)
    /\ answer' = [of |-> of, got |-> got(list'), want |-> want, within |-> within]
    /\ UNCHANGED <<nodes, name, tracker, untold>>

ReadLength == Read("length", LAMBDA l : Len(l.items), Len(Own(nodes)), TRUE)
ReadItem(i) == Read("item", LAMBDA l : At(l.items, i), At(Own(nodes), i), TRUE)

(* Beyond the getters that the collection has its prototype has getters that return nothing. *)
ReadIndex(i) ==
    Read("index", LAMBDA l : IF i <= list.getters THEN At(l.items, i) ELSE Nothing, At(Own(nodes), i),
         i <= list.getters)

(* The native collection is asked for a name: what it finds first is not given if it is of   *)
(* the shadow UI.                                                                            *)
ReadNamedItem(n) ==
    Read("namedItem", LAMBDA l : IF NamedIn(nodes, n) \in UIElements THEN Nothing ELSE NamedIn(nodes, n),
         NamedIn(Own(nodes), n), NamedIn(nodes, n) \notin UIElements)
All == Elements \cup UIElements

Step ==
    \/ Loaded \/ Ask \/ ReadLength
    \/ \E e \in All : \/ Parsed(e) \/ RemoveElement(e) \/ InsertRow(e) \/ MoveOut(e)
                      \/ \E i \in 1..Cardinality(All) : Insert(e, i)
                      \/ \E old \in Elements : ReplaceChild(e, old)
    \/ \E es \in SUBSET Elements : SetInnerHTML(es)
    \/ \E i \in 1..Cardinality(Elements) : ReadItem(i) \/ ReadIndex(i)
    \/ \E n \in Names : ReadNamedItem(n)

(* The model ends at a change that nothing shows. *)
Next == ~untold /\ Step
Spec == Init /\ [][Next]_liveVars

TypeOK ==
    /\ nodes \in Seq(All) /\ IsInjective(nodes)
    /\ tracker.version \in NotTracked..MaxVersion + Cardinality(All)
    /\ Range(list.items) \subseteq Elements

-----------------------------------------------------------------------------
(* What the page reads of the collection is what it would read without a proxy: no element   *)
(* of the shadow UI and the elements that are there now, unless they changed in a way the    *)
(* tracker is not told of, or it reads past the getters that were made at the last refresh.  *)
CollectionIsLive == answer.got = answer.want \/ untold \/ ~answer.within
===============================================================================
