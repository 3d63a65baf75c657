-------------------------------- MODULE ShadowUI --------------------------------
(***************************************************************************)
(* The shadow UI in the body of a page (client/sandbox/shadow-ui.ts): the  *)
(* root element of TestCafe's own interface, which is the last child of    *)
(* the body as far as the page lets it be, and which the page never sees.  *)
(* What the page puts at the end of its body goes in front of the root;    *)
(* bodies and document.body are marked, and of a marked body the page is   *)
(* shown its children without the root.                                    *)
(*                                                                         *)
(* One document and its body; own is the content that the body would have  *)
(* without a proxy.                                                        *)
(***************************************************************************)
EXTENDS Naturals, SequencesExt, FiniteSetsExt

CONSTANTS
    Elements,  \* elements that the page puts into its body
    Texts      \* text nodes

Root == "root"
Null == "null"
Nodes == Elements \cup Texts

VARIABLES
    chrome,    \* the browser: whether it is Chrome
    body,      \* the children of the body
    own,       \* the children that the page put there
    marked,    \* whether the body is marked as a container of the shadow UI
    inPage,    \* whether the body is in the document
    made,      \* whether the root was created
    loaded,    \* DOMContentLoaded was raised
    timer      \* a change of the body's content is to be handled

uiVars == <<chrome, body, own, marked, inPage, made, loaded, timer>>

Visible(s) == SelectSeq(s, LAMBDA n : n # Root)
Without(s, n) == SelectSeq(s, LAMBDA m : m # n)
ElementsOf(s) == SelectSeq(s, LAMBDA n : n \notin Texts)
IndexOf(s, n) == CHOOSE i \in DOMAIN s : s[i] = n
PutBefore(s, n, ref) == InsertAt(Without(s, n), IndexOf(Without(s, n), ref), n)
PutAfter(s, n, ref)  == InsertAt(Without(s, n), IndexOf(Without(s, n), ref) + 1, n)
Instead(s, n, old) == LET t == Without(s, n) IN [t EXCEPT ![IndexOf(t, old)] = n]

Init ==
    /\ chrome \in BOOLEAN
    /\ body = <<>> /\ own = <<>> /\ marked = TRUE /\ inPage = TRUE
    /\ made = FALSE /\ loaded = FALSE /\ timer = FALSE

-----------------------------------------------------------------------------
(* What the shadow UI does *)

RootLast(s) == Append(Without(s, Root), Root)

(* getRoot: the root is made, or put back into a body that does not have it.  Only Chrome    *)
(* marks a body that is not marked (GH-2418).                                                *)
WithRoot(s) == IF Root \in Range(s) THEN s ELSE Append(s, Root)
MarkedByGetRoot == marked \/ chrome

GetRoot ==
    /\ inPage
    /\ body' = WithRoot(body) /\ made' = TRUE /\ marked' = MarkedByGetRoot
    /\ UNCHANGED <<chrome, own, inPage, loaded, timer>>

(* onBodyElementMutation: elements after the root make it the last child again, text does    *)
(* not.                                                                                      *)
IsLast(s) == LET after == SubSeq(s, IndexOf(s, Root) + 1, Len(s)) IN ElementsOf(after) = <<>>
Mutated(s) == IF Root \in Range(s) /\ IsLast(s) THEN s ELSE RootLast(s)
OnBodyElementMutation(s, m) ==
    IF made THEN body' = Mutated(s) /\ marked' = TRUE ELSE body' = s /\ marked' = m

(* insertBeforeRoot: the root is the last node of all before (GH-2418). *)
BeforeRootWhereItIs(s, n) == PutBefore(WithRoot(s), n, Root)
InFrontOfRoot(s, n) ==
    LET t == WithRoot(s)
        last == IF Last(t) = Root THEN t ELSE RootLast(t)
    IN PutBefore(last, n, Root)

-----------------------------------------------------------------------------
(* What the page and the parser do *)

(* A script of the page is to be processed (processDom), or the page was parsed. *)
ProcessDom ==
    /\ inPage /\ ~loaded /\ OnBodyElementMutation(body, marked)
    /\ UNCHANGED <<chrome, own, inPage, made, loaded, timer>>
DOMContentLoaded ==
    /\ inPage /\ ~loaded /\ loaded' = TRUE /\ OnBodyElementMutation(body, marked)
    /\ UNCHANGED <<chrome, own, inPage, made, timer>>

Parsed(n) ==
    /\ inPage /\ ~loaded /\ n \notin Range(own)
    /\ body' = Append(body, n) /\ own' = Append(own, n)
    /\ UNCHANGED <<chrome, marked, inPage, made, loaded, timer>>

(* appendChild, append, insertBefore without a sibling, insertAdjacentElement and            *)
(* insertAdjacentText at the end.  A body without elements, or one that is not in the        *)
(* document, is left to the browser.                                                         *)
AppendNode(n) ==
    /\ own' = Append(Without(own, n), n)
    /\ IF inPage /\ ElementsOf(body) # <<>>
       THEN body' = InFrontOfRoot(body, n) /\ made' = TRUE /\ marked' = MarkedByGetRoot
       ELSE body' = Append(Without(body, n), n) /\ UNCHANGED <<made, marked>>
    /\ UNCHANGED <<chrome, inPage, loaded, timer>>

(* insertAdjacentHTML at the end is left to the browser. *)
InsertAdjacentHTML(n) ==
    /\ n \notin Range(own)
    /\ own' = Append(own, n) /\ body' = Append(body, n)
    /\ UNCHANGED <<chrome, marked, inPage, made, loaded, timer>>

(* prepend, insertBefore and after, with what the page sees as a sibling. *)
Prepend(n) ==
    /\ own' = <<n>> \o Without(own, n) /\ body' = <<n>> \o Without(body, n)
    /\ UNCHANGED <<chrome, marked, inPage, made, loaded, timer>>
InsertBefore(n, ref) ==
    /\ n # ref /\ ref \in Range(own)
    /\ own' = PutBefore(own, n, ref) /\ body' = PutBefore(body, n, ref)
    /\ UNCHANGED <<chrome, marked, inPage, made, loaded, timer>>
InsertAfter(n, ref) ==
    /\ n # ref /\ ref \in Range(own)
    /\ own' = PutAfter(own, n, ref) /\ body' = PutAfter(body, n, ref)
    /\ UNCHANGED <<chrome, marked, inPage, made, loaded, timer>>

(* removeChild and remove; replaceChild and replaceWith. *)
RemoveNode(n) ==
    /\ n \in Range(own) /\ own' = Without(own, n) /\ body' = Without(body, n)
    /\ UNCHANGED <<chrome, marked, inPage, made, loaded, timer>>
ReplaceNode(n, old) ==
    /\ n # old /\ old \in Range(own)
    /\ own' = Instead(own, n, old) /\ body' = Instead(body, n, old)
    /\ UNCHANGED <<chrome, marked, inPage, made, loaded, timer>>

(* innerHTML of the body: the root is put back at once, and once more by a timer. *)
SetInnerHTML(s) ==
    /\ inPage /\ own' = s
    /\ body' = WithRoot(s) /\ made' = TRUE /\ marked' = TRUE /\ timer' = TRUE
    /\ UNCHANGED <<chrome, inPage, loaded>>

(* textContent and innerText of the body take the root away. *)
SetText(n) ==
    /\ n \in Texts /\ own' = <<n>> /\ body' = <<n>>
    /\ UNCHANGED <<chrome, marked, inPage, made, loaded, timer>>

(* The body is replaced by a new one: replaceChild tells nobody, outerHTML a timer, and      *)
(* replaceWith, or appendChild where there is no body, tell at once.                         *)
ReplaceBody(s) ==
    /\ inPage /\ own' = s /\ body' = s /\ marked' = FALSE
    /\ UNCHANGED <<chrome, inPage, made, loaded, timer>>
SetOuterHTML(s) ==
    /\ inPage /\ own' = s /\ body' = s /\ marked' = FALSE /\ timer' = TRUE
    /\ UNCHANGED <<chrome, inPage, made, loaded>>
ReplaceBodyWith(s) ==
    /\ own' = s /\ OnBodyElementMutation(s, FALSE) /\ inPage' = TRUE
    /\ UNCHANGED <<chrome, made, loaded, timer>>

(* The body is taken out of the document and put back. *)
TakeBodyOut ==
    /\ inPage /\ inPage' = FALSE
    /\ UNCHANGED <<chrome, body, own, marked, made, loaded, timer>>
PutBodyBack ==
    /\ ~inPage /\ inPage' = TRUE /\ OnBodyElementMutation(body, marked)
    /\ UNCHANGED <<chrome, own, made, loaded, timer>>

(* onBodyContentChanged, or the timer of outerHTML. *)
BodyContentChanged ==
    /\ timer /\ timer' = FALSE
    /\ IF inPage THEN OnBodyElementMutation(body, marked) ELSE UNCHANGED <<body, marked>>
    /\ UNCHANGED <<chrome, own, inPage, made, loaded>>

(* document.open and write: a new body, which is marked when the document is closed. *)
DocumentWritten(s) ==
    /\ loaded /\ own' = s /\ body' = s /\ marked' = FALSE /\ inPage' = TRUE
    /\ UNCHANGED <<chrome, made, loaded, timer>>
DocumentClosed ==
    /\ inPage /\ marked' = TRUE
    /\ UNCHANGED <<chrome, body, own, inPage, made, loaded, timer>>

(* The page reads the number of children: elements of the shadow UI go to the end, so that   *)
(* what it reads by index afterwards is its own.                                             *)
HasUI(s) == \E i \in DOMAIN s : s[i] = Root
CheckElementsPosition(s) == IF HasUI(s) THEN RootLast(s) ELSE s
ReadLength ==
    /\ marked /\ body' = CheckElementsPosition(body)
    /\ UNCHANGED <<chrome, own, marked, inPage, made, loaded, timer>>

Contents == {<<>>} \cup {<<n>> : n \in Nodes}

Next ==
    \/ GetRoot \/ ProcessDom \/ DOMContentLoaded \/ BodyContentChanged \/ ReadLength
    \/ TakeBodyOut \/ PutBodyBack \/ DocumentClosed
    \/ \E n \in Nodes :
           \/ Parsed(n) \/ AppendNode(n) \/ InsertAdjacentHTML(n) \/ Prepend(n)
           \/ RemoveNode(n) \/ SetText(n)
           \/ \E m \in Nodes : InsertBefore(n, m) \/ InsertAfter(n, m) \/ ReplaceNode(n, m)
    \/ \E s \in Contents :
           SetInnerHTML(s) \/ ReplaceBody(s) \/ SetOuterHTML(s) \/ ReplaceBodyWith(s) \/ DocumentWritten(s)

Spec == Init /\ [][Next]_uiVars

TypeOK ==
    /\ IsInjective(body) /\ Range(body) \subseteq Nodes \cup {Root}
    /\ (Root \in Range(body)) => made
    /\ {chrome, marked, inPage, made, loaded, timer} \subseteq BOOLEAN

-----------------------------------------------------------------------------
(* What the page reads *)

At(s, i) == IF i \in DOMAIN s THEN s[i] ELSE Null
First(s) == At(s, 1)
Final(s) == At(s, Len(s))

FirstChild        == First(IF marked THEN Visible(body) ELSE body)
FirstElementChild == First(ElementsOf(IF marked THEN Visible(body) ELSE body))
LastChild         == Final(IF marked THEN Visible(body) ELSE body)
LastElementChild  == Final(ElementsOf(IF marked THEN Visible(body) ELSE body))
ChildCount        == Len(IF marked THEN Visible(body) ELSE body)

(* Siblings: the root is passed over, whatever is marked. *)
RECURSIVE NextFrom(_, _), PrevFrom(_, _)
NextFrom(s, i) == IF At(s, i) = Root THEN NextFrom(s, i + 1) ELSE At(s, i)
PrevFrom(s, i) == IF At(s, i) = Root THEN PrevFrom(s, i - 1) ELSE At(s, i)
NextSibling(n) == NextFrom(body, IndexOf(body, n) + 1)
PrevSibling(n) == PrevFrom(body, IndexOf(body, n) - 1)
NextElementSibling(n) == NextFrom(ElementsOf(body), IndexOf(ElementsOf(body), n) + 1)
PrevElementSibling(n) == PrevFrom(ElementsOf(body), IndexOf(ElementsOf(body), n) - 1)

(* querySelector of what every element matches. *)
QuerySelector ==
    LET all == ElementsOf(body)
    IN IF First(all) # Root THEN First(all) ELSE First(Visible(all))

(* Of browsers but Chrome, a body that came without notice may show the root until the       *)
(* next notice.                                                                              *)
Unmarked == ~chrome /\ ~marked

(* The page sees its own children of the body, in their order, and nothing of the shadow UI. *)
PageSeesItsOwn ==
    /\ Visible(body) = own
    /\ \/ Unmarked
       \/ /\ FirstChild = First(own) /\ LastChild = Final(own)
          /\ FirstElementChild = First(ElementsOf(own)) /\ LastElementChild = Final(ElementsOf(own))
          /\ ChildCount = Len(own)
          /\ \A i \in DOMAIN own : CheckElementsPosition(body)[i] = own[i]
    /\ QuerySelector = First(ElementsOf(own))
    /\ \A i \in DOMAIN own :
           /\ NextSibling(own[i]) = At(own, i + 1) /\ PrevSibling(own[i]) = At(own, i - 1)
           /\ own[i] \in Elements =>
                  LET es == ElementsOf(own) k == IndexOf(ElementsOf(own), own[i])
                  IN NextElementSibling(own[i]) = At(es, k + 1) /\ PrevElementSibling(own[i]) = At(es, k - 1)
===============================================================================
