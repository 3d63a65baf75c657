------------------------------ MODULE DragData ------------------------------
(***************************************************************************)
(* What a simulated drag carries (client/sandbox/event/drag-and-drop/):    *)
(* the DataTransfer that hammerhead gives to the page's handlers, since a  *)
(* browser makes none for events that are dispatched.  The page changes it *)
(* while the drag starts, and reads it, in part, from then on.             *)
(*                                                                         *)
(* theirs is the list as the HTML specification has it.                    *)
(***************************************************************************)
EXTENDS Naturals, Sequences, SequencesExt

CONSTANT MaxCalls   \* of the page that change the list

Formats == {"text", "url", "text/plain", "text/uri-list", "custom", "CUSTOM"}
Texts   == {"", "one", "many"}   \* many is a list of two URLs, one the first of them
File    == "a file"
All     == "all"                 \* the format of a call without one

VARIABLES
    mode,     \* of the DragDataStore
    items,    \* items and itemsData of the list: records of kind, type and data
    indexes,  \* the numbered properties of the list, from 1
    theirs,
    threw,    \* whether the last call threw, here and there
    odd,      \* TRUE when a call is one that the code is known to treat in another way
    calls     \* the number of calls

vars == <<mode, items, indexes, theirs, threw, odd, calls>>

Item(kind, type, data) == [kind |-> kind, type |-> type, data |-> data]
NoItem == Item("undefined", "undefined", "undefined")

TypeOK ==
    /\ mode \in {"readwrite", "readonly", "protected"}
    /\ \A i \in Range(items) \cup Range(theirs) :
        \/ i.kind = "file" /\ i.data = File
        \/ i.kind = "string" /\ i.type \in Formats /\ i.data \in Texts
    /\ odd \in BOOLEAN /\ calls \in 0..MaxCalls

Init ==
    /\ mode = "readwrite" /\ items = <<>> /\ indexes = <<>>
    /\ theirs = <<>> /\ threw = [here |-> FALSE, there |-> FALSE] /\ odd = FALSE /\ calls = 0

-----------------------------------------------------------------------------
(* The list *)

ToLowerCase(format) == IF format = "CUSTOM" THEN "custom" ELSE format

ProcessFormat(format) ==
    CASE format = "text" -> "text/plain"
      [] format = "url"  -> "text/uri-list"
      [] OTHER           -> format

OfType(list, type) == SelectSeq(list, LAMBDA i : i.kind = "string" /\ i.type = type)

(* The last one of the type.  That a URL was asked for is seen of the format when it has been *)
(* replaced, so that the whole list of URLs is read.                                          *)
GetItemData(list, format) ==
    LET same == OfType(list, ProcessFormat(format)) IN IF same = <<>> THEN "" ELSE Last(same).data

(* Mutated form: all of the type are removed but the first. *)
RemoveLater(list, format) ==
    LET same == OfType(list, ProcessFormat(format))
    IN IF Len(same) < 2 THEN list ELSE SelectSeq(list, LAMBDA i : i \notin Range(Tail(same)))
RemoveItem(list, format) ==
    LET same == OfType(list, ProcessFormat(format))
    IN IF same = <<>> THEN list ELSE RemoveFirst(list, Head(same))

(* Data that is empty is not found by its format. *)
AddString(list, data, type) ==
    LET found == GetItemData(list, ToLowerCase(type)) # ""
    IN Append(IF found THEN RemoveItem(list, ToLowerCase(type)) ELSE list,
              Item("string", ProcessFormat(type), data))
AddFile(list) == Append(list, Item("file", "null", File))

(* Mutated form: properties of items that are gone stay. *)
IndexesAdded(list) ==
    [i \in DOMAIN list \cup DOMAIN indexes |-> IF i \in DOMAIN list THEN list[i] ELSE indexes[i]]
UpdateIndexes(list) ==
    [i \in DOMAIN list \cup DOMAIN indexes |-> IF i \in DOMAIN list THEN list[i] ELSE NoItem]

-----------------------------------------------------------------------------
(* The specification of HTML *)

TheirRemove(list, type) == SelectSeq(list, LAMBDA i : ~(i.kind = "string" /\ i.type = type))
TheirType(format) == ProcessFormat(ToLowerCase(format))

-----------------------------------------------------------------------------
(* What the page calls *)

Writable == mode = "readwrite"

(* A call with what it makes of the list, here and there. *)
Call(list, their, throws, isOdd) ==
    /\ ~odd /\ calls < MaxCalls
    /\ calls' = calls + 1
    /\ odd' = (Writable /\ isOdd)
    /\ IF Writable
       THEN items' = list /\ indexes' = UpdateIndexes(list) /\ theirs' = their /\ threw' = throws
       ELSE UNCHANGED <<items, indexes, theirs>> /\ threw' = [here |-> FALSE, there |-> FALSE]
    /\ UNCHANGED mode

Silent == [here |-> FALSE, there |-> FALSE]
EmptyOf(type) == \E i \in Range(OfType(theirs, type)) : i.data = ""

SetData(format, data) ==
    Call(AddString(items, data, ToLowerCase(format)),
         Append(TheirRemove(theirs, TheirType(format)), Item("string", TheirType(format), data)),
         Silent, EmptyOf(TheirType(format)))

(* items.add of a text, which is not replaced. *)
Add(data, type) ==
    LET here  == GetItemData(items, ToLowerCase(type)) # ""
        there == OfType(theirs, ToLowerCase(type)) # <<>>
    IN Call(IF here THEN items ELSE AddString(items, data, type),
            IF there THEN theirs ELSE Append(theirs, Item("string", ToLowerCase(type), data)),
            [here |-> here, there |-> there],
            type # TheirType(type) \/ EmptyOf(type))

AddedFile == Call(AddFile(items), AddFile(theirs), Silent, FALSE)

(* Without a format, files go as well. *)
ClearData(format) ==
    IF format = All
    THEN Call(<<>>, SelectSeq(theirs, LAMBDA i : i.kind = "file"), Silent,
              \E i \in Range(theirs) : i.kind = "file")
    ELSE Call(RemoveItem(items, format), TheirRemove(theirs, TheirType(format)), Silent,
              format # ToLowerCase(format))

RemoveIndex(i) ==
    i \in DOMAIN items /\ Call(RemoveAt(items, i), RemoveAt(theirs, i), Silent, FALSE)
Clear == Call(<<>>, <<>>, Silent, FALSE)

(* The drag has begun, and comes to its end (the test runner's calls). *)
SetProtectedMode ==
    mode # "protected" /\ mode' = "protected"
        /\ UNCHANGED <<items, indexes, theirs, threw, odd, calls>>
SetReadOnlyMode ==
    mode # "readonly" /\ mode' = "readonly"
        /\ UNCHANGED <<items, indexes, theirs, threw, odd, calls>>

Next ==
    \/ \E f \in Formats, d \in Texts : SetData(f, d) \/ Add(d, f)
    \/ \E f \in Formats \cup {All} : ClearData(f)
    \/ \E i \in 1..MaxCalls : RemoveIndex(i)
    \/ AddedFile \/ Clear \/ SetProtectedMode \/ SetReadOnlyMode

Spec == Init /\ [][Next]_vars

-----------------------------------------------------------------------------
(* What the page reads *)

ActualItems == IF mode = "protected" THEN <<>> ELSE items
GetTypes(list) == [i \in DOMAIN list |-> list[i].type]
GetData(format) == GetItemData(ActualItems, ToLowerCase(format))

FirstUrl(data) == IF data = "many" THEN "one" ELSE data
TheirData(format) ==
    LET same == OfType(theirs, TheirType(format))
        data == IF same = <<>> \/ mode = "protected" THEN "" ELSE Last(same).data
    IN IF format = "url" THEN FirstUrl(data) ELSE data

(* However the page has filled the list, it reads of it what it would of a browser's, by     *)
(* index and by format, in each phase of the drag, and the same calls throw.  Of the first   *)
(* URL of several nothing is said, nor of the types in protected mode, which a browser tells *)
(* (data-transfer.ts, data-transfer-item-list.ts:57-129).                                    *)
DragCarriesItsData ==
    ~odd =>
        /\ threw.here = threw.there
        /\ items = theirs
        /\ \A i \in DOMAIN indexes : indexes[i] = IF i \in DOMAIN items THEN items[i] ELSE NoItem
        /\ DOMAIN items \subseteq DOMAIN indexes
        /\ GetTypes(ActualItems) = IF mode = "protected" THEN <<>> ELSE GetTypes(theirs)
        /\ \A f \in Formats : GetData(f) = TheirData(f) \/ (f = "url" /\ GetData(f) = "many")
=============================================================================
