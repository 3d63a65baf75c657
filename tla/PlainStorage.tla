----------------------------- MODULE PlainStorage -----------------------------
(***************************************************************************)
(* What a page may expect of a storage area: it holds what the page put    *)
(* there, across reloads, until the test runner replaces its contents.     *)
(***************************************************************************)
CONSTANTS
    ItemKeys,
    ItemValues,
    NoValue   \* what getItem returns for a key that is not there

VARIABLES
    view,    \* what the page reads
    backup,  \* what the test runner has set aside
    locked   \* the test runner keeps the area from being saved

vars == <<view, backup, locked>>

Areas == [ItemKeys -> ItemValues \cup {NoValue}]
Empty == [k \in ItemKeys |-> NoValue]

Init == view = Empty /\ backup = Empty /\ locked = FALSE

Put(k, v) == view' = [view EXCEPT ![k] = v] /\ UNCHANGED <<backup, locked>>
Clear     == view' = Empty /\ UNCHANGED <<backup, locked>>

Backup    == backup' = view /\ UNCHANGED <<view, locked>>
Restore   == view' = backup /\ UNCHANGED <<backup, locked>>
Lock      == locked' = TRUE /\ UNCHANGED <<view, backup>>
Drop      == locked /\ locked' = FALSE /\ view' \in Areas /\ UNCHANGED backup

Next ==
    \/ \E k \in ItemKeys, v \in ItemValues \cup {NoValue} : Put(k, v)
    \/ Clear \/ Backup \/ Restore \/ Lock \/ Drop

Spec == Init /\ [][Next]_vars
===============================================================================
