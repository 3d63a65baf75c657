------------------------------- MODULE Storages -------------------------------
(***************************************************************************)
(* A storage area of a page (client/sandbox/storages): localStorage or     *)
(* sessionStorage of a host.  The windows of the host in one tab share a   *)
(* wrapper, which is loaded from a native storage item when the page is    *)
(* opened and saved to it when the page is left.  The wrapper tells the    *)
(* windows of changes by simulated storage events; a handler may itself    *)
(* change the storage while the others are still to be told.               *)
(***************************************************************************)
EXTENDS Naturals, Sequences, SequencesExt

CONSTANTS
    Windows,     \* the windows of the host, in the order they were attached
    ItemKeys, ItemValues, NoValue,
    MaxWrites    \* bound on the changes between two page loads

Stores  == [ItemKeys -> ItemValues \cup {NoValue}]
Empty   == [k \in ItemKeys |-> NoValue]
AllKeys == "all"       \* the key of clear()
Changes == [key : ItemKeys, old : ItemValues \cup {NoValue}, new : ItemValues \cup {NoValue}]
           \cup {[key |-> AllKeys]}

VARIABLES
    area,    \* the wrapper and the native item, see Init
    calls,   \* checkStorageChanged and clear, the innermost last
    mirror,  \* history: the storage as a window knows it from its writes and events
    crossed, \* history: keys that were changed while windows were being told of them
    missed   \* history: keys that were changed while a window, the context, was not to be told

vars == <<area, calls, mirror, crossed, missed>>

(* A call raises the changes it has found one after the other; next is the listener to be    *)
(* told of change, handler the window whose handler runs.  clear() does not set lastState    *)
(* when it is done, it has done so before.                                                   *)
NoChange == [key |-> "none"]
Call(changes, kind) ==
    [changes |-> changes, change |-> NoChange, next |-> 1, handler |-> NoValue, kind |-> kind]

WindowSet == ToSet(Windows)

NothingMissed == [w \in WindowSet |-> {}]

(* The keys are not the marks that stand for all keys and for no change. *)
AreaConstants ==
    /\ Windows \in Seq(WindowSet) /\ Windows # <<>> /\ MaxWrites \in Nat
    /\ AllKeys \notin ItemKeys /\ NoChange.key \notin ItemKeys

ASSUME AreaAssumption == AreaConstants

TypeOK ==
    /\ area \in [native : Stores, store : Stores, last : Stores, backup : Stores,
                 ctx : WindowSet, locked : BOOLEAN, hasBackup : BOOLEAN,
                 page : {"open", "left"}, writes : 0..MaxWrites]
    /\ calls \in Seq([changes : SUBSET Changes, change : Changes \cup {NoChange}, next : Nat \ {0},
                     handler : WindowSet \cup {NoValue}, kind : {"check", "clear"}])
    /\ mirror \in [WindowSet -> Stores]
    /\ crossed \subseteq ItemKeys /\ missed \in [WindowSet -> SUBSET ItemKeys]

Init ==
    /\ area = [native |-> Empty, store |-> Empty, last |-> Empty, backup |-> Empty,
               ctx |-> Windows[1], locked |-> FALSE, hasBackup |-> FALSE,
               page |-> "open", writes |-> 0]
    /\ calls = <<>>
    /\ mirror = [w \in WindowSet |-> Empty]
    /\ crossed = {} /\ missed = NothingMissed

-----------------------------------------------------------------------------
(* The wrapper *)

(* What checkStorageChanged finds, for the keys of lastState and then for the new ones.  The *)
(* mutated form does not look for keys that are gone.                                        *)
Changed(last, store, keys) ==
    {[key |-> k, old |-> last[k], new |-> store[k]] : k \in {k \in keys : last[k] # store[k]}}
DiffWithoutRemoved(last, store) == Changed(last, store, {k \in ItemKeys : store[k] # NoValue})
Diff(last, store)               == Changed(last, store, ItemKeys)

CheckStorageChanged(last, store) == Call(Diff(last, store), "check")

(* The window whose code runs: any window if nothing is being told, else the handler's.      *)
Running(w) ==
    /\ area.page = "open"
    /\ IF calls = <<>> THEN TRUE ELSE Last(calls).handler = w

Known(w, k, v) == [mirror EXCEPT ![w][k] = v]

(* A call that has not ended has found, or will find, a change of the key. *)
BeingTold(k) ==
    \/ area.last[k] # area.store[k]
    \/ \E i \in DOMAIN calls : \E c \in calls[i].changes \cup {calls[i].change} : c.key \in {k, AllKeys}

(* The getter of the area: its window is the context until another window reads it.  What    *)
(* the window is still to be told of passes it by.                                           *)
Access(w) ==
    /\ Running(w)
    /\ area' = [area EXCEPT !.ctx = w]
    /\ missed' = [missed EXCEPT ![w] = @ \cup {k \in ItemKeys : mirror[w][k] # area.store[k]}]
    /\ UNCHANGED <<calls, mirror, crossed>>

(* Another window than the context changed keys. *)
Missing(w, keys) ==
    [u \in WindowSet |-> IF u = w THEN missed[u] \ keys
                         ELSE IF u = area.ctx THEN missed[u] \cup keys ELSE missed[u]]

(* setItem and removeItem, to which the proxy turns assignment and delete.  A window may have *)
(* obtained the area, or got it with an event, at any time before, so that it need not be     *)
(* the context.                                                                               *)
SetItem(w, k, v) ==
    LET store == [area.store EXCEPT ![k] = v] IN
    /\ Running(w) /\ area.writes < MaxWrites
    /\ area' = [area EXCEPT !.store = store, !.writes = @ + 1]
    /\ calls' = Append(calls, CheckStorageChanged(area.last, store))
    /\ mirror' = Known(w, k, v)
    /\ crossed' = IF BeingTold(k) THEN crossed \cup {k}
                  ELSE IF area.store[k] # v THEN crossed \ {k} ELSE crossed
    /\ missed' = Missing(w, IF area.store[k] # v THEN {k} ELSE {})

(* clear(); the mutated form leaves lastState for checkStorageChanged to find. *)
ClearedKeepingLast(a) == [a EXCEPT !.store = Empty]
ClearStorage(a) == [a EXCEPT !.store = Empty, !.last = Empty]

Clear(w) ==
    /\ Running(w) /\ area.store # Empty /\ area.writes < MaxWrites
    /\ area' = [ClearStorage(area) EXCEPT !.writes = @ + 1]
    /\ calls' = Append(calls, Call({[key |-> AllKeys]}, "clear"))
    /\ mirror' = [mirror EXCEPT ![w] = Empty]
    /\ crossed' = {k \in ItemKeys : BeingTold(k)}
    /\ missed' = Missing(w, ItemKeys)

-----------------------------------------------------------------------------
Innermost(call) == [calls EXCEPT ![Len(calls)] = call]

(* Events.  Keys of lastState come before new ones. *)
Raise ==
    /\ calls # <<>>
    /\ LET call == Last(calls) IN
       /\ call.change = NoChange
       /\ \E c \in call.changes :
           /\ (c.key # AllKeys /\ c.old = NoValue) =>
                \A d \in call.changes : d.old = NoValue
           /\ calls' = Innermost([call EXCEPT !.change = c, !.changes = @ \ {c}, !.next = 1])
    /\ UNCHANGED <<area, mirror, crossed, missed>>

Learned(w, c) ==
    IF c.key = AllKeys THEN [mirror EXCEPT ![w] = Empty] ELSE Known(w, c.key, c.new)

KeysOf(c) == IF c.key = AllKeys THEN ItemKeys ELSE {c.key}

(* _simulateStorageEvent: every window is told, but for the one that read its getter of the  *)
(* area last.  Its handler runs until the next listener is called.                           *)
TellNext ==
    /\ calls # <<>>
    /\ LET call == Last(calls) IN
       /\ call.change # NoChange
       /\ IF call.next > Len(Windows)
          THEN /\ calls' = Innermost([call EXCEPT !.change = NoChange, !.handler = NoValue])
               /\ UNCHANGED <<mirror, missed>>
          ELSE LET w == Windows[call.next] told == area.ctx # w IN
               /\ calls' = Innermost([call EXCEPT !.next = @ + 1,
                                                  !.handler = IF told THEN w ELSE NoValue])
               /\ mirror' = IF told THEN Learned(w, call.change) ELSE mirror
               /\ missed' = IF told THEN [missed EXCEPT ![w] = @ \ KeysOf(call.change)] ELSE missed
    /\ UNCHANGED <<area, crossed>>

Return ==
    /\ calls # <<>>
    /\ LET call == Last(calls) IN
       /\ call.change = NoChange /\ call.changes = {}
       /\ area' = IF call.kind = "check" THEN [area EXCEPT !.last = area.store] ELSE area
    /\ calls' = Front(calls)
    /\ UNCHANGED <<mirror, crossed, missed>>

-----------------------------------------------------------------------------
(* The life of the page *)

Idle == area.page = "open" /\ calls = <<>>

(* saveToNativeStorages, when a navigation is noticed and at unload; the mutated form drops  *)
(* what was written after the first time.                                                    *)
SavedIfEmpty(a) ==
    IF a.locked \/ a.native # Empty THEN a ELSE [a EXCEPT !.native = a.store]
SaveToNativeStorages(a) == IF a.locked THEN a ELSE [a EXCEPT !.native = a.store]

NavigationTriggered ==
    /\ Idle
    /\ area' = SaveToNativeStorages(area)
    /\ UNCHANGED <<calls, mirror, crossed, missed>>

Unload ==
    /\ Idle
    /\ area' = [SaveToNativeStorages(area) EXCEPT !.page = "left"]
    /\ UNCHANGED <<calls, mirror, crossed, missed>>

(* _createStorageWrappers in the top window: the wrapper is loaded, all windows begin anew. *)
Open ==
    /\ area.page = "left"
    /\ area' = [area EXCEPT !.store = area.native, !.last = area.native, !.page = "open",
                            !.ctx = Windows[1], !.locked = FALSE, !.writes = 0]
    /\ mirror' = [w \in WindowSet |-> area.native]
    /\ crossed' = {} /\ missed' = NothingMissed
    /\ UNCHANGED calls

(* What the test runner does: backup, restore (of which nobody is told) and lock. *)
Backup ==
    /\ Idle
    /\ area' = [area EXCEPT !.backup = area.store, !.hasBackup = TRUE]
    /\ UNCHANGED <<calls, mirror, crossed, missed>>

(* clearStorage and loadStorage. *)
Restore ==
    /\ Idle /\ area.hasBackup
    /\ area' = [ClearStorage(area) EXCEPT !.store = area.backup, !.last = area.backup]
    /\ mirror' = [w \in WindowSet |-> area.backup]
    /\ crossed' = {} /\ missed' = NothingMissed
    /\ UNCHANGED calls

Lock ==
    /\ Idle /\ ~area.locked
    /\ area' = [area EXCEPT !.locked = TRUE]
    /\ UNCHANGED <<calls, mirror, crossed, missed>>

(* clear() of the sandbox: the native item goes, the open page does not see it. *)
ClearNative ==
    /\ Idle
    /\ area' = [area EXCEPT !.native = Empty]
    /\ UNCHANGED <<calls, mirror, crossed, missed>>

Next ==
    \/ \E w \in WindowSet, k \in ItemKeys, v \in ItemValues \cup {NoValue} :
        SetItem(w, k, v)
    \/ \E w \in WindowSet : Access(w) \/ Clear(w)
    \/ Raise \/ TellNext \/ Return
    \/ NavigationTriggered \/ Unload \/ Open \/ Backup \/ Restore \/ Lock \/ ClearNative

Spec == Init /\ [][Next]_vars

-----------------------------------------------------------------------------
(* When no event is under way, every window knows every key of the storage from its own      *)
(* writes and the events it got, whatever its handlers changed.  There are two exceptions.   *)
(* A key that is changed while windows are being told of it may be told of in the wrong      *)
(* order.  And the window that read its getter last is not told of what another one changes  *)
(* through an area it obtained before, nor, if it read it in a handler, of what it was still *)
(* to be told of.                                                                            *)
WindowsAreTold ==
    calls = <<>> =>
        \A w \in WindowSet, k \in ItemKeys :
            mirror[w][k] = area.store[k] \/ k \in crossed \/ k \in missed[w]

(* When no event is under way every change has been found: the timer that calls              *)
(* checkStorageChanged every 10 ms has nothing to tell that would come late.                 *)
NothingUntold == calls = <<>> => area.last = area.store

(* The windows know the storage: every change has been found, and every window was told.     *)
WindowsKnowTheStorage == WindowsAreTold /\ NothingUntold

(* The wrapper implements a storage that keeps its contents, also while the page is away and *)
(* the native item has them.                                                                 *)
Plain == INSTANCE PlainStorage WITH
    view   <- IF area.page = "left" THEN area.native ELSE area.store,
    backup <- area.backup,
    locked <- area.locked /\ area.page = "open"

StorageKeepsItsContents == Plain!Spec
===============================================================================
