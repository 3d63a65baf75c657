--------------------------- MODULE Storages_proofs ---------------------------
(***************************************************************************)
(* Proofs about Storages for any windows, keys, values and writes: the     *)
(* wrapper implements the plain storage, every change is found before the  *)
(* outermost call ends, and a window that does not know the value of a key *)
(* is still to be told of a change of the key.                             *)
(***************************************************************************)
EXTENDS Storages, TLAPS, SequenceTheorems

Calls == [changes : SUBSET Changes, change : Changes \cup {NoChange}, next : Nat \ {0},
          handler : WindowSet \cup {NoValue}, kind : {"check", "clear"}]

(* A call of the storage handlers is made of changes. *)
LEMMA CallType ==
    ASSUME NEW changes \in SUBSET Changes, NEW kind \in {"check", "clear"}
    PROVE  Call(changes, kind) \in Calls
BY DEF Call, Calls

(* Comparing two stores yields changes, and one for every key whose value differs. *)
LEMMA DiffType ==
    ASSUME NEW last \in Stores, NEW store \in Stores
    PROVE  /\ Diff(last, store) \subseteq Changes
           /\ \A c \in Diff(last, store) : c.key \in ItemKeys /\ c.new = store[c.key]
           /\ \A k \in ItemKeys : last[k] # store[k] => \E c \in Diff(last, store) : c.key = k
<1>1. \A k \in ItemKeys : last[k] \in ItemValues \cup {NoValue} /\ store[k] \in ItemValues \cup {NoValue}
  BY DEF Stores
<1>2. \A c : c \in Diff(last, store) <=>
        \E k \in ItemKeys : last[k] # store[k] /\ c = [key |-> k, old |-> last[k], new |-> store[k]]
  BY DEF Diff, Changed
<1>3. \A k \in ItemKeys : [key |-> k, old |-> last[k], new |-> store[k]] \in Changes
  BY <1>1 DEF Changes
<1>4. Diff(last, store) \subseteq Changes
  BY <1>2, <1>3
<1>5. \A c \in Diff(last, store) : c.key \in ItemKeys /\ c.new = store[c.key]
  BY <1>2
<1>6. ASSUME NEW k \in ItemKeys, last[k] # store[k]
      PROVE  \E c \in Diff(last, store) : c.key = k
  <2> DEFINE c == [key |-> k, old |-> last[k], new |-> store[k]]
  <2>1. c \in Diff(last, store)
    BY <1>2, <1>6
  <2> QED
    BY <2>1
<1> QED
  BY <1>4, <1>5, <1>6

(* Setting or removing an item of a store gives a store. *)
LEMMA StoreType ==
    /\ Empty \in Stores
    /\ \A s \in Stores, k \in ItemKeys, v \in ItemValues \cup {NoValue} : [s EXCEPT ![k] = v] \in Stores
BY DEF Empty, Stores

(* A call pushed on the stack. *)
LEMMA PushType ==
    ASSUME NEW c \in Calls, NEW q \in Seq(Calls)
    PROVE  /\ Append(q, c) \in Seq(Calls)
           /\ Len(Append(q, c)) = Len(q) + 1 /\ DOMAIN Append(q, c) = 1 .. Len(q) + 1
           /\ \A i \in DOMAIN q : Append(q, c)[i] = q[i]
           /\ Append(q, c)[Len(q) + 1] = c
OBVIOUS

(* A call popped from the stack. *)
LEMMA PopType ==
    ASSUME NEW q \in Seq(Calls), q # <<>>
    PROVE  /\ Last(q) = q[Len(q)] /\ Len(q) \in DOMAIN q /\ q[Len(q)] \in Calls
           /\ Front(q) \in Seq(Calls) /\ DOMAIN Front(q) = 1 .. Len(q) - 1
           /\ \A i \in 1 .. Len(q) - 1 : Front(q)[i] = q[i]
BY DEF Last, Front

(* The call on top of the stack replaced. *)
LEMMA TopType ==
    ASSUME NEW q \in Seq(Calls), q # <<>>, NEW c \in Calls
    PROVE  /\ [q EXCEPT ![Len(q)] = c] \in Seq(Calls)
           /\ Len([q EXCEPT ![Len(q)] = c]) = Len(q)
           /\ DOMAIN [q EXCEPT ![Len(q)] = c] = DOMAIN q
           /\ [q EXCEPT ![Len(q)] = c][Len(q)] = c
           /\ \A i \in DOMAIN q : i # Len(q) => [q EXCEPT ![Len(q)] = c][i] = q[i]
OBVIOUS

Wrappers == [native : Stores, store : Stores, last : Stores, backup : Stores,
             ctx : WindowSet, locked : BOOLEAN, hasBackup : BOOLEAN,
             page : {"open", "left"}, writes : 0..MaxWrites]

(* Saving or clearing a wrapper gives a wrapper. *)
LEMMA SavedType ==
    ASSUME NEW a \in Wrappers
    PROVE  /\ SaveToNativeStorages(a) \in Wrappers
           /\ ClearStorage(a) \in Wrappers
BY StoreType DEF Wrappers, SaveToNativeStorages, ClearStorage

(* Raising and telling change the innermost call only. *)
LEMMA RaiseStep ==
    ASSUME TypeOK, Raise
    PROVE  /\ calls \in Seq(Calls) /\ calls # <<>> /\ Last(calls) = calls[Len(calls)]
           /\ UNCHANGED <<area, mirror, crossed, missed>>
           /\ \E call \in Calls, c \in Last(calls).changes :
                /\ calls' = [calls EXCEPT ![Len(calls)] = call]
                /\ call.changes = Last(calls).changes \ {c} /\ call.change = c
                /\ call.next = 1 /\ call.kind = Last(calls).kind
<1>1. PICK c \in Last(calls).changes :
        calls' = Innermost([Last(calls) EXCEPT !.change = c, !.changes = @ \ {c}, !.next = 1])
  BY DEF Raise
<1>2. calls \in Seq(Calls) /\ calls # <<>>
  BY DEF Raise, TypeOK, Calls
<1>3. Last(calls) \in Calls /\ Last(calls) = calls[Len(calls)]
  BY <1>2, PopType
<1> DEFINE call == [Last(calls) EXCEPT !.change = c, !.changes = @ \ {c}, !.next = 1]
<1>4. c \in Changes /\ Last(calls).changes \ {c} \in SUBSET Changes /\ 1 \in Nat \ {0}
  BY <1>3 DEF Calls
<1>5. call \in Calls
  BY <1>3, <1>4 DEF Calls
<1>6. /\ call.changes = Last(calls).changes \ {c} /\ call.change = c
      /\ call.next = 1 /\ call.kind = Last(calls).kind
  BY <1>3 DEF Calls
<1>7. calls' = [calls EXCEPT ![Len(calls)] = call]
  BY <1>1 DEF Innermost
<1>8. UNCHANGED <<area, mirror, crossed, missed>>
  BY DEF Raise
<1> HIDE DEF call
<1> QED
  BY <1>2, <1>3, <1>5, <1>6, <1>7, <1>8

(* What a window was told of is not missed. *)
Heard(w, c) == [missed EXCEPT ![w] = @ \ KeysOf(c)]

(* A window is told of the change the top call is emitting. *)
LEMMA TellStep ==
    ASSUME AreaConstants, TypeOK, TellNext
    PROVE  /\ calls \in Seq(Calls) /\ calls # <<>> /\ Last(calls) = calls[Len(calls)]
           /\ Last(calls).change \in Changes
           /\ UNCHANGED <<area, crossed>>
           /\ \E call \in Calls :
                /\ calls' = [calls EXCEPT ![Len(calls)] = call]
                /\ call.changes = Last(calls).changes /\ call.kind = Last(calls).kind
                /\ \/ /\ Last(calls).next > Len(Windows)
                      /\ call.change = NoChange /\ UNCHANGED <<mirror, missed>>
                   \/ /\ Last(calls).next \in DOMAIN Windows
                      /\ call.change = Last(calls).change
                      /\ call.next = Last(calls).next + 1
                      /\ mirror' = IF area.ctx # Windows[Last(calls).next]
                                   THEN Learned(Windows[Last(calls).next], call.change)
                                   ELSE mirror
                      /\ missed' = IF area.ctx # Windows[Last(calls).next]
                                   THEN Heard(Windows[Last(calls).next], call.change)
                                   ELSE missed
<1>1. calls \in Seq(Calls) /\ calls # <<>> /\ UNCHANGED <<area, crossed>>
  BY DEF TellNext, TypeOK, Calls
<1>2. Last(calls) \in Calls /\ Last(calls) = calls[Len(calls)]
  BY <1>1, PopType
<1>3. Last(calls).change \in Changes /\ Last(calls).next \in Nat \ {0}
  BY <1>2 DEF TellNext, Calls
<1>4. CASE Last(calls).next > Len(Windows)
  <2> DEFINE call == [Last(calls) EXCEPT !.change = NoChange, !.handler = NoValue]
  <2>1. calls' = [calls EXCEPT ![Len(calls)] = call] /\ UNCHANGED <<mirror, missed>>
    BY <1>4 DEF TellNext, Innermost
  <2>2. call \in Calls
    BY <1>2 DEF Calls
  <2>3. /\ call.changes = Last(calls).changes /\ call.kind = Last(calls).kind
        /\ call.change = NoChange
    BY <1>2 DEF Calls
  <2> HIDE DEF call
  <2> QED
    BY <1>1, <1>2, <1>3, <1>4, <2>1, <2>2, <2>3
<1>5. CASE ~(Last(calls).next > Len(Windows))
  <2> DEFINE w == Windows[Last(calls).next]
             h == IF area.ctx # w THEN w ELSE NoValue
             call == [Last(calls) EXCEPT !.next = @ + 1, !.handler = h]
  <2>1. Last(calls).next \in DOMAIN Windows /\ w \in WindowSet
    BY <1>3, <1>5 DEF AreaConstants
  <2>2. h \in WindowSet \cup {NoValue} /\ Last(calls).next + 1 \in Nat \ {0}
    BY <2>1, <1>3
  <2>3. /\ calls' = [calls EXCEPT ![Len(calls)] = call]
        /\ mirror' = IF area.ctx # w THEN Learned(w, Last(calls).change) ELSE mirror
        /\ missed' = IF area.ctx # w THEN Heard(w, Last(calls).change) ELSE missed
    BY <1>5 DEF TellNext, Innermost, Heard
  <2> HIDE DEF h
  <2>4. call \in Calls
    BY <1>2, <2>2 DEF Calls
  <2>5. /\ call.changes = Last(calls).changes /\ call.kind = Last(calls).kind
        /\ call.change = Last(calls).change /\ call.next = Last(calls).next + 1
    BY <1>2 DEF Calls
  <2> HIDE DEF call
  <2> QED
    BY <1>1, <1>2, <1>3, <2>1, <2>3, <2>4, <2>5
<1> QED
  BY <1>4, <1>5

(* The initial states are well typed. *)
LEMMA TypeInit ==
    ASSUME AreaConstants, Init
    PROVE  TypeOK
<1>1. Windows[1] \in WindowSet
  BY DEF AreaConstants
<1>2. area \in Wrappers
  BY <1>1, StoreType DEF Init, Wrappers, AreaConstants
<1>3. /\ mirror \in [WindowSet -> Stores] /\ crossed \subseteq ItemKeys
      /\ missed \in [WindowSet -> SUBSET ItemKeys]
  BY StoreType DEF Init, NothingMissed
<1> QED
  BY <1>2, <1>3 DEF TypeOK, Wrappers, Init

(* Every step keeps the types. *)
LEMMA TypeStep ==
    ASSUME AreaConstants, TypeOK, [Next]_vars
    PROVE  TypeOK'
<1> USE DEF AreaConstants
<1>t. /\ area \in Wrappers /\ calls \in Seq(Calls) /\ mirror \in [WindowSet -> Stores]
      /\ crossed \subseteq ItemKeys /\ missed \in [WindowSet -> SUBSET ItemKeys]
  BY DEF TypeOK, Wrappers, Calls
<1>g. ASSUME area' \in Wrappers, calls' \in Seq(Calls), mirror' \in [WindowSet -> Stores],
             crossed' \subseteq ItemKeys, missed' \in [WindowSet -> SUBSET ItemKeys]
      PROVE  TypeOK'
  BY <1>g DEF TypeOK, Wrappers, Calls
<1> HIDE DEF AreaConstants
<1>k. ASSUME NEW w \in WindowSet, NEW k \in ItemKeys, NEW v \in ItemValues \cup {NoValue}
      PROVE  Known(w, k, v) \in [WindowSet -> Stores]
  BY <1>t, StoreType DEF Known
<1>m. ASSUME NEW w \in WindowSet, NEW keys \in SUBSET ItemKeys
      PROVE  Missing(w, keys) \in [WindowSet -> SUBSET ItemKeys]
  BY <1>t DEF Missing
<1>n. NothingMissed \in [WindowSet -> SUBSET ItemKeys]
  BY DEF NothingMissed
<1>0. ASSUME NEW w \in WindowSet, Access(w)
      PROVE  TypeOK'
  BY <1>0, <1>g, <1>t DEF Access, Wrappers
<1>1. ASSUME NEW w \in WindowSet, NEW k \in ItemKeys, NEW v \in ItemValues \cup {NoValue}, SetItem(w, k, v)
      PROVE  TypeOK'
  <2> DEFINE store == [area.store EXCEPT ![k] = v]
  <2>1. area.store \in Stores /\ area.last \in Stores /\ area.writes \in 0 .. MaxWrites
    BY <1>t DEF Wrappers
  <2>2. store \in Stores
    BY <2>1, StoreType
  <2> HIDE DEF store
  <2>3. area' = [area EXCEPT !.store = store, !.writes = @ + 1] /\ area.writes < MaxWrites
    BY <1>1 DEF SetItem, store
  <2>a. area.writes + 1 \in 0 .. MaxWrites
    BY <2>1, <2>3 DEF AreaConstants
  <2>4. area' \in Wrappers
    BY <1>t, <2>a, <2>2, <2>3 DEF Wrappers
  <2>5. calls' = Append(calls, Call(Diff(area.last, store), "check"))
    BY <1>1 DEF SetItem, store, CheckStorageChanged
  <2>6. calls' \in Seq(Calls)
    BY <1>t, <2>1, <2>2, <2>5, DiffType, CallType, PushType
  <2>7. mirror' \in [WindowSet -> Stores] /\ crossed' \subseteq ItemKeys
    BY <1>1, <1>t, <1>k DEF SetItem
  <2>8. missed' \in [WindowSet -> SUBSET ItemKeys]
    BY <1>1, <1>m DEF SetItem
  <2> QED
    BY <1>g, <2>4, <2>6, <2>7, <2>8
<1>2. ASSUME NEW w \in WindowSet, Clear(w)
      PROVE  TypeOK'
  <2>1. area' \in Wrappers
    <3>1. ClearStorage(area) \in Wrappers /\ area.writes \in 0 .. MaxWrites
      BY <1>t, SavedType DEF Wrappers
    <3>2. ClearStorage(area).writes = area.writes
      BY <1>t DEF ClearStorage, Wrappers
    <3>3. area.writes + 1 \in 0 .. MaxWrites
      BY <3>1, <1>2 DEF AreaConstants, Clear
    <3>4. area' = [ClearStorage(area) EXCEPT !.writes = @ + 1]
      BY <1>2 DEF Clear
    <3> QED
      BY <3>1, <3>2, <3>3, <3>4 DEF Wrappers
  <2>2. {[key |-> AllKeys]} \subseteq Changes
    BY DEF Changes
  <2>3. calls' \in Seq(Calls)
    BY <1>2, <1>t, <2>2, CallType, PushType DEF Clear
  <2>4. /\ mirror' \in [WindowSet -> Stores] /\ crossed' \subseteq ItemKeys
        /\ missed' \in [WindowSet -> SUBSET ItemKeys]
    BY <1>2, <1>t, <1>m, StoreType DEF Clear
  <2> QED
    BY <1>g, <2>1, <2>3, <2>4
<1>3. CASE Raise
  BY <1>3, <1>g, <1>t, RaiseStep, TopType
<1>4. CASE TellNext
  <2>1. calls # <<>> /\ Last(calls).change \in Changes /\ area' = area /\ crossed' = crossed
    BY <1>4, TellStep
  <2>2. PICK call \in Calls :
          /\ calls' = [calls EXCEPT ![Len(calls)] = call]
          /\ \/ UNCHANGED <<mirror, missed>>
             \/ /\ Last(calls).next \in DOMAIN Windows /\ call.change = Last(calls).change
                /\ mirror' \in {mirror, Learned(Windows[Last(calls).next], call.change)}
                /\ missed' \in {missed, Heard(Windows[Last(calls).next], call.change)}
    BY <1>4, TellStep
  <2>3. ASSUME NEW w \in WindowSet
        PROVE  Learned(w, Last(calls).change) \in [WindowSet -> Stores]
    <3> DEFINE c == Last(calls).change
    <3>1. c.key = AllKeys \/ (c.key \in ItemKeys /\ c.new \in ItemValues \cup {NoValue})
      BY <2>1 DEF Changes
    <3> QED
      BY <3>1, <1>t, <1>k, StoreType DEF Learned
  <2>4. Last(calls).next \in DOMAIN Windows => Windows[Last(calls).next] \in WindowSet
    BY <1>k DEF AreaConstants
  <2>5. ASSUME NEW w \in WindowSet
        PROVE  Heard(w, Last(calls).change) \in [WindowSet -> SUBSET ItemKeys]
    BY <1>t DEF Heard
  <2>6. mirror' \in [WindowSet -> Stores] /\ missed' \in [WindowSet -> SUBSET ItemKeys]
    BY <1>t, <2>2, <2>3, <2>4, <2>5
  <2> QED
    BY <1>g, <1>t, <2>1, <2>2, <2>6, TopType
<1>5. CASE Return
  <2>1. calls' \in Seq(Calls)
    BY <1>5, <1>t, PopType DEF Return
  <2>2. area' \in Wrappers
    BY <1>5, <1>t DEF Return, Wrappers
  <2> QED
    BY <1>g, <1>t, <1>5, <2>1, <2>2 DEF Return
<1>6. CASE NavigationTriggered \/ Unload
  <2>1. area' \in Wrappers
    BY <1>6, <1>t, SavedType DEF NavigationTriggered, Unload, Wrappers
  <2> QED
    BY <1>g, <1>t, <1>6, <2>1 DEF NavigationTriggered, Unload
<1>7. CASE Open
  <2>a. Windows[1] \in WindowSet /\ 0 \in 0 .. MaxWrites
    BY DEF AreaConstants
  <2>1. area' \in Wrappers
    BY <1>7, <1>t, <2>a DEF Open, Wrappers
  <2>2. mirror' \in [WindowSet -> Stores]
    BY <1>7, <1>t DEF Open, Wrappers
  <2> QED
    BY <1>g, <1>t, <1>n, <1>7, <2>1, <2>2 DEF Open
<1>8. CASE Backup \/ Lock \/ ClearNative
  <2>1. area' \in Wrappers
    BY <1>8, <1>t, StoreType DEF Backup, Lock, ClearNative, Wrappers
  <2> QED
    BY <1>g, <1>t, <1>8, <2>1 DEF Backup, Lock, ClearNative
<1>9. CASE Restore
  <2>1. area' \in Wrappers
    BY <1>9, <1>t, SavedType DEF Restore, Wrappers
  <2>2. mirror' \in [WindowSet -> Stores]
    BY <1>9, <1>t DEF Restore, Wrappers
  <2> QED
    BY <1>g, <1>t, <1>n, <1>9, <2>1, <2>2 DEF Restore
<1>10. CASE UNCHANGED vars
  BY <1>10, <1>g, <1>t DEF vars
<1> QED
  BY <1>0, <1>1, <1>2, <1>3, <1>4, <1>5, <1>6, <1>7, <1>8, <1>9, <1>10 DEF Next

(* The wrapper, the calls and the mirrors have their types. *)
THEOREM TypeCorrect == Spec => []TypeOK
<1>1. Init => TypeOK
  BY AreaAssumption, TypeInit
<1>2. TypeOK /\ [Next]_vars => TypeOK'
  BY AreaAssumption, TypeStep
<1> QED
  BY <1>1, <1>2, PTL DEF Spec

-----------------------------------------------------------------------------
(* A page that has been left raises no events. *)
AwayInv == area.page = "left" => calls = <<>>

(* A change that is not found is one that a call of checkStorageChanged will find when it    *)
(* returns: clear() alone leaves nothing to be found.                                        *)
FoundInv == (\A i \in DOMAIN calls : calls[i].kind = "clear") => area.last = area.store

(* Nothing is away and nothing is untold at first. *)
LEMMA FoundInit ==
    ASSUME Init
    PROVE  AwayInv /\ FoundInv
BY DEF Init, AwayInv, FoundInv

(* Every step keeps what is known of saved wrappers. *)
LEMMA AwayStep ==
    ASSUME TypeOK, AwayInv, [Next]_vars
    PROVE  AwayInv'
<1>1. area \in Wrappers
  BY DEF TypeOK, Wrappers
<1>2. ASSUME NEW w \in WindowSet, NEW k \in ItemKeys, NEW v \in ItemValues \cup {NoValue}, SetItem(w, k, v)
      PROVE  AwayInv'
  BY <1>1, <1>2 DEF SetItem, Running, AwayInv, Wrappers
<1>3. ASSUME NEW w \in WindowSet, Clear(w)
      PROVE  AwayInv'
  BY <1>1, <1>3 DEF Clear, Running, AwayInv, Wrappers, ClearStorage
<1>0. ASSUME NEW w \in WindowSet, Access(w)
      PROVE  AwayInv'
  BY <1>1, <1>0 DEF Access, AwayInv, Wrappers
<1>4. CASE Raise \/ TellNext
  BY <1>4 DEF Raise, TellNext, AwayInv
<1>5. CASE Return
  BY <1>1, <1>5 DEF Return, AwayInv, Wrappers
<1>6. CASE NavigationTriggered \/ Unload \/ Backup \/ Restore \/ Lock \/ ClearNative
  BY <1>6 DEF NavigationTriggered, Unload, Backup, Restore, Lock, ClearNative, Idle, AwayInv
<1>7. CASE Open
  BY <1>7, <1>1 DEF Open, AwayInv, Wrappers
<1>8. CASE UNCHANGED vars
  BY <1>8 DEF vars, AwayInv
<1> QED
  BY <1>0, <1>2, <1>3, <1>4, <1>5, <1>6, <1>7, <1>8 DEF Next

(* Every step keeps what is known of changes not yet found. *)
LEMMA FoundStep ==
    ASSUME AreaConstants, TypeOK, AwayInv, FoundInv, [Next]_vars
    PROVE  FoundInv'
<1>1. area \in Wrappers /\ calls \in Seq(Calls)
  BY DEF TypeOK, Wrappers, Calls
<1>2. ASSUME NEW w \in WindowSet, NEW k \in ItemKeys, NEW v \in ItemValues \cup {NoValue}, SetItem(w, k, v)
      PROVE  FoundInv'
  <2> DEFINE store == [area.store EXCEPT ![k] = v]
  <2>1. area.store \in Stores /\ area.last \in Stores /\ store \in Stores
    BY <1>1, StoreType DEF Wrappers
  <2>2. calls' = Append(calls, Call(Diff(area.last, store), "check"))
    BY <1>2 DEF SetItem, CheckStorageChanged
  <2>3. Call(Diff(area.last, store), "check") \in Calls
    BY <2>1, DiffType, CallType
  <2>4. Len(calls) + 1 \in DOMAIN calls' /\ calls'[Len(calls) + 1] = Call(Diff(area.last, store), "check")
    BY <1>1, <2>2, <2>3, PushType
  <2>5. calls'[Len(calls) + 1].kind = "check"
    BY <2>4 DEF Call
  <2> QED
    BY <2>4, <2>5 DEF FoundInv
<1>3. ASSUME NEW w \in WindowSet, Clear(w)
      PROVE  FoundInv'
  BY <1>1, <1>3 DEF Clear, ClearStorage, FoundInv, Wrappers
<1>0. ASSUME NEW w \in WindowSet, Access(w)
      PROVE  FoundInv'
  BY <1>1, <1>0 DEF Access, FoundInv, Wrappers
<1>4. CASE Raise \/ TellNext
  <2>1. calls # <<>> /\ area' = area /\ Last(calls) = calls[Len(calls)]
    BY <1>4, RaiseStep, TellStep
  <2>2. PICK c \in Calls : calls' = [calls EXCEPT ![Len(calls)] = c] /\ c.kind = Last(calls).kind
    BY <1>4, RaiseStep, TellStep
  <2>3. \A i \in DOMAIN calls : i \in DOMAIN calls' /\ calls'[i].kind = calls[i].kind
    BY <1>1, <2>1, <2>2, TopType
  <2> QED
    BY <2>1, <2>3 DEF FoundInv
<1>5. CASE Return
  <2>1. calls # <<>> /\ calls' = Front(calls)
    BY <1>5 DEF Return
  <2>2. /\ Last(calls) = calls[Len(calls)] /\ calls[Len(calls)] \in Calls
        /\ DOMAIN calls' = 1 .. Len(calls) - 1
        /\ \A i \in 1 .. Len(calls) - 1 : calls'[i] = calls[i]
    BY <1>1, <2>1, PopType
  <2>3. CASE Last(calls).kind = "check"
    BY <2>3, <1>5, <1>1 DEF Return, FoundInv, Wrappers
  <2>4. CASE Last(calls).kind = "clear"
    <3>1. area' = area
      BY <2>4, <1>5 DEF Return
    <3>2. ASSUME \A i \in DOMAIN calls' : calls'[i].kind = "clear"
          PROVE  \A i \in DOMAIN calls : calls[i].kind = "clear"
      <4> SUFFICES ASSUME NEW i \in DOMAIN calls
                   PROVE  calls[i].kind = "clear"
        OBVIOUS
      <4>1. i = Len(calls) \/ i \in 1 .. Len(calls) - 1
        BY <1>1
      <4> QED
        BY <4>1, <3>2, <2>2, <2>4
    <3> QED
      BY <3>1, <3>2 DEF FoundInv
  <2> QED
    BY <2>2, <2>3, <2>4 DEF Calls
<1>6. CASE NavigationTriggered \/ Unload \/ Backup \/ Lock \/ ClearNative
  <2>1. calls' = calls
    BY <1>6 DEF NavigationTriggered, Unload, Backup, Lock, ClearNative
  <2>2. area'.last = area.last /\ area'.store = area.store
    BY <1>6, <1>1 DEF NavigationTriggered, Unload, Backup, Lock, ClearNative, Wrappers,
                      SaveToNativeStorages
  <2> QED
    BY <2>1, <2>2 DEF FoundInv
<1>7. CASE Open
  BY <1>7, <1>1 DEF Open, FoundInv, Wrappers
<1>8. CASE Restore
  BY <1>8, <1>1 DEF Restore, FoundInv, Wrappers, ClearStorage
<1>9. CASE UNCHANGED vars
  BY <1>9 DEF vars, FoundInv
<1> QED
  BY <1>0, <1>2, <1>3, <1>4, <1>5, <1>6, <1>7, <1>8, <1>9 DEF Next

-----------------------------------------------------------------------------
(* A change that is still to be told, or is being told, is of the value that the key has. *)
Fits(c, store, k) == /\ c.key = AllKeys => store[k] = NoValue
                     /\ c.key = k => c.new = store[k]
CallFits(call, store, k) ==
    \A c \in call.changes \cup {call.change} : c # NoChange => Fits(c, store, k)

(* The call will tell w of k. *)
DueBy(call, w, k) ==
    \/ \E c \in call.changes : c.key \in {k, AllKeys}
    \/ /\ call.change.key \in {k, AllKeys}
       /\ \E j \in DOMAIN Windows : call.next <= j /\ Windows[j] = w

(* Nothing of the key has passed w by that it did not know. *)
UpToDate(w, k) == mirror[w][k] = area.store[k] \/ k \in missed[w]

Informed(w, k) == UpToDate(w, k) \/ \E i \in DOMAIN calls : DueBy(calls[i], w, k)

(* Whoever is not told, the context, does not wait for it; the others are still to be told. *)
KnownOf(k) ==
    /\ UpToDate(area.ctx, k)
    /\ \A i \in DOMAIN calls : CallFits(calls[i], area.store, k)
    /\ \A w \in WindowSet : Informed(w, k)

KnowInv == \A k \in ItemKeys \ crossed : KnownOf(k)

(* The empty change is about no key. *)
LEMMA NoChangeKey ==
    ASSUME AreaConstants
    PROVE  /\ NoChange.key # AllKeys /\ NoChange.key \notin ItemKeys
           /\ \A c \in Changes : c # NoChange /\ c.key \in ItemKeys \cup {AllKeys}
<1>1. NoChange.key # AllKeys /\ NoChange.key \notin ItemKeys
  BY DEF NoChange, AllKeys, AreaConstants
<1>2. \A c \in Changes : c.key \in ItemKeys \cup {AllKeys}
  BY DEF Changes
<1> QED
  BY <1>1, <1>2

(* At first every window knows the storage. *)
LEMMA KnowInit ==
    ASSUME AreaConstants, Init
    PROVE  KnowInv
<1>1. Windows[1] \in WindowSet
  BY DEF AreaConstants
<1> QED
  BY <1>1 DEF Init, KnowInv, KnownOf, UpToDate, Informed

(* The getter makes its window the context, which then waits for nothing. *)
LEMMA KnowAccess ==
    ASSUME AreaConstants, TypeOK, KnowInv, NEW u \in WindowSet, Access(u)
    PROVE  KnowInv'
<1>1. /\ area \in Wrappers /\ missed \in [WindowSet -> SUBSET ItemKeys]
      /\ UNCHANGED <<calls, mirror, crossed>>
  BY DEF TypeOK, Wrappers, Access
<1>2. area'.store = area.store /\ area'.ctx = u
  BY <1>1 DEF Access, Wrappers
<1>3. missed' = [missed EXCEPT ![u] = @ \cup {k \in ItemKeys : mirror[u][k] # area.store[k]}]
  BY DEF Access
<1>4. ASSUME NEW k \in ItemKeys \ crossed
      PROVE  KnownOf(k)'
  <2>1. KnownOf(k)
    BY <1>4 DEF KnowInv
  <2>2. \A w \in WindowSet : UpToDate(w, k) => UpToDate(w, k)'
    BY <1>1, <1>2, <1>3 DEF UpToDate
  <2>3. UpToDate(u, k)'
    BY <1>1, <1>2, <1>3 DEF UpToDate
  <2> QED
    BY <1>1, <1>2, <2>1, <2>2, <2>3 DEF KnownOf, Informed, DueBy
<1> QED
  BY <1>1, <1>4 DEF KnowInv

(* setItem and removeItem keep what the windows know or will be told. *)
LEMMA KnowSet ==
    ASSUME AreaConstants, TypeOK, KnowInv,
           NEW w \in WindowSet, NEW k \in ItemKeys, NEW v \in ItemValues \cup {NoValue}, SetItem(w, k, v)
    PROVE  KnowInv'
<1> DEFINE store == [area.store EXCEPT ![k] = v]
           new   == Call(Diff(area.last, store), "check")
           keys  == IF area.store[k] # v THEN {k} ELSE {}
<1>1. /\ area \in Wrappers /\ calls \in Seq(Calls) /\ mirror \in [WindowSet -> Stores]
      /\ missed \in [WindowSet -> SUBSET ItemKeys]
  BY DEF TypeOK, Wrappers, Calls
<1>2. area.store \in Stores /\ area.last \in Stores /\ store \in Stores /\ area.ctx \in WindowSet
  BY <1>1, StoreType DEF Wrappers
<1>3. area'.store = store /\ area'.ctx = area.ctx
  BY <1>1 DEF SetItem, Wrappers
<1>4. mirror' = [mirror EXCEPT ![w][k] = v] /\ missed' = Missing(w, keys)
  BY DEF SetItem, Known
<1>5. store[k] = v /\ \A l \in ItemKeys \ {k} : store[l] = area.store[l]
  BY <1>2 DEF Stores
<1>6. /\ mirror'[w][k] = v
      /\ \A u \in WindowSet, l \in ItemKeys : ~(u = w /\ l = k) => mirror'[u][l] = mirror[u][l]
  BY <1>1, <1>4 DEF Stores
<1>7. new \in Calls /\ calls' = Append(calls, new)
  BY <1>2, DiffType, CallType DEF SetItem, CheckStorageChanged
<1>8. /\ DOMAIN calls' = 1 .. Len(calls) + 1 /\ calls'[Len(calls) + 1] = new
      /\ \A i \in DOMAIN calls : i \in DOMAIN calls' /\ calls'[i] = calls[i]
      /\ \A i \in DOMAIN calls' : i \in DOMAIN calls \/ i = Len(calls) + 1
      /\ Len(calls) + 1 \in DOMAIN calls'
  BY <1>1, <1>7, PushType
<1>9. new.changes = Diff(area.last, store) /\ new.change = NoChange
  BY DEF Call
<1> HIDE DEF new
<1>10. \A c \in new.changes : c.key \in ItemKeys /\ c.new = store[c.key]
  <2> HIDE DEF store
  <2> QED
    BY <1>2, <1>9, DiffType
<1>11. \A l \in ItemKeys : CallFits(new, store, l)
  BY <1>9, <1>10 DEF CallFits, Fits, AreaConstants
<1> HIDE DEF store
<1>12. ASSUME NEW l \in ItemKeys \ {k}, l \notin crossed'
       PROVE  KnownOf(l)'
  <2>1. l \notin crossed
    BY <1>12 DEF SetItem
  <2>2. KnownOf(l)
    BY <2>1 DEF KnowInv
  <2>3. \A u \in WindowSet : UpToDate(u, l) => UpToDate(u, l)'
    BY <1>1, <1>3, <1>4, <1>5, <1>6 DEF UpToDate, Missing
  <2>4. \A i \in DOMAIN calls : CallFits(calls[i], store, l)
    BY <2>2, <1>5 DEF KnownOf, CallFits, Fits
  <2>5. \A i \in DOMAIN calls' : CallFits(calls'[i], area'.store, l)
    BY <2>4, <1>3, <1>8, <1>11
  <2> QED
    BY <2>2, <2>3, <2>5, <1>2, <1>3, <1>8 DEF KnownOf, Informed, DueBy
<1>13. ASSUME k \notin crossed'
       PROVE  KnownOf(k)'
  <2>1. ~BeingTold(k)
    BY <1>13 DEF SetItem
  <2>2. \A i \in DOMAIN calls : CallFits(calls[i], store, k)
    BY <2>1 DEF BeingTold, CallFits, Fits
  <2>3. \A i \in DOMAIN calls' : CallFits(calls'[i], area'.store, k)
    BY <2>2, <1>3, <1>8, <1>11
  <2>4. UpToDate(w, k)'
    BY <1>3, <1>5, <1>6 DEF UpToDate
  <2>5. CASE area.store[k] = v
    <3>1. KnownOf(k)
      BY <1>13, <2>1, <2>5 DEF SetItem, KnowInv
    <3>2. \A u \in WindowSet \ {w} : UpToDate(u, k) => UpToDate(u, k)'
      BY <1>1, <1>3, <1>4, <1>5, <1>6, <2>5 DEF UpToDate, Missing
    <3> QED
      BY <3>1, <3>2, <2>3, <2>4, <1>2, <1>3, <1>8 DEF KnownOf, Informed, DueBy
  <2>6. CASE area.store[k] # v
    <3>1. \E c \in new.changes : c.key = k
      <4>1. area.last[k] # store[k]
        BY <2>1, <2>6, <1>5 DEF BeingTold
      <4> QED
        BY <1>2, <1>9, <4>1, DiffType
    <3>2. \A u \in WindowSet : Informed(u, k)'
      BY <3>1, <1>8 DEF Informed, DueBy
    <3>3. UpToDate(area.ctx, k)'
      <4>1. CASE area.ctx = w
        BY <4>1, <2>4, <1>3
      <4>2. CASE area.ctx # w
        <5>1. k \in missed'[area.ctx]
          BY <4>2, <2>6, <1>2, <1>4 DEF Missing
        <5> QED
          BY <5>1, <1>3 DEF UpToDate
      <4> QED
        BY <4>1, <4>2
    <3> QED
      BY <3>2, <3>3, <2>3, <1>3 DEF KnownOf, UpToDate
  <2> QED
    BY <2>5, <2>6
<1> QED
  BY <1>12, <1>13 DEF KnowInv

(* clear keeps what the windows know or will be told. *)
LEMMA KnowClear ==
    ASSUME AreaConstants, TypeOK, KnowInv, NEW w \in WindowSet, Clear(w)
    PROVE  KnowInv'
<1> DEFINE new == Call({[key |-> AllKeys]}, "clear")
<1>1. /\ area \in Wrappers /\ mirror \in [WindowSet -> Stores] /\ calls \in Seq(Calls)
      /\ missed \in [WindowSet -> SUBSET ItemKeys]
  BY DEF TypeOK, Wrappers, Calls
<1>2. area'.store = Empty /\ area'.ctx = area.ctx /\ area.ctx \in WindowSet
  BY <1>1 DEF Clear, Wrappers, ClearStorage
<1>3. mirror'[w] = Empty /\ missed' = Missing(w, ItemKeys)
  BY <1>1 DEF Clear
<1>4. {[key |-> AllKeys]} \subseteq Changes
  BY DEF Changes
<1>5. new \in Calls /\ calls' = Append(calls, new)
  BY <1>4, CallType DEF Clear
<1>6. /\ calls'[Len(calls) + 1] = new /\ Len(calls) + 1 \in DOMAIN calls'
      /\ \A i \in DOMAIN calls : calls'[i] = calls[i]
      /\ \A i \in DOMAIN calls' : i \in DOMAIN calls \/ i = Len(calls) + 1
  BY <1>1, <1>5, PushType
<1>7. new.changes = {[key |-> AllKeys]} /\ new.change = NoChange
  BY DEF Call
<1> HIDE DEF new
<1>8. ASSUME NEW k \in ItemKeys, k \notin crossed'
      PROVE  KnownOf(k)'
  <2>1. ~BeingTold(k)
    BY <1>8 DEF Clear
  <2>2. \A i \in DOMAIN calls : CallFits(calls[i], Empty, k)
    BY <2>1 DEF BeingTold, CallFits, Fits
  <2>3. CallFits(new, Empty, k)
    BY <1>7 DEF CallFits, Fits, Empty, AreaConstants
  <2>4. \A i \in DOMAIN calls' : CallFits(calls'[i], area'.store, k)
    BY <2>2, <2>3, <1>2, <1>6
  <2>5. ASSUME NEW u \in WindowSet
        PROVE  Informed(u, k)'
    <3>1. DueBy(calls'[Len(calls) + 1], u, k)
      BY <1>6, <1>7 DEF DueBy
    <3> QED
      BY <1>6, <3>1 DEF Informed, DueBy
  <2>6. UpToDate(area.ctx, k)'
    <3>1. CASE area.ctx = w
      BY <3>1, <1>2, <1>3 DEF UpToDate
    <3>2. CASE area.ctx # w
      <4>1. k \in missed'[area.ctx]
        BY <3>2, <1>2, <1>3 DEF Missing
      <4> QED
        BY <4>1, <1>2 DEF UpToDate
    <3> QED
      BY <3>1, <3>2
  <2> QED
    BY <2>4, <2>5, <2>6, <1>2 DEF KnownOf, UpToDate
<1> QED
  BY <1>8 DEF KnowInv

(* Taking up the next change of a call keeps what the windows know or will be told. *)
LEMMA KnowRaise ==
    ASSUME AreaConstants, TypeOK, KnowInv, Raise
    PROVE  KnowInv'
<1> DEFINE n == Len(calls)
<1>1. /\ calls \in Seq(Calls) /\ calls # <<>> /\ Last(calls) = calls[n]
      /\ UNCHANGED <<area, mirror, crossed, missed>>
  BY RaiseStep
<1>2. PICK call \in Calls, c \in calls[n].changes :
        /\ calls' = [calls EXCEPT ![n] = call]
        /\ call.changes = calls[n].changes \ {c} /\ call.change = c /\ call.next = 1
  BY <1>1, RaiseStep
<1>3. /\ n \in DOMAIN calls /\ DOMAIN calls' = DOMAIN calls /\ calls'[n] = call
      /\ \A i \in DOMAIN calls : i # n => calls'[i] = calls[i]
  BY <1>1, <1>2, TopType, PopType
<1>4. ASSUME NEW k \in ItemKeys \ crossed, NEW i \in DOMAIN calls
      PROVE  CallFits(calls'[i], area.store, k)
  BY <1>2, <1>3 DEF CallFits, KnowInv, KnownOf
<1>5. ASSUME NEW w \in WindowSet, NEW k \in ItemKeys, NEW i \in DOMAIN calls, DueBy(calls[i], w, k)
      PROVE  DueBy(calls'[i], w, k)
  <2>1. CASE i # n
    BY <2>1, <1>5, <1>3
  <2>2. CASE i = n /\ \E d \in calls[n].changes : d # c /\ d.key \in {k, AllKeys}
    BY <2>2, <1>2, <1>3 DEF DueBy
  <2>3. CASE i = n /\ c.key \in {k, AllKeys}
    <3>1. \E j \in DOMAIN Windows : 1 <= j /\ Windows[j] = w
      BY DEF AreaConstants, WindowSet, ToSet
    <3> QED
      BY <2>3, <3>1, <1>2, <1>3 DEF DueBy
  <2>4. CASE i = n /\ calls[n].change.key \in {k, AllKeys}
    BY <2>4, <1>1, NoChangeKey DEF Raise
  <2> QED
    BY <1>5, <2>1, <2>2, <2>3, <2>4 DEF DueBy
<1>6. ASSUME NEW k \in ItemKeys \ crossed
      PROVE  KnownOf(k)'
  <2>1. KnownOf(k)
    BY DEF KnowInv
  <2>2. \A w \in WindowSet : Informed(w, k)'
    BY <2>1, <1>1, <1>3, <1>5 DEF KnownOf, Informed, UpToDate, DueBy
  <2> QED
    BY <2>1, <2>2, <1>1, <1>3, <1>4 DEF KnownOf, UpToDate
<1> QED
  BY <1>1, <1>6 DEF KnowInv

(* Telling a window of a change keeps what the others know or will be told. *)
LEMMA KnowTell ==
    ASSUME AreaConstants, TypeOK, KnowInv, TellNext
    PROVE  KnowInv'
<1> DEFINE n == Len(calls)
           old == calls[n]
<1>1. /\ calls \in Seq(Calls) /\ calls # <<>> /\ Last(calls) = old /\ UNCHANGED <<area, crossed>>
      /\ old.change \in Changes /\ area \in Wrappers /\ mirror \in [WindowSet -> Stores]
      /\ missed \in [WindowSet -> SUBSET ItemKeys]
  BY TellStep DEF TypeOK, Wrappers
<1>2. PICK call \in Calls :
        /\ calls' = [calls EXCEPT ![n] = call]
        /\ call.changes = old.changes
        /\ \/ /\ old.next > Len(Windows) /\ call.change = NoChange /\ UNCHANGED <<mirror, missed>>
           \/ /\ old.next \in DOMAIN Windows /\ call.change = old.change
              /\ call.next = old.next + 1
              /\ mirror' = IF area.ctx # Windows[old.next]
                           THEN Learned(Windows[old.next], call.change) ELSE mirror
              /\ missed' = IF area.ctx # Windows[old.next]
                           THEN Heard(Windows[old.next], call.change) ELSE missed
  BY <1>1, TellStep
<1>3. /\ n \in DOMAIN calls /\ DOMAIN calls' = DOMAIN calls /\ calls'[n] = call
      /\ \A i \in DOMAIN calls : i # n => calls'[i] = calls[i]
      /\ old \in Calls
  BY <1>1, <1>2, TopType, PopType
<1> SUFFICES ASSUME NEW k \in ItemKeys \ crossed
             PROVE  KnownOf(k)'
  BY <1>1 DEF KnowInv
<1>k. KnownOf(k)
  BY DEF KnowInv
<1>4. ASSUME NEW i \in DOMAIN calls
      PROVE  CallFits(calls'[i], area.store, k)
  BY <1>2, <1>3, <1>k DEF CallFits, KnownOf
<1>5. Fits(old.change, area.store, k)
  BY <1>1, <1>3, <1>k, NoChangeKey DEF KnownOf, CallFits
<1>6. CASE old.next > Len(Windows)
  <2>1. UNCHANGED <<mirror, missed>>
    BY <1>2, <1>6 DEF AreaConstants
  <2>2. ASSUME NEW w \in WindowSet, NEW i \in DOMAIN calls, DueBy(calls[i], w, k)
        PROVE  DueBy(calls'[i], w, k)
    <3>1. CASE i # n
      BY <3>1, <2>2, <1>3
    <3>2. CASE i = n
      <4>1. ~ \E j \in DOMAIN Windows : old.next <= j
        BY <1>3, <1>6 DEF AreaConstants, Calls
      <4>2. \E c \in old.changes : c.key \in {k, AllKeys}
        BY <3>2, <2>2, <4>1 DEF DueBy
      <4> QED
        BY <3>2, <4>2, <1>2, <1>3 DEF DueBy
    <3> QED
      BY <3>1, <3>2
  <2>3. \A w \in WindowSet : Informed(w, k)'
    BY <2>1, <2>2, <1>1, <1>3, <1>k DEF KnownOf, Informed, UpToDate, DueBy
  <2> QED
    BY <1>1, <1>3, <1>4, <1>k, <2>1, <2>3 DEF KnownOf, UpToDate
<1>7. CASE old.next \in DOMAIN Windows
  <2> DEFINE u == Windows[old.next]
             c == old.change
  <2>1. /\ call.change = c /\ call.next = old.next + 1 /\ u \in WindowSet
        /\ mirror' = IF area.ctx # u THEN Learned(u, c) ELSE mirror
        /\ missed' = IF area.ctx # u THEN Heard(u, c) ELSE missed
    BY <1>2, <1>7 DEF AreaConstants
  <2>2. area.store \in Stores /\ area.ctx \in WindowSet
    BY <1>1 DEF Wrappers
  <2>3. \A w \in WindowSet \ {u} : mirror'[w] = mirror[w] /\ missed'[w] = missed[w]
    BY <1>1, <2>1 DEF Learned, Known, Heard
  <2>4. area.ctx = u => mirror' = mirror /\ missed' = missed
    BY <2>1
  <2>5. UpToDate(area.ctx, k)'
    BY <1>1, <1>k, <2>2, <2>3, <2>4 DEF KnownOf, UpToDate
  <2>6. ASSUME c.key \in {k, AllKeys}
        PROVE  mirror'[u][k] = area.store[k] \/ k \in missed'[u]
    <3>1. CASE area.ctx = u
      BY <3>1, <2>5, <1>1 DEF UpToDate
    <3>2. CASE area.ctx # u /\ c.key = AllKeys
      <4>1. mirror'[u] = Empty
        BY <1>1, <2>1, <3>2 DEF Learned
      <4>2. area.store[k] = NoValue
        BY <1>5, <3>2 DEF Fits
      <4> QED
        BY <4>1, <4>2 DEF Empty
    <3>3. CASE area.ctx # u /\ c.key # AllKeys
      <4>1. c.key = k /\ c.new = area.store[k]
        BY <1>5, <2>6, <3>3 DEF Fits
      <4>2. mirror' = [mirror EXCEPT ![u][k] = area.store[k]]
        BY <4>1, <2>1, <3>3 DEF Learned, Known
      <4> QED
        BY <4>2, <1>1, <2>1 DEF Stores
    <3> QED
      BY <3>1, <3>2, <3>3
  <2>7. c.key \notin {k, AllKeys} => mirror'[u][k] = mirror[u][k] /\ (k \in missed'[u] <=> k \in missed[u])
    BY <1>1, <2>1 DEF Learned, Known, Stores, Heard, KeysOf
  <2>8. ASSUME NEW w \in WindowSet
        PROVE  Informed(w, k)'
    <3>1. CASE w = u /\ c.key \in {k, AllKeys}
      BY <3>1, <2>6, <1>1 DEF Informed, UpToDate
    <3>2. CASE ~(w = u /\ c.key \in {k, AllKeys})
      <4>1. UpToDate(w, k) => UpToDate(w, k)'
        BY <3>2, <1>1, <2>3, <2>7 DEF UpToDate
      <4>2. ASSUME NEW i \in DOMAIN calls, DueBy(calls[i], w, k)
            PROVE  DueBy(calls'[i], w, k)
        <5>1. CASE i # n
          BY <5>1, <4>2, <1>3
        <5>2. CASE i = n /\ \E d \in old.changes : d.key \in {k, AllKeys}
          BY <5>2, <1>2, <1>3 DEF DueBy
        <5>3. CASE i = n /\ c.key \in {k, AllKeys} /\ \E j \in DOMAIN Windows : old.next <= j /\ Windows[j] = w
          <6>1. PICK j \in DOMAIN Windows : old.next <= j /\ Windows[j] = w
            BY <5>3
          <6>2. old.next + 1 <= j
            BY <6>1, <5>3, <3>2, <1>3, <1>7 DEF AreaConstants, Calls
          <6> QED
            BY <5>3, <6>1, <6>2, <2>1, <1>3 DEF DueBy
        <5> QED
          BY <4>2, <5>1, <5>2, <5>3 DEF DueBy
      <4>3. Informed(w, k)
        BY <1>k DEF KnownOf
      <4> QED
        BY <4>1, <4>2, <4>3, <1>3 DEF Informed, DueBy
    <3> QED
      BY <3>1, <3>2
  <2> QED
    BY <1>1, <1>3, <1>4, <2>5, <2>8 DEF KnownOf, UpToDate
<1> QED
  BY <1>2, <1>6, <1>7

(* A call that returns has told every window. *)
LEMMA KnowReturn ==
    ASSUME AreaConstants, TypeOK, KnowInv, Return
    PROVE  KnowInv'
<1>1. calls \in Seq(Calls) /\ calls # <<>> /\ area \in Wrappers
  BY DEF TypeOK, Return, Calls, Wrappers
<1>2. /\ Last(calls) = calls[Len(calls)] /\ Len(calls) \in DOMAIN calls
      /\ DOMAIN calls' = 1 .. Len(calls) - 1
      /\ \A i \in 1 .. Len(calls) - 1 : calls'[i] = calls[i]
  BY <1>1, PopType DEF Return
<1>3. area'.store = area.store /\ area'.ctx = area.ctx /\ UNCHANGED <<mirror, crossed, missed>>
  BY <1>1 DEF Return, Wrappers
<1>4. ASSUME NEW w, NEW k \in ItemKeys
      PROVE  ~DueBy(calls[Len(calls)], w, k)
  <2>1. calls[Len(calls)].changes = {} /\ calls[Len(calls)].change = NoChange
    BY <1>2 DEF Return
  <2> QED
    BY <2>1, NoChangeKey DEF DueBy
<1>5. \A i \in DOMAIN calls : i = Len(calls) \/ i \in DOMAIN calls'
  BY <1>1, <1>2
<1>6. DOMAIN calls' \subseteq DOMAIN calls
  BY <1>1, <1>2
<1>7. ASSUME NEW w \in WindowSet, NEW k \in ItemKeys, Informed(w, k)
      PROVE  Informed(w, k)'
  BY <1>2, <1>3, <1>4, <1>5, <1>7 DEF Informed, UpToDate, DueBy
<1>8. ASSUME NEW k \in ItemKeys \ crossed
      PROVE  KnownOf(k)'
  <2>1. KnownOf(k)
    BY DEF KnowInv
  <2> QED
    BY <2>1, <1>2, <1>3, <1>6, <1>7 DEF KnownOf, UpToDate
<1> QED
  BY <1>3, <1>8 DEF KnowInv

(* Every step keeps what the windows know or will be told. *)
LEMMA KnowStep ==
    ASSUME AreaConstants, TypeOK, AwayInv, KnowInv, [Next]_vars
    PROVE  KnowInv'
<1>1. area \in Wrappers
  BY DEF TypeOK, Wrappers
<1>2. CASE NavigationTriggered \/ Unload \/ Backup \/ Lock \/ ClearNative
  <2>1. UNCHANGED <<calls, mirror, crossed, missed>>
    BY <1>2 DEF NavigationTriggered, Unload, Backup, Lock, ClearNative
  <2>2. area'.store = area.store /\ area'.ctx = area.ctx
    <3>1. SaveToNativeStorages(area).store = area.store /\ SaveToNativeStorages(area).ctx = area.ctx
      BY <1>1 DEF SaveToNativeStorages, Wrappers
    <3>2. CASE NavigationTriggered
      BY <3>1, <3>2 DEF NavigationTriggered
    <3>3. CASE Unload
      <4>1. SaveToNativeStorages(area) \in Wrappers
        BY <1>1, SavedType
      <4> QED
        BY <3>1, <3>3, <4>1 DEF Unload, Wrappers
    <3>4. CASE Backup \/ Lock \/ ClearNative
      BY <3>4, <1>1 DEF Backup, Lock, ClearNative, Wrappers
    <3> QED
      BY <1>2, <3>2, <3>3, <3>4
  <2> QED
    BY <2>1, <2>2 DEF KnowInv, KnownOf, UpToDate, Informed, DueBy
<1>3. CASE Open \/ Restore
  <2>1. calls = <<>> /\ calls' = <<>>
    BY <1>3 DEF Open, Restore, Idle, AwayInv
  <2>2. area'.ctx \in WindowSet
    BY TypeStep DEF TypeOK
  <2>3. \A w \in WindowSet : mirror'[w] = area'.store
    <3>1. CASE Open
      BY <1>1, <3>1 DEF Open, Wrappers
    <3>2. CASE Restore
      BY <1>1, <3>2 DEF Restore, Wrappers, ClearStorage
    <3> QED
      BY <1>3, <3>1, <3>2
  <2> QED
    BY <2>1, <2>2, <2>3 DEF KnowInv, KnownOf, UpToDate, Informed
<1>4. CASE UNCHANGED vars
  BY <1>4 DEF vars, KnowInv, KnownOf, UpToDate, Informed, DueBy
<1> QED
  BY <1>2, <1>3, <1>4, KnowAccess, KnowSet, KnowClear, KnowRaise, KnowTell, KnowReturn DEF Next

-----------------------------------------------------------------------------
StorageInv == TypeOK /\ AwayInv /\ FoundInv /\ KnowInv

(* The invariant of the storage area holds in every state. *)
LEMMA Invariance == Spec => []StorageInv
<1>1. Init => StorageInv
  BY AreaAssumption, TypeInit, FoundInit, KnowInit DEF StorageInv
<1>2. StorageInv /\ [Next]_vars => StorageInv'
  BY AreaAssumption, TypeStep, AwayStep, FoundStep, KnowStep DEF StorageInv
<1> QED
  BY <1>1, <1>2, PTL DEF Spec

(* When no event is under way, every change was found, and a window knows every key of the    *)
(* storage: its handlers have been told of every change that it did not make, unless the key  *)
(* was changed across an event of it, or while the window was the context.                    *)
THEOREM WindowsKnow == Spec => []WindowsKnowTheStorage
<1>1. StorageInv => WindowsKnowTheStorage
  <2>1. StorageInv => WindowsAreTold
    BY DEF StorageInv, KnowInv, KnownOf, Informed, UpToDate, WindowsAreTold
  <2>2. StorageInv => NothingUntold
    BY DEF StorageInv, FoundInv, NothingUntold
  <2> QED
    BY <2>1, <2>2 DEF WindowsKnowTheStorage
<1> QED
  BY <1>1, Invariance, PTL

-----------------------------------------------------------------------------
(* Step by step, the wrapper is a plain storage whose contents are the native item's while    *)
(* the page is away: to leave a locked area is to lose what was not saved.                    *)
View   == IF area.page = "left" THEN area.native ELSE area.store
Locked == area.locked /\ area.page = "open"

(* A step of the wrappers is a step of a plain storage, or changes nothing in it. *)
LEMMA PlainStep ==
    ASSUME TypeOK, AwayInv, [Next]_vars
    PROVE  [Plain!Next]_(Plain!vars)
<1> USE DEF View, Locked
<1>t. area \in Wrappers
  BY DEF TypeOK, Wrappers
<1>s. ASSUME View' = View, area'.backup = area.backup, Locked' = Locked
      PROVE  UNCHANGED Plain!vars
  BY <1>s DEF Plain!vars
<1>1. ASSUME NEW w \in WindowSet, NEW k \in ItemKeys, NEW v \in ItemValues \cup {NoValue}, SetItem(w, k, v)
      PROVE  Plain!Put(k, v)
  <2>1. area.page = "open" /\ area'.page = "open" /\ area'.backup = area.backup /\ area'.locked = area.locked
    BY <1>1, <1>t DEF SetItem, Running, Wrappers
  <2>2. area'.store = [area.store EXCEPT ![k] = v]
    BY <1>1, <1>t DEF SetItem, Wrappers
  <2> QED
    BY <2>1, <2>2 DEF Plain!Put
<1>2. ASSUME NEW w \in WindowSet, Clear(w)
      PROVE  Plain!Clear
  <2>1. area.page = "open" /\ area'.page = "open" /\ area'.backup = area.backup /\ area'.locked = area.locked
    BY <1>2, <1>t DEF Clear, Running, Wrappers, ClearStorage
  <2>2. area'.store = Empty
    BY <1>2, <1>t DEF Clear, ClearStorage, Wrappers
  <2> QED
    BY <2>1, <2>2 DEF Plain!Clear, Plain!Empty, Empty
<1>0. ASSUME NEW w \in WindowSet, Access(w)
      PROVE  UNCHANGED Plain!vars
  BY <1>0, <1>t, <1>s DEF Access, Wrappers
<1>3. CASE Raise \/ TellNext \/ UNCHANGED vars
  BY <1>3, <1>s DEF Raise, TellNext, vars
<1>4. CASE Return
  <2>1. /\ area'.page = area.page /\ area'.store = area.store /\ area'.native = area.native
        /\ area'.backup = area.backup /\ area'.locked = area.locked
    BY <1>4, <1>t DEF Return, Wrappers
  <2> QED
    BY <2>1, <1>s
<1>5. CASE NavigationTriggered \/ ClearNative
  <2>1. /\ area'.page = "open" /\ area.page = "open" /\ area'.store = area.store
        /\ area'.backup = area.backup /\ area'.locked = area.locked
    BY <1>5, <1>t DEF NavigationTriggered, ClearNative, Idle, SaveToNativeStorages, Wrappers
  <2> QED
    BY <2>1, <1>s
<1>6. CASE Unload
  <2>1. /\ area'.page = "left" /\ area.page = "open" /\ area'.backup = area.backup
        /\ area'.native = IF area.locked THEN area.native ELSE area.store
    BY <1>6, <1>t DEF Unload, Idle, SaveToNativeStorages, Wrappers
  <2>2. CASE area.locked
    <3>1. area.native \in Plain!Areas
      BY <1>t DEF Wrappers, Stores, Plain!Areas
    <3> QED
      BY <2>1, <2>2, <3>1 DEF Plain!Drop, Plain!Next
  <2>3. CASE ~area.locked
    BY <2>1, <2>3, <1>s
  <2> QED
    BY <2>2, <2>3
<1>7. CASE Open
  <2>1. /\ area'.page = "open" /\ area.page = "left" /\ area'.backup = area.backup
        /\ area'.store = area.native /\ area'.locked = FALSE
    BY <1>7, <1>t DEF Open, Wrappers
  <2> QED
    BY <2>1, <1>s
<1>8. CASE Backup
  <2>1. /\ area'.page = "open" /\ area.page = "open" /\ area'.backup = area.store
        /\ area'.store = area.store /\ area'.locked = area.locked
    BY <1>8, <1>t DEF Backup, Idle, Wrappers
  <2> QED
    BY <2>1 DEF Plain!Backup, Plain!Next
<1>9. CASE Restore
  <2>1. /\ area'.page = "open" /\ area.page = "open" /\ area'.backup = area.backup
        /\ area'.store = area.backup /\ area'.locked = area.locked
    BY <1>9, <1>t DEF Restore, Idle, Wrappers, ClearStorage
  <2> QED
    BY <2>1 DEF Plain!Restore, Plain!Next
<1>10. CASE Lock
  <2>1. /\ area'.page = "open" /\ area.page = "open" /\ area'.backup = area.backup
        /\ area'.store = area.store /\ area'.locked = TRUE
    BY <1>10, <1>t DEF Lock, Idle, Wrappers
  <2> QED
    BY <2>1 DEF Plain!Lock, Plain!Next
<1>11. CASE \E w \in WindowSet, k \in ItemKeys, v \in ItemValues \cup {NoValue} : SetItem(w, k, v)
  BY <1>1, <1>11 DEF Plain!Next
<1>12. CASE \E w \in WindowSet : Clear(w)
  BY <1>2, <1>12 DEF Plain!Next
<1> QED
  BY <1>0, <1>3, <1>4, <1>5, <1>6, <1>7, <1>8, <1>9, <1>10, <1>11, <1>12 DEF Next

(* The wrapper implements the plain storage. *)
THEOREM ImplementsPlainStorage == Spec => StorageKeepsItsContents
<1>1. Init => Plain!Init
  BY DEF Init, Plain!Init, Plain!Empty, Empty
<1>2. StorageInv /\ [Next]_vars => [Plain!Next]_(Plain!vars)
  BY PlainStep DEF StorageInv
<1> QED
  BY <1>1, <1>2, Invariance, PTL DEF Spec, Plain!Spec, StorageKeepsItsContents
=============================================================================
