------------------------ MODULE RequestPipeline_proofs ------------------------
(***************************************************************************)
(* Proofs about RequestPipeline for any set of rules: where the head of    *)
(* the answer, the destination and the flags of the pipeline can be at     *)
(* each await, and which hooks have been called by then.                   *)
(***************************************************************************)
EXTENDS RequestPipeline, FiniteSetTheorems, TLAPS

(* The stages before the destination has been asked. *)
Before == {"reqBody", "matchRules", "onRequest", "mockBody"}

Configuring == {"sopConfigure", "configurePiped", "configureProcessed"}
Responding  == {"sopResponse", "respondAll", "respondWithBody", "respondWithoutBody",
                "respondProcessed"}

(* The stages of an answer that some rule has asked for or may have read. *)
PipedHooked == {"collect", "respondWithBody", "respondWithoutBody", "pipingAfterHooks"}

(* Each kind of answer has its own stages; the head of the answer is written in between. *)
PathInv ==
    /\ stage \in Before => dest = "none" /\ browser.head = "none"
    /\ stage = "destination" => dest = "pending" /\ browser.head = "none"
    /\ stage \in {"sopConfigure", "sopResponse"} => nature.kind = "ajax" /\ browser.head = "none"
                                                    /\ ~nature.sameOriginOk
    /\ stage \in {"fetch", "process", "configureProcessed"} =>
            nature.answer = "process" /\ browser.head # "response"
    /\ stage = "configurePiped" => nature.answer # "process" /\ browser.head # "response"
    /\ stage \in PipedHooked \cup {"piping"} => Piped /\ browser.head = "response"
    /\ stage = "respondAll" => nature.answer = "notModified" /\ browser.head = "response"
    /\ stage = "respondProcessed" => nature.answer = "process" /\ browser.head = "response"
    /\ stage = "tunnel" => nature.kind = "webSocket"
    /\ browser.ended => browser.head # "none" \/ nature.kind = "webSocket"
    /\ nature.kind = "webSocket" => stage \in Before \cup {"destination", "tunnel", "done", "rejected"}
    /\ nature.kind = "blank" => stage \notin {"matchRules", "onRequest", "mockBody", "destination"}

(* An error is answered once the destination has been asked, and it stops the stages. *)
ErrorInv ==
    browser.head = "error" =>
        /\ ~goToNext /\ nature.kind \notin {"ajax", "webSocket"}
        /\ stage \in {"configurePiped", "fetch", "process", "configureProcessed", "done", "rejected"}

(* Hooks are called for rules of the request, or for entries that these made. *)
HookInv ==
    /\ stage \in {"onRequest"} \cup Configuring => running \subseteq rules
    /\ stage \in Responding => running \subseteq DOMAIN eventData
    /\ \A i \in DOMAIN eventData : eventData[i].rule \in rules
    /\ stage \in Before \cup {"destination"} => eventData = <<>>
    /\ stage \in {"reqBody", "matchRules"} => ~mocked
    /\ mocked => rules # {} /\ dest \notin {"pending", "responding"}

(* Without hooks nothing comes between the stages, so the head is written once. *)
CrashInv ==
    /\ crashed => stage \in {"rejected", "done"}
    /\ rules = {} /\ stage \in {"configurePiped", "configureProcessed"} => browser.head = "none"
    /\ rules = {} /\ stage = "respondProcessed" => ~browser.ended

(* A browser that went away is noticed by the next thing that happens to the destination. *)
FreeInv ==
    /\ nature.kind = "webSocket" /\ browser.closed =>
        /\ dest # "responding"
        /\ stage \in {"reqBody", "matchRules", "onRequest", "destination"} => wsReset
    /\ stage \in PipedHooked => rules # {}
    /\ nature.answer = "pipe" /\ rules = {} /\ stage = "done" => dest # "responding"
    /\ nature.answer = "pipe" /\ rules = {} /\ stage = "piping" /\ browser.closed =>
            dest # "responding"

FlowInv == TypeOK /\ PathInv /\ ErrorInv /\ HookInv /\ CrashInv /\ NoCrashWithoutHooks /\ FreeInv

(* What is still to come has not been called, and no rule has two entries. *)
CallInv ==
    nature.sameOriginOk =>
        /\ stage \in Before \cup {"destination", "fetch", "process"} =>
                /\ eventData = <<>>
                /\ \A r \in Rules : calls["onConfigureResponse"][r] = 0
        /\ stage \in Before \cup {"destination", "fetch", "process", "collect"} \cup Configuring =>
                \A r \in Rules : calls["onResponse"][r] = 0
        /\ stage \in Configuring => \A i \in DOMAIN eventData : eventData[i].rule \notin running
        /\ \A i, j \in DOMAIN eventData : eventData[i].rule = eventData[j].rule => i = j
        /\ \A r \in Rules, e \in {"onConfigureResponse", "onResponse"} :
                calls[e][r] <= 1 /\ (calls[e][r] = 1 => r \in rules)

Entered(r) == \E i \in DOMAIN eventData : eventData[i].rule = r

(* A rule that was registered throughout is registered now; it is asked how to configure the *)
(* response, then it has an entry, then it is told of the response.                          *)
SeenInv ==
    /\ rules \ touched \subseteq listeners
    /\ stage \in {"configurePiped", "configureProcessed"} =>
            \A r \in rules : r \in running \/ Entered(r)
    /\ stage = "collect" => (\A r \in rules : Entered(r)) /\ EntriesWithBody(TRUE) # {}
    /\ stage = "piping" => rules = {}
    /\ stage \in {"respondAll", "respondProcessed"} => SeenByEveryRule
    /\ stage \in {"respondWithBody", "respondWithoutBody", "pipingAfterHooks"} =>
            (SameWishes => SeenByEveryRule)
    /\ stage = "done" /\ browser.head = "response" /\ nature.kind \in {"page", "asset", "ajax"} =>
            ((Piped => SameWishes) => SeenByEveryRule)

-----------------------------------------------------------------------------
(* What a sequence over a set holds is in the set. *)
LEMMA SeqElements ==
    ASSUME NEW S, NEW s \in Seq(S)
    PROVE  \A i \in DOMAIN s : s[i] \in S
OBVIOUS

(* Hooks: what a call of all of them does to the counts *)

CountsTyped == [HookEvents -> [Rules -> Nat]]

(* The hooks of the given rules are running; those that are registered were called. *)
RuleHooksCalled(event, matched) ==
    /\ running' = matched /\ invoked' \subseteq Rules /\ eventData' = eventData
    /\ calls' \in CountsTyped
    /\ \A r \in Rules : /\ r \notin matched => calls'[event][r] = calls[event][r]
                        /\ calls'[event][r] \in {calls[event][r], calls[event][r] + 1}
    /\ \A e \in HookEvents \ {event}, r \in Rules : calls'[e][r] = calls[e][r]

(* Promise.all over the rules of a request calls each registered one once. *)
LEMMA RuleHooks ==
    ASSUME TypeOK, NEW event \in HookEvents, NEW matched \in SUBSET Rules,
           CallRuleHooks(event, matched)
    PROVE  RuleHooksCalled(event, matched)
<1>1. calls \in CountsTyped
  BY DEF TypeOK, CountsTyped
<1>2. \A r \in Rules : calls[event][r] + (IF r \in matched \cap listeners THEN 1 ELSE 0)
                         \in {calls[event][r], calls[event][r] + 1} \cap Nat
  BY <1>1 DEF CountsTyped
<1>3. /\ calls' = [calls EXCEPT ![event] =
                    [r \in Rules |-> calls[event][r] + IF r \in matched \cap listeners THEN 1 ELSE 0]]
      /\ running' = matched /\ invoked' = matched \cap listeners /\ eventData' = eventData
  BY DEF CallRuleHooks
<1>4. ASSUME NEW r \in Rules, r \notin matched
      PROVE  calls[event][r] + (IF r \in matched \cap listeners THEN 1 ELSE 0) = calls[event][r]
  BY <1>1, <1>4 DEF CountsTyped
<1> QED
  BY <1>1, <1>2, <1>3, <1>4 DEF RuleHooksCalled, CountsTyped

(* The hooks of the given entries are running; a rule that is registered was called for each *)
(* of its entries.                                                                           *)
EntryHooksCalled(entries) ==
    /\ running' = entries /\ invoked' \subseteq Rules /\ eventData' = eventData
    /\ calls' \in CountsTyped
    /\ \A e \in HookEvents \ {"onResponse"}, r \in Rules : calls'[e][r] = calls[e][r]
    /\ \A r \in Rules :
        LET was == calls["onResponse"][r]
            now == calls'["onResponse"][r]
        IN  /\ now >= was
            /\ (\A i \in entries : eventData[i].rule # r) => now = was
            /\ (\A i, j \in entries : eventData[i].rule = r /\ eventData[j].rule = r => i = j)
                    => now <= was + 1
            /\ r \in listeners /\ (\E i \in entries : eventData[i].rule = r) => now >= was + 1

(* Promise.all over entries calls a rule once for each of its entries. *)
LEMMA EntryHooks ==
    ASSUME TypeOK, NEW entries \in SUBSET (DOMAIN eventData), CallResponseHooks(entries)
    PROVE  EntryHooksCalled(entries)
<1> DEFINE of(r) == {i \in entries : eventData[i].rule = r}
           more(r) == IF r \in listeners THEN Cardinality(of(r)) ELSE 0
<1>1. calls \in CountsTyped
  BY DEF TypeOK, CountsTyped
<1>2. ASSUME NEW r \in Rules
      PROVE  /\ Cardinality(of(r)) \in Nat
             /\ (\A i \in entries : eventData[i].rule # r) => Cardinality(of(r)) = 0
             /\ (\A i, j \in entries : eventData[i].rule = r /\ eventData[j].rule = r => i = j)
                    => Cardinality(of(r)) <= 1
             /\ (\E i \in entries : eventData[i].rule = r) => Cardinality(of(r)) >= 1
  <2>1. IsFiniteSet(of(r))
    <3>1. Len(eventData) \in Nat /\ DOMAIN eventData = 1..Len(eventData)
      BY DEF TypeOK
    <3>2. IsFiniteSet(DOMAIN eventData)
      BY <3>1, FS_Interval
    <3> QED
      BY <3>2, FS_Subset
  <2>2. Cardinality(of(r)) \in Nat
    BY <2>1, FS_CardinalityType
  <2>3. ASSUME \A i \in entries : eventData[i].rule # r
        PROVE  Cardinality(of(r)) = 0
    BY <2>3, FS_EmptySet
  <2>4. ASSUME NEW i \in entries, eventData[i].rule = r
        PROVE  Cardinality(of(r)) >= 1
    <3>1. of(r) # {}
      BY <2>4
    <3> HIDE DEF of
    <3>2. Cardinality(of(r)) # 0
      BY <2>1, <3>1, FS_EmptySet
    <3> QED
      BY <2>2, <3>2
  <2>5. ASSUME \A i, j \in entries : eventData[i].rule = r /\ eventData[j].rule = r => i = j
        PROVE  Cardinality(of(r)) <= 1
    <3>1. CASE of(r) = {}
      BY <3>1, FS_EmptySet
    <3>2. CASE of(r) # {}
      <4>1. PICK i \in entries : eventData[i].rule = r
        BY <3>2
      <4>3. of(r) = {i}
        BY <2>5, <4>1
      <4>2. Cardinality({i}) = 1
        BY FS_Singleton
      <4> HIDE DEF of
      <4> QED
        BY <4>3, <4>2
    <3> QED
      BY <3>1, <3>2
  <2> QED
    BY <2>2, <2>3, <2>4, <2>5
<1>3. /\ calls' = [calls EXCEPT !["onResponse"] =
                    [r \in Rules |-> calls["onResponse"][r] + more(r)]]
      /\ running' = entries /\ eventData' = eventData
      /\ invoked' = {eventData[i].rule : i \in entries} \cap listeners
  BY DEF CallResponseHooks
<1>4. listeners \subseteq Rules
  BY DEF TypeOK
<1> HIDE DEF of
<1>5. \A r \in Rules : more(r) \in Nat
  BY <1>2
<1> HIDE DEF more
<1>6. /\ calls' \in CountsTyped
      /\ \A e \in HookEvents \ {"onResponse"}, r \in Rules : calls'[e][r] = calls[e][r]
      /\ \A r \in Rules : calls'["onResponse"][r] = calls["onResponse"][r] + more(r)
  BY <1>1, <1>3, <1>5 DEF CountsTyped, HookEvents
<1>7. ASSUME NEW r \in Rules
      PROVE  LET was == calls["onResponse"][r]
                 now == calls'["onResponse"][r]
             IN  /\ now >= was
                 /\ (\A i \in entries : eventData[i].rule # r) => now = was
                 /\ (\A i, j \in entries : eventData[i].rule = r /\ eventData[j].rule = r => i = j)
                         => now <= was + 1
                 /\ r \in listeners /\ (\E i \in entries : eventData[i].rule = r) => now >= was + 1
  <2>1. calls["onResponse"][r] \in Nat
    BY <1>1 DEF CountsTyped, HookEvents
  <2>2. /\ more(r) \in Nat
        /\ (\A i \in entries : eventData[i].rule # r) => more(r) = 0
        /\ (\A i, j \in entries : eventData[i].rule = r /\ eventData[j].rule = r => i = j)
                => more(r) <= 1
        /\ r \in listeners /\ (\E i \in entries : eventData[i].rule = r) => more(r) >= 1
    BY <1>2 DEF more
  <2> QED
    BY <2>1, <2>2, <1>6
<1> QED
  BY <1>3, <1>4, <1>6, <1>7 DEF EntryHooksCalled

-----------------------------------------------------------------------------
(* The flow *)

(* How the kind of a request limits its answer. *)
LEMMA NatureFacts ==
    ASSUME nature \in Natures
    PROVE  /\ nature.kind \in AllKinds /\ nature.answer \in Answers
           /\ nature.kind \in {"ajax", "webSocket"} => nature.answer # "process"
           /\ nature.kind \in {"webSocket", "blank"} => nature.answer # "notModified"
           /\ nature.kind = "blank" => nature.answer # "redirect"
           /\ ~nature.sameOriginOk => nature.kind = "ajax" /\ Piped
BY KindsAssumption DEF Natures, Answers, Piped

(* A request starts with nothing sent and nothing asked. *)
LEMMA FlowInit == Init => FlowInv
<1> SUFFICES ASSUME Init PROVE FlowInv
  OBVIOUS
<1>1. calls \in [HookEvents -> [Rules -> Nat]]
  BY DEF Init
<1>2. TypeOK
  <2>1. /\ stage \in Stages /\ nature \in Natures /\ listeners \subseteq Rules
        /\ dest \in DestStates /\ browser \in Browser
    BY DEF Init, Stages, DestStates, Browser
  <2>2. /\ eventData = <<>> /\ eventData \in Seq([rule : Rules, includeBody : BOOLEAN])
        /\ rules = {} /\ touched = {} /\ running = {} /\ invoked = {}
        /\ mocked = FALSE /\ goToNext = TRUE /\ wsReset = FALSE /\ crashed = FALSE
    BY DEF Init
  <2> QED
    BY <1>1, <2>1, <2>2 DEF TypeOK
<1> QED
  BY <1>2 DEF Init, FlowInv, PathInv, ErrorInv, HookInv, CrashInv, NoCrashWithoutHooks, FreeInv,
              Before, Configuring, Responding, PipedHooked

(* A step that neither changes the stage nor what the flow depends on.                       *)
LEMMA FlowUntouched ==
    ASSUME FlowInv,
           UNCHANGED <<stage, nature, rules, mocked, eventData, goToNext, dest, browser, wsReset, crashed>>,
           running' \subseteq running, listeners' \subseteq Rules, touched' \subseteq Rules,
           UNCHANGED <<invoked, calls>>
    PROVE  FlowInv'
BY DEF Piped, FlowInv, TypeOK, PathInv, ErrorInv, HookInv, CrashInv, NoCrashWithoutHooks, FreeInv

(* The head of the answer and the stages are decided on.                                     *)
LEMMA DecideFlow ==
    ASSUME FlowInv, CheckSameOriginPolicyCompliance \/ (stage = "sopResponse" /\ DecideOnProcessingStrategy),
           stage \in {"reqBody", "mockBody", "destination", "sopResponse"},
           UNCHANGED <<requestVars, envVars>>, dest' \in DestStates,
           mocked => dest' \notin {"pending", "responding"},
           dest' = "responding" => stage \in {"destination", "sopResponse"},
           dest' = "responding" /\ nature.kind = "webSocket" => ~browser.closed,
           nature.kind # "blank" => stage # "reqBody"
    PROVE  FlowInv'
<1> USE DEF FlowInv, Piped
<1>k. /\ nature \in Natures /\ nature' = nature /\ rules' = rules /\ mocked' = mocked
      /\ listeners' = listeners /\ touched' = touched
  BY DEF requestVars, envVars, TypeOK
<1>h. browser \in Browser /\ browser.head = "none" /\ (browser.ended => nature.kind = "webSocket")
  BY DEF PathInv, Before, TypeOK
<1>c. ~crashed
  BY DEF CrashInv
<1>1. CASE nature.kind = "webSocket" /\ DecideOnProcessingStrategy
  <2>1. /\ goToNext' = FALSE /\ browser' = [browser EXCEPT !.head = "response"]
        /\ \/ mocked /\ stage' = "rejected" /\ crashed' = TRUE
           \/ ~mocked /\ stage' = "tunnel" /\ crashed' = crashed
        /\ UNCHANGED <<running, invoked, eventData, calls, wsReset>>
    BY <1>1, <1>k, NatureFacts DEF DecideOnProcessingStrategy, hookVars
  <2>2. /\ browser' \in Browser /\ browser'.head = "response"
        /\ browser'.ended = browser.ended /\ browser'.closed = browser.closed
        /\ stage' \in Stages /\ goToNext' \in BOOLEAN /\ crashed' \in BOOLEAN
    BY <1>h, <2>1 DEF Browser, Stages, TypeOK
  <2>3. TypeOK'
    BY <1>k, <2>1, <2>2 DEF TypeOK
  <2> QED
    BY <1>1, <2>1, <2>2, <2>3, <1>k, <1>c
    DEF PathInv, ErrorInv, HookInv, CrashInv, NoCrashWithoutHooks, FreeInv,
        Before, Configuring, Responding, PipedHooked, Stages, HookStages, Browser
<1>2. CASE nature.kind # "webSocket" /\ nature.answer = "process" /\ DecideOnProcessingStrategy
  <2>1. /\ goToNext' = TRUE /\ stage' = "fetch"
        /\ UNCHANGED <<running, invoked, eventData, calls, browser, wsReset, crashed>>
    BY <1>2, <1>k, NatureFacts DEF DecideOnProcessingStrategy, hookVars
  <2> QED
    BY <1>2, <2>1, <1>k, <1>h, <1>c, NatureFacts
    DEF TypeOK, PathInv, ErrorInv, HookInv, CrashInv, NoCrashWithoutHooks, FreeInv,
        Before, Configuring, Responding, PipedHooked, Stages, HookStages, Browser
<1>3. CASE nature.kind = "blank" /\ nature.answer = "pipe" /\ DecideOnProcessingStrategy
  <2>1. /\ goToNext' = FALSE /\ browser' = [browser EXCEPT !.head = "response", !.ended = TRUE]
        /\ stage' = "done"
        /\ UNCHANGED <<running, invoked, eventData, calls, wsReset, crashed>>
    BY <1>3, <1>k, NatureFacts DEF DecideOnProcessingStrategy, hookVars
  <2> QED
    BY <1>3, <2>1, <1>k, <1>h, <1>c, NatureFacts
    DEF TypeOK, PathInv, ErrorInv, HookInv, CrashInv, NoCrashWithoutHooks, FreeInv,
        Before, Configuring, Responding, PipedHooked, Stages, HookStages, Browser
<1>4. CASE nature.kind \in {"page", "asset", "ajax"} /\ nature.answer # "process" /\ DecideOnProcessingStrategy
  <2>1. /\ goToNext' = FALSE /\ stage' = "configurePiped"
        /\ CallRuleHooks("onConfigureResponse", rules)
        /\ UNCHANGED <<browser, wsReset, crashed>>
    BY <1>4, <1>k, NatureFacts DEF DecideOnProcessingStrategy
  <2>2. RuleHooksCalled("onConfigureResponse", rules)
    BY <2>1, RuleHooks DEF HookEvents, TypeOK
  <2> QED
    BY <1>4, <2>1, <2>2, <1>k, <1>h, <1>c, NatureFacts
    DEF TypeOK, PathInv, ErrorInv, HookInv, CrashInv, NoCrashWithoutHooks, FreeInv, RuleHooksCalled, CountsTyped,
        Before, Configuring, Responding, PipedHooked, Stages, HookStages, Browser
<1>5. CASE ~nature.sameOriginOk /\ CheckSameOriginPolicyCompliance
  <2>1. /\ goToNext' = TRUE /\ stage' = "sopConfigure"
        /\ CallRuleHooks("onConfigureResponse", rules)
        /\ UNCHANGED <<browser, wsReset, crashed>>
    BY <1>5 DEF CheckSameOriginPolicyCompliance
  <2>2. RuleHooksCalled("onConfigureResponse", rules)
    BY <2>1, RuleHooks DEF HookEvents, TypeOK
  <2> QED
    BY <1>5, <2>1, <2>2, <1>k, <1>h, <1>c, NatureFacts
    DEF TypeOK, PathInv, ErrorInv, HookInv, CrashInv, NoCrashWithoutHooks, FreeInv, RuleHooksCalled, CountsTyped,
        Before, Configuring, Responding, PipedHooked, Stages, HookStages, Browser
<1> QED
  BY <1>1, <1>2, <1>3, <1>4, <1>5, <1>k, NatureFacts
  DEF CheckSameOriginPolicyCompliance, AllKinds, Answers, DecideOnProcessingStrategy

(* An error is answered: an ajax connection is closed, another answer ends.                  *)
ErrorAnswered ==
    /\ browser' \in Browser /\ goToNext' \in BOOLEAN
    /\ nature.kind = "ajax" =>
            /\ browser'.closed = TRUE /\ browser'.head = browser.head /\ browser'.ended = browser.ended
            /\ goToNext' = goToNext
    /\ nature.kind # "ajax" =>
            /\ browser'.ended = TRUE /\ browser'.closed = browser.closed /\ goToNext' = FALSE
            /\ browser'.head = IF browser.head = "none" /\ nature.kind # "webSocket"
                               THEN "error" ELSE browser.head

(* What error() does to the answer. *)
LEMMA ErrorAnswer ==
    ASSUME TypeOK, AnswerWithError
    PROVE  ErrorAnswered
BY DEF TypeOK, AnswerWithError, ClosedWithError, ErrorAnswered, Browser

(* Every step keeps the flow invariant. *)
LEMMA FlowStep ==
    ASSUME FlowInv, [Next]_vars
    PROVE  FlowInv'
<1> USE DEF FlowInv, Piped, requestVars, hookVars, envVars, endVars
<1>n. /\ nature.kind \in AllKinds /\ nature.answer \in Answers
      /\ nature.kind \in {"ajax", "webSocket"} => nature.answer # "process"
      /\ nature.kind \in {"webSocket", "blank"} => nature.answer # "notModified"
      /\ nature.kind = "blank" => nature.answer # "redirect"
      /\ ~nature.sameOriginOk => nature.kind = "ajax" /\ Piped
  BY NatureFacts DEF TypeOK
<1>e. ASSUME NEW entries \in SUBSET (DOMAIN eventData), CallResponseHooks(entries)
      PROVE  EntryHooksCalled(entries)
  BY <1>e, EntryHooks
<1>1. CASE ReqBodyFetched
  <2>1. CASE nature.kind = "blank"
    BY <1>1, <2>1, DecideFlow DEF ReqBodyFetched, TypeOK, DestStates, HookInv, Before
  <2>2. CASE nature.kind # "blank"
    BY <1>1, <2>2, <1>n DEF ReqBodyFetched, TypeOK, PathInv, ErrorInv, HookInv, CrashInv,
       NoCrashWithoutHooks, FreeInv, Before, Configuring, Responding, PipedHooked, Stages
  <2> QED
    BY <2>1, <2>2
<1>2. CASE ReqBodyFailed
  BY <1>2, <1>n DEF ReqBodyFailed, TypeOK, PathInv, ErrorInv, HookInv, CrashInv,
     NoCrashWithoutHooks, FreeInv, Before, Configuring, Responding, PipedHooked, Stages
<1>3. ASSUME NEW matched \in SUBSET Rules, RulesMatched(matched) PROVE FlowInv'
  <2>1. RuleHooksCalled("onRequest", matched)
    BY <1>3, RuleHooks DEF RulesMatched, HookEvents
  <2> QED
    BY <1>3, <2>1, <1>n DEF RulesMatched, RuleHooksCalled, CountsTyped, TypeOK, PathInv, ErrorInv, HookInv, CrashInv,
       NoCrashWithoutHooks, FreeInv, Before, Configuring, Responding, PipedHooked, Stages, HookStages
<1>4. ASSUME NEW r \in Rules, NEW setsMock \in BOOLEAN, OnRequestDone(r, setsMock) PROVE FlowInv'
  BY <1>4, <1>n DEF OnRequestDone, TypeOK, PathInv, ErrorInv, HookInv, CrashInv,
     NoCrashWithoutHooks, FreeInv, Before, Configuring, Responding, PipedHooked
<1>5. CASE SendDestinationRequest
  BY <1>5, <1>n DEF SendDestinationRequest, TypeOK, PathInv, ErrorInv, HookInv, CrashInv,
     NoCrashWithoutHooks, FreeInv, Before, Configuring, Responding, PipedHooked, Stages, DestStates
<1>6. CASE MockResponded
  BY <1>6, DecideFlow DEF MockResponded, TypeOK, DestStates
<1>7. CASE DestResponse
  <2>1. CASE wsReset
    BY <1>7, <2>1, <1>n DEF DestResponse, ResponseIsUnwanted, TypeOK, PathInv, ErrorInv, HookInv, CrashInv,
       NoCrashWithoutHooks, FreeInv, Before, Configuring, Responding, PipedHooked, Stages, DestStates
  <2>2. CASE ~wsReset
    BY <1>7, <2>2, DecideFlow DEF DestResponse, ResponseIsUnwanted, TypeOK,
       DestStates, HookInv, FreeInv, PathInv
  <2> QED
    BY <2>1, <2>2
<1>8. CASE DestErrorBeforeResponse
  <2>1. ErrorAnswered
    BY <1>8, ErrorAnswer DEF DestErrorBeforeResponse
  <2>2. /\ stage = "destination" /\ dest' = "failed" /\ stage' = "done"
        /\ UNCHANGED <<requestVars, hookVars, envVars, wsReset, crashed>>
    BY <1>8 DEF DestErrorBeforeResponse
  <2> QED
    BY <2>1, <2>2, <1>n DEF ErrorAnswered, TypeOK, PathInv, ErrorInv, HookInv, CrashInv,
       NoCrashWithoutHooks, FreeInv, Before, Configuring, Responding, PipedHooked, Stages, DestStates
<1>9. CASE DestSocketHangUp
  BY <1>9, <1>n DEF DestSocketHangUp, TypeOK, PathInv, ErrorInv, HookInv, CrashInv,
     NoCrashWithoutHooks, FreeInv, Before, Configuring, Responding, PipedHooked, Stages, DestStates, Browser
<1>10. ASSUME NEW lost \in BOOLEAN, DestErrorAfterResponse(lost) PROVE FlowInv'
  <2>0. /\ stage \notin Before \cup {"destination", "rejected"}
        /\ stage \in HookStages => running # {}
        /\ UNCHANGED <<requestVars, hookVars, envVars, wsReset, crashed>>
    BY <1>10 DEF DestErrorAfterResponse, MicrotasksDrained, PathInv
  <2>1. CASE dest = "complete"
    BY <1>10, <2>1, FlowUntouched DEF DestErrorAfterResponse, ErrorStillMatters, TypeOK
  <2>2. CASE dest = "responding" /\ ~ErrorStillMatters
    <3>1. dest' \in {dest, "died"} /\ UNCHANGED <<stage, browser, goToNext>>
      BY <1>10, <2>2 DEF DestErrorAfterResponse
    <3> QED
      BY <2>0, <2>2, <3>1, <1>n DEF TypeOK, PathInv, ErrorInv, HookInv, CrashInv,
         NoCrashWithoutHooks, FreeInv, DestStates, Before
  <2>3. CASE dest = "responding" /\ ErrorStillMatters
    <3>1. ErrorAnswered
      BY <1>10, <2>3, ErrorAnswer DEF DestErrorAfterResponse
    <3>3. CASE stage = "piping" /\ nature.kind = "ajax"
      <4>1. dest' = "destroyed" /\ stage' = "done"
        BY <1>10, <2>3, <3>3 DEF DestErrorAfterResponse
      <4> QED
        BY <2>0, <3>1, <3>3, <4>1, <1>n DEF ErrorAnswered, TypeOK, PathInv, ErrorInv, HookInv, CrashInv,
           NoCrashWithoutHooks, FreeInv, Before, Configuring, Responding, PipedHooked, Stages, DestStates
    <3>4. CASE ~(stage = "piping" /\ nature.kind = "ajax")
      <4>1. dest' \in {dest, "failed"} /\ stage' = stage
        BY <1>10, <2>3, <3>4 DEF DestErrorAfterResponse
      <4>2. TypeOK'
        BY <2>0, <3>1, <4>1 DEF ErrorAnswered, TypeOK, DestStates
      <4>3. PathInv' /\ ErrorInv'
        BY <2>0, <2>3, <3>1, <4>1, <1>n DEF ErrorAnswered, TypeOK, PathInv, ErrorInv,
           Before, PipedHooked, Stages, HookStages
      <4>4. HookInv' /\ NoCrashWithoutHooks'
        BY <2>0, <2>3, <3>1, <4>1 DEF ErrorAnswered, HookInv, CrashInv, NoCrashWithoutHooks, Browser
      <4>5. CrashInv'
        BY <2>0, <2>3, <3>1, <4>1 DEF CrashInv, HookInv, HookStages, Configuring, Responding
      <4>6. FreeInv'
        BY <2>0, <2>3, <3>1, <3>4, <4>1 DEF ErrorAnswered, FreeInv, PathInv, Before
      <4> QED
        BY <4>2, <4>3, <4>4, <4>5, <4>6
    <3> QED
      BY <3>3, <3>4
  <2> QED
    BY <1>10, <2>1, <2>2, <2>3 DEF DestErrorAfterResponse
<1>11. CASE DestDies
  BY <1>11, <1>n DEF DestDies, TypeOK, PathInv, ErrorInv, HookInv, CrashInv,
     NoCrashWithoutHooks, FreeInv, Before, Configuring, Responding, PipedHooked, DestStates
<1>12. ASSUME NEW r \in Rules, NEW b \in BOOLEAN, ConfigureResponseDone(r, b) PROVE FlowInv'
  BY <1>12, <1>n DEF ConfigureResponseDone, TypeOK, PathInv, ErrorInv, HookInv, CrashInv,
     NoCrashWithoutHooks, FreeInv, Before, Configuring, Responding, PipedHooked
<1>13. CASE SopResponseHooks
  <2>1. EntryHooksCalled(DOMAIN eventData)
    BY <1>13, <1>e DEF SopResponseHooks
  <2> QED
    BY <1>13, <2>1, <1>n DEF SopResponseHooks, EntryHooksCalled, CountsTyped, TypeOK, PathInv, ErrorInv, HookInv, CrashInv,
       NoCrashWithoutHooks, FreeInv, Before, Configuring, Responding, PipedHooked, Stages, HookStages
<1>14. CASE SopDone
  BY <1>14, <1>n, DecideFlow DEF SopDone, TypeOK, HookInv, PathInv
<1>15. ASSUME NEW i \in DOMAIN eventData, ResponseHookDone(i) PROVE FlowInv'
  BY <1>15, FlowUntouched DEF ResponseHookDone, TypeOK
<1>16. CASE PipedResponse
  <2>1. CASE WriteToEndedResponse
    BY <1>16, <2>1, <1>n DEF PipedResponse, HeadersRefused, WriteToEndedResponse, TypeOK, PathInv, ErrorInv, HookInv, CrashInv,
       NoCrashWithoutHooks, FreeInv, Before, Configuring, Responding, PipedHooked, Stages
  <2>2. CASE ~HeadersRefused
    <3>1. /\ stage = "configurePiped" /\ running = {} /\ browser.head = "none"
          /\ browser' \in Browser /\ browser'.head = "response"
          /\ browser'.ended = browser.ended /\ browser'.closed = browser.closed
          /\ UNCHANGED <<nature, rules, mocked, listeners, touched, goToNext, wsReset, crashed>>
      BY <1>16, <2>2 DEF PipedResponse, HeadersRefused, WriteToEndedResponse, Browser, TypeOK
    <3>2. CASE /\ nature.answer = "notModified" /\ stage' = "respondAll"
               /\ CallResponseHooks(DOMAIN eventData) /\ UNCHANGED dest
      <4>1. EntryHooksCalled(DOMAIN eventData)
        BY <3>2, <1>e
      <4> QED
        BY <3>1, <3>2, <4>1, <1>n DEF EntryHooksCalled, CountsTyped, TypeOK, PathInv, ErrorInv, HookInv,
           CrashInv, NoCrashWithoutHooks, FreeInv, Before, Configuring, Responding, PipedHooked, Stages, HookStages
    <3>3. CASE /\ Piped /\ EntriesWithBody(TRUE) # {} /\ stage' = "collect"
               /\ UNCHANGED <<hookVars, dest>>
      <4>1. rules # {}
        BY <3>3 DEF EntriesWithBody, HookInv
      <4> QED
        BY <3>1, <3>3, <4>1, <1>n DEF TypeOK, PathInv, ErrorInv, HookInv,
           CrashInv, NoCrashWithoutHooks, FreeInv, Before, Configuring, Responding, PipedHooked, Stages
    <3>4. CASE /\ Piped /\ EntriesWithBody(FALSE) # {} /\ stage' = "respondWithoutBody"
               /\ CallResponseHooks(EntriesWithBody(FALSE)) /\ UNCHANGED dest
      <4>1. EntryHooksCalled(EntriesWithBody(FALSE)) /\ EntriesWithBody(FALSE) \subseteq DOMAIN eventData
        BY <3>4, <1>e DEF EntriesWithBody
      <4>2. rules # {}
        BY <3>4 DEF EntriesWithBody, HookInv
      <4>3. /\ running' \subseteq DOMAIN eventData /\ invoked' \subseteq Rules /\ eventData' = eventData
            /\ calls' \in CountsTyped /\ dest' = dest
        BY <3>4, <4>1 DEF EntryHooksCalled
      <4>4. TypeOK'
        BY <3>1, <3>4, <4>3 DEF CountsTyped, TypeOK, Stages, HookStages
      <4> QED
        BY <3>1, <3>4, <4>2, <4>3, <4>4, <1>n DEF PathInv, ErrorInv, HookInv,
           CrashInv, NoCrashWithoutHooks, FreeInv, Before, Configuring, Responding, PipedHooked
    <3>5. CASE /\ Piped /\ UNCHANGED hookVars
               /\ IF ClientGone THEN stage' = "done" /\ dest' = "destroyed"
                                ELSE stage' = "piping" /\ UNCHANGED dest
      BY <3>1, <3>5, <1>n DEF ClientGone, ReadableEnded, TypeOK, PathInv, ErrorInv, HookInv, CrashInv,
         NoCrashWithoutHooks, FreeInv, Before, Configuring, Responding, PipedHooked, Stages, DestStates
    <3> QED
      BY <1>16, <2>2, <3>2, <3>3, <3>4, <3>5 DEF PipedResponse
  <2> QED
    BY <1>16, <2>1, <2>2 DEF PipedResponse
<1>17. CASE BodyCollected
  <2>1. EntryHooksCalled(EntriesWithBody(TRUE))
    BY <1>17, <1>e DEF BodyCollected, EntriesWithBody
  <2> QED
    BY <1>17, <2>1, <1>n DEF BodyCollected, EntriesWithBody, EntryHooksCalled, CountsTyped, TypeOK, PathInv, ErrorInv, HookInv, CrashInv,
       NoCrashWithoutHooks, FreeInv, Before, Configuring, Responding, PipedHooked, Stages, HookStages, DestStates
<1>18. CASE PipedHooksDone
  BY <1>18, <1>n DEF PipedHooksDone, TypeOK, PathInv, ErrorInv, HookInv, CrashInv,
     NoCrashWithoutHooks, FreeInv, Before, Configuring, Responding, PipedHooked, Stages, Browser
<1>19. CASE PipeFinished
  BY <1>19, <1>n DEF PipeFinished, TypeOK, PathInv, ErrorInv, HookInv, CrashInv,
     NoCrashWithoutHooks, FreeInv, Before, Configuring, Responding, PipedHooked, Stages, DestStates, Browser
<1>20. ASSUME NEW b \in BOOLEAN, BodyFetched(b) PROVE FlowInv'
  BY <1>20, <1>n DEF BodyFetched, RunNext, TypeOK, PathInv, ErrorInv, HookInv, CrashInv,
     NoCrashWithoutHooks, FreeInv, Before, Configuring, Responding, PipedHooked, Stages, DestStates
<1>21. CASE BodyFetchFailed
  BY <1>21, <1>n DEF BodyFetchFailed, TypeOK, PathInv, ErrorInv, HookInv, CrashInv,
     NoCrashWithoutHooks, FreeInv, Before, Configuring, Responding, PipedHooked, Stages
<1>22. CASE DestEnds
  BY <1>22, <1>n DEF DestEnds, TypeOK, PathInv, ErrorInv, HookInv, CrashInv,
     NoCrashWithoutHooks, FreeInv, Before, Configuring, Responding, PipedHooked, DestStates
<1>23. CASE Processed
  <2>1. CASE goToNext
    <3>1. RuleHooksCalled("onConfigureResponse", rules)
      BY <1>23, <2>1, RuleHooks DEF Processed, RunNext, HookEvents, TypeOK
    <3> QED
      BY <1>23, <2>1, <3>1, <1>n DEF Processed, RunNext, RuleHooksCalled, CountsTyped, TypeOK, PathInv, ErrorInv, HookInv, CrashInv,
         NoCrashWithoutHooks, FreeInv, Before, Configuring, Responding, PipedHooked, Stages, HookStages, Browser
  <2>2. CASE ~goToNext
    BY <1>23, <2>2, <1>n DEF Processed, RunNext, TypeOK, PathInv, ErrorInv, HookInv, CrashInv,
       NoCrashWithoutHooks, FreeInv, Before, Configuring, Responding, PipedHooked, Stages
  <2> QED
    BY <2>1, <2>2
<1>24. CASE ProcessingFailed
  <2>1. ErrorAnswered
    BY <1>24, ErrorAnswer DEF ProcessingFailed
  <2>2. /\ stage = "process" /\ stage' = "done"
        /\ UNCHANGED <<requestVars, hookVars, envVars, dest, wsReset, crashed>>
    BY <1>24 DEF ProcessingFailed
  <2> QED
    BY <2>1, <2>2, <1>n DEF ErrorAnswered, TypeOK, PathInv, ErrorInv, HookInv, CrashInv,
       NoCrashWithoutHooks, FreeInv, Before, Configuring, Responding, PipedHooked, Stages
<1>25. CASE SendProxyResponse
  <2>1. CASE WriteToEndedResponse
    BY <1>25, <2>1, <1>n DEF SendProxyResponse, HeadersRefused, WriteToEndedResponse, TypeOK, PathInv, ErrorInv, HookInv, CrashInv,
       NoCrashWithoutHooks, FreeInv, Before, Configuring, Responding, PipedHooked, Stages
  <2>2. CASE ~HeadersRefused
    BY <1>25, <2>2, <1>n, <1>e DEF SendProxyResponse, HeadersRefused, EntryHooksCalled, CountsTyped, TypeOK, PathInv, ErrorInv, HookInv, CrashInv,
       NoCrashWithoutHooks, FreeInv, Before, Configuring, Responding, PipedHooked, Stages, HookStages, Browser
  <2> QED
    BY <1>25, <2>1, <2>2 DEF SendProxyResponse
<1>26. CASE SendBody
  <2>1. CASE browser.ended
    BY <1>26, <2>1, <1>n DEF SendBody, WriteToEndedResponse, TypeOK, PathInv, ErrorInv, HookInv, CrashInv,
       NoCrashWithoutHooks, FreeInv, Before, Configuring, Responding, PipedHooked, Stages
  <2>2. CASE ~browser.ended
    <3>1. /\ browser' \in Browser /\ browser'.head = browser.head
          /\ browser'.ended = TRUE /\ browser'.closed = browser.closed
          /\ stage = "respondProcessed" /\ stage' = "done"
          /\ UNCHANGED <<requestVars, hookVars, envVars, goToNext, dest, wsReset, crashed>>
      BY <1>26, <2>2 DEF SendBody, TypeOK, Browser
    <3>2. TypeOK' /\ PathInv' /\ ErrorInv'
      BY <3>1, <1>n DEF TypeOK, Stages, PathInv, ErrorInv, Before, PipedHooked
    <3>3. HookInv' /\ CrashInv' /\ NoCrashWithoutHooks' /\ FreeInv'
      BY <3>1, <1>n DEF HookInv, CrashInv, NoCrashWithoutHooks, FreeInv, PathInv, Before, Configuring,
         Responding, PipedHooked
    <3> QED
      BY <3>2, <3>3
  <2> QED
    BY <2>1, <2>2
<1>27. ASSUME NEW r \in Rules, AddListener(r) \/ RemoveListener(r) PROVE FlowInv'
  BY <1>27, FlowUntouched DEF AddListener, RemoveListener, TypeOK
<1>28. CASE BrowserCloses
  <2>1. /\ browser' \in Browser /\ browser'.head = browser.head
        /\ browser'.ended = browser.ended /\ browser'.closed = TRUE
        /\ nature.kind # "webSocket"
        /\ \/ stage = "piping" /\ stage' = "done" /\ dest' = "destroyed" /\ ~ReadableEnded
           \/ (stage # "piping" \/ ReadableEnded) /\ stage' = stage /\ dest' = dest
        /\ UNCHANGED <<requestVars, hookVars, envVars, goToNext, wsReset, crashed>>
    BY <1>28 DEF BrowserCloses, TypeOK, Browser
  <2>2. TypeOK'
    BY <2>1 DEF TypeOK, Stages, DestStates
  <2>3. PathInv' /\ ErrorInv'
    BY <2>1, <1>n DEF PathInv, ErrorInv, Before, PipedHooked
  <2>4. HookInv' /\ CrashInv' /\ NoCrashWithoutHooks'
    BY <2>1 DEF HookInv, CrashInv, NoCrashWithoutHooks, Before, Configuring, Responding
  <2>5. FreeInv'
    BY <2>1, <1>n DEF FreeInv, PathInv, Before, PipedHooked, ReadableEnded
  <2> QED
    BY <2>2, <2>3, <2>4, <2>5
<1>29. CASE WebSocketReset
  <2>1. /\ browser' \in Browser /\ browser'.head = browser.head
        /\ browser'.ended = browser.ended /\ browser'.closed = TRUE
        /\ nature.kind = "webSocket" /\ ~browser.ended
        /\ \/ mocked /\ stage' = "rejected" /\ crashed' = TRUE /\ dest' = dest /\ wsReset' = wsReset
           \/ /\ ~mocked /\ dest = "responding" /\ dest' = "destroyed" /\ stage' = "done"
              /\ crashed' = crashed /\ wsReset' = wsReset
           \/ /\ ~mocked /\ dest # "responding" /\ stage' = stage /\ dest' = dest
              /\ crashed' = crashed /\ wsReset' = TRUE
        /\ UNCHANGED <<requestVars, hookVars, envVars, goToNext>>
    BY <1>29 DEF WebSocketReset, TypeOK, Browser
  <2>2. TypeOK'
    BY <2>1 DEF TypeOK, Stages, DestStates
  <2>3. PathInv' /\ ErrorInv'
    BY <2>1, <1>n DEF PathInv, ErrorInv, Before, PipedHooked
  <2>4. HookInv' /\ CrashInv' /\ NoCrashWithoutHooks'
    BY <2>1 DEF HookInv, CrashInv, NoCrashWithoutHooks, Before, Configuring, Responding
  <2>5. FreeInv'
    BY <2>1, <1>n DEF FreeInv, HookInv, PathInv, Before, PipedHooked
  <2> QED
    BY <2>2, <2>3, <2>4, <2>5
<1>30. CASE TunnelEnds
  BY <1>30, <1>n DEF TunnelEnds, TypeOK, PathInv, ErrorInv, HookInv, CrashInv,
     NoCrashWithoutHooks, FreeInv, Before, Configuring, Responding, PipedHooked, Stages, DestStates, Browser
<1>31. CASE UNCHANGED vars
  BY <1>31, FlowUntouched DEF vars, TypeOK
<1> QED
  BY <1>1, <1>2, <1>3, <1>4, <1>5, <1>6, <1>7, <1>8, <1>9, <1>10, <1>11, <1>12, <1>13, <1>14, <1>15,
     <1>16, <1>17, <1>18, <1>19, <1>20, <1>21, <1>22, <1>23, <1>24, <1>25, <1>26, <1>27, <1>28, <1>29,
     <1>30, <1>31
  DEF Next, Hooks, Pipeline, Destination, Environment

-----------------------------------------------------------------------------
(* Every rule hears once *)

EarlyStages == Before \cup {"destination", "fetch", "process"}

(* No hook has been called at first. *)
LEMMA CallInit == Init => CallInv
BY DEF Init, CallInv, Configuring, HookEvents

(* A step that calls no hook and makes no entry.                                             *)
LEMMA CallKept ==
    ASSUME CallInv, UNCHANGED <<nature, rules, eventData, calls>>,
           \/ stage' = stage /\ running' \subseteq running
           \/ stage' \in EarlyStages /\ stage \in EarlyStages
           \/ stage' \in {"done", "rejected", "tunnel", "piping", "pipingAfterHooks"}
           \/ stage' = "collect" /\ stage = "configurePiped"
    PROVE  CallInv'
BY DEF CallInv, EarlyStages, Before, Configuring

(* The rules of the request are asked how to configure the response, for the first time.     *)
LEMMA CallConfigure ==
    ASSUME FlowInv, CallInv, RuleHooksCalled("onConfigureResponse", rules),
           stage \in EarlyStages \/ ~nature.sameOriginOk, stage' \in Configuring,
           UNCHANGED <<nature, rules>>
    PROVE  CallInv'
<1> SUFFICES ASSUME nature.sameOriginOk
             PROVE  CallInv'
  BY DEF CallInv
<1>1. /\ \A r \in Rules : calls["onConfigureResponse"][r] = 0 /\ calls["onResponse"][r] = 0
      /\ eventData = <<>>
  BY DEF CallInv, EarlyStages
<1>2. \A r \in Rules : /\ calls'["onResponse"][r] = 0
                       /\ calls'["onConfigureResponse"][r] \in {0, 1}
                       /\ r \notin rules => calls'["onConfigureResponse"][r] = 0
  BY <1>1 DEF RuleHooksCalled, HookEvents
<1> QED
  BY <1>1, <1>2 DEF RuleHooksCalled, CallInv, Before, Configuring

(* The rules that have an entry are told of the response, for the first time.                *)
LEMMA CallRespond ==
    ASSUME FlowInv, CallInv, NEW entries \in SUBSET (DOMAIN eventData), EntryHooksCalled(entries),
           stage \in Configuring \cup {"collect"} \/ ~nature.sameOriginOk, stage' \in Responding,
           UNCHANGED <<nature, rules>>
    PROVE  CallInv'
<1> SUFFICES ASSUME nature.sameOriginOk
             PROVE  CallInv'
  BY DEF CallInv
<1>1. /\ \A r \in Rules : calls["onResponse"][r] = 0
      /\ \A i, j \in DOMAIN eventData : eventData[i].rule = eventData[j].rule => i = j
      /\ \A i \in DOMAIN eventData : eventData[i].rule \in rules
  BY DEF CallInv, FlowInv, HookInv
<1>2. /\ calls' \in CountsTyped /\ eventData' = eventData
      /\ \A r \in Rules : calls'["onConfigureResponse"][r] = calls["onConfigureResponse"][r]
  BY DEF EntryHooksCalled, HookEvents
<1>3. ASSUME NEW r \in Rules
      PROVE  calls'["onResponse"][r] <= 1 /\ (calls'["onResponse"][r] = 1 => r \in rules)
  <2>1. /\ (\A i \in entries : eventData[i].rule # r) => calls'["onResponse"][r] = 0
        /\ (\A i, j \in entries : eventData[i].rule = r /\ eventData[j].rule = r => i = j)
              => calls'["onResponse"][r] <= 0 + 1
    BY <1>1 DEF EntryHooksCalled
  <2>2. \A i, j \in entries : eventData[i].rule = r /\ eventData[j].rule = r => i = j
    BY <1>1
  <2>3. calls'["onResponse"][r] = 1 => r \in rules
    BY <2>1, <1>1
  <2> QED
    BY <2>1, <2>2, <2>3
<1>4. stage' \notin Before \cup {"destination", "fetch", "process", "collect"} \cup Configuring
  BY DEF Responding, Before, Configuring
<1> QED
  BY <1>1, <1>2, <1>3, <1>4 DEF CallInv, Before

(* Stages 4 and 5 ask the rules once. *)
LEMMA CallDecide ==
    ASSUME FlowInv, CallInv,
           CheckSameOriginPolicyCompliance \/ (stage = "sopResponse" /\ DecideOnProcessingStrategy),
           stage \in {"reqBody", "mockBody", "destination", "sopResponse"}, UNCHANGED requestVars
    PROVE  CallInv'
<1>1. UNCHANGED <<nature, rules>>
  BY DEF requestVars
<1>2. stage \in EarlyStages \/ ~nature.sameOriginOk
  BY DEF FlowInv, PathInv, EarlyStages, Before
<1>3. CASE CallRuleHooks("onConfigureResponse", rules) /\ stage' \in Configuring
  <2>1. RuleHooksCalled("onConfigureResponse", rules)
    BY <1>3, RuleHooks DEF HookEvents, FlowInv, TypeOK
  <2> QED
    BY <1>1, <1>2, <1>3, <2>1, CallConfigure
<1>4. CASE UNCHANGED hookVars /\ stage' \in {"rejected", "tunnel", "fetch", "done"}
  <2>1. CASE nature.sameOriginOk
    BY <1>1, <1>2, <1>4, <2>1, CallKept DEF hookVars, EarlyStages
  <2>2. CASE ~nature.sameOriginOk
    BY <1>1, <2>2 DEF CallInv
  <2> QED
    BY <2>1, <2>2
<1> QED
  BY <1>3, <1>4 DEF CheckSameOriginPolicyCompliance, DecideOnProcessingStrategy, Configuring

(* Every step keeps the count of calls. *)
LEMMA CallStep ==
    ASSUME FlowInv, CallInv, [Next]_vars
    PROVE  CallInv'
<1> USE DEF requestVars, hookVars, envVars, endVars
<1>e. ASSUME NEW entries \in SUBSET (DOMAIN eventData), CallResponseHooks(entries)
      PROVE  EntryHooksCalled(entries)
  BY <1>e, EntryHooks DEF FlowInv
<1>w. ASSUME NEW wanted
      PROVE  EntriesWithBody(wanted) \subseteq DOMAIN eventData
  BY DEF EntriesWithBody
<1>s. ASSUME stage \in {"sopConfigure", "sopResponse"}
      PROVE  ~nature.sameOriginOk
  BY <1>s DEF FlowInv, PathInv
<1>1. CASE ReqBodyFetched
  <2>1. CASE nature.kind = "blank"
    BY <1>1, <2>1, CallDecide DEF ReqBodyFetched
  <2>2. CASE nature.kind # "blank"
    BY <1>1, <2>2 DEF ReqBodyFetched, CallInv, Before, Configuring
  <2> QED
    BY <2>1, <2>2
<1>2. CASE ReqBodyFailed
  BY <1>2, CallKept DEF ReqBodyFailed
<1>3. ASSUME NEW matched \in SUBSET Rules, RulesMatched(matched) PROVE CallInv'
  <2>1. RuleHooksCalled("onRequest", matched)
    BY <1>3, RuleHooks DEF RulesMatched, HookEvents, FlowInv
  <2>2. /\ stage = "matchRules" /\ stage' = "onRequest" /\ nature' = nature /\ eventData' = eventData
        /\ \A e \in {"onConfigureResponse", "onResponse"}, r \in Rules : calls'[e][r] = calls[e][r]
    BY <1>3, <2>1 DEF RulesMatched, RuleHooksCalled, HookEvents
  <2> QED
    BY <2>2 DEF CallInv, Before, Configuring
<1>4. ASSUME NEW r \in Rules, NEW b \in BOOLEAN, OnRequestDone(r, b) PROVE CallInv'
  BY <1>4, CallKept DEF OnRequestDone
<1>5. CASE SendDestinationRequest
  BY <1>5, CallKept DEF SendDestinationRequest, EarlyStages, Before
<1>6. CASE MockResponded
  BY <1>6, CallDecide DEF MockResponded
<1>7. CASE DestResponse
  <2>1. CASE wsReset
    BY <1>7, <2>1, CallKept DEF DestResponse, ResponseIsUnwanted
  <2>2. CASE ~wsReset
    BY <1>7, <2>2, CallDecide DEF DestResponse, ResponseIsUnwanted
  <2> QED
    BY <2>1, <2>2
<1>8. CASE DestErrorBeforeResponse \/ DestSocketHangUp
  BY <1>8, CallKept DEF DestErrorBeforeResponse, DestSocketHangUp
<1>9. ASSUME NEW lost \in BOOLEAN, DestErrorAfterResponse(lost) PROVE CallInv'
  BY <1>9, CallKept DEF DestErrorAfterResponse
<1>10. CASE DestDies \/ DestEnds \/ BrowserCloses \/ WebSocketReset \/ TunnelEnds
  BY <1>10, CallKept DEF DestDies, DestEnds, BrowserCloses, WebSocketReset, TunnelEnds
<1>11. ASSUME NEW r \in Rules, NEW b \in BOOLEAN, ConfigureResponseDone(r, b) PROVE CallInv'
  <2>1. /\ stage \in Configuring /\ r \in running /\ running' = running \ {r} /\ stage' = stage
        /\ eventData' = Append(eventData, [rule |-> r, includeBody |-> b])
        /\ UNCHANGED <<nature, rules, calls>>
    BY <1>11 DEF ConfigureResponseDone, Configuring
  <2>2. Len(eventData) \in Nat /\ DOMAIN eventData = 1..Len(eventData)
        /\ eventData \in Seq([rule : Rules, includeBody : BOOLEAN])
    BY DEF FlowInv, TypeOK
  <2>3. /\ DOMAIN eventData' = 1..(Len(eventData) + 1)
        /\ \A i \in DOMAIN eventData : eventData'[i] = eventData[i]
        /\ eventData'[Len(eventData) + 1].rule = r
    BY <2>1, <2>2
  <2>4. ASSUME nature.sameOriginOk
        PROVE  /\ \A i \in DOMAIN eventData' : eventData'[i].rule \notin running'
               /\ \A i, j \in DOMAIN eventData' : eventData'[i].rule = eventData'[j].rule => i = j
    <3>1. /\ \A i \in DOMAIN eventData : eventData[i].rule \notin running
          /\ \A i, j \in DOMAIN eventData : eventData[i].rule = eventData[j].rule => i = j
      BY <2>1, <2>4 DEF CallInv
    <3> QED
      BY <2>1, <2>2, <2>3, <3>1
  <2> QED
    BY <2>1, <2>4 DEF CallInv, Before, Configuring
<1>12. CASE SopResponseHooks
  <2>1. EntryHooksCalled(DOMAIN eventData)
    BY <1>12, <1>e DEF SopResponseHooks
  <2> QED
    BY <1>12, <1>s, <2>1, CallRespond DEF SopResponseHooks, Responding
<1>13. CASE SopDone
  BY <1>13, CallDecide DEF SopDone
<1>14. ASSUME NEW i \in DOMAIN eventData, ResponseHookDone(i) PROVE CallInv'
  BY <1>14, CallKept DEF ResponseHookDone
<1>15. CASE PipedResponse
  <2>1. CASE UNCHANGED hookVars /\ stage' \in {"rejected", "collect", "done", "piping"}
    BY <1>15, <2>1, CallKept DEF PipedResponse
  <2>2. ASSUME NEW entries \in {DOMAIN eventData, EntriesWithBody(FALSE)}, CallResponseHooks(entries),
               stage' \in {"respondAll", "respondWithoutBody"}
        PROVE  CallInv'
    <3>1. EntryHooksCalled(entries) /\ entries \subseteq DOMAIN eventData
      BY <2>2, <1>e, <1>w
    <3> QED
      BY <1>15, <2>2, <3>1, CallRespond DEF PipedResponse, Responding, Configuring
  <2> QED
    BY <1>15, <2>1, <2>2 DEF PipedResponse, WriteToEndedResponse
<1>16. CASE BodyCollected
  <2>1. EntryHooksCalled(EntriesWithBody(TRUE))
    BY <1>16, <1>e, <1>w DEF BodyCollected
  <2> QED
    BY <1>16, <1>w, <2>1, CallRespond DEF BodyCollected, Responding
<1>17. CASE PipedHooksDone \/ PipeFinished
  BY <1>17, CallKept DEF PipedHooksDone, PipeFinished
<1>18. ASSUME NEW b \in BOOLEAN, BodyFetched(b) PROVE CallInv'
  BY <1>18, CallKept DEF BodyFetched, RunNext, EarlyStages
<1>19. CASE BodyFetchFailed \/ ProcessingFailed
  BY <1>19, CallKept DEF BodyFetchFailed, ProcessingFailed
<1>20. CASE Processed
  <2>1. CASE goToNext
    <3>1. RuleHooksCalled("onConfigureResponse", rules)
      BY <1>20, <2>1, RuleHooks DEF Processed, RunNext, HookEvents, FlowInv, TypeOK
    <3> QED
      BY <1>20, <2>1, <3>1, CallConfigure DEF Processed, RunNext, EarlyStages, Configuring
  <2>2. CASE ~goToNext
    BY <1>20, <2>2, CallKept DEF Processed, RunNext
  <2> QED
    BY <2>1, <2>2
<1>21. CASE SendProxyResponse
  <2>1. CASE WriteToEndedResponse
    BY <1>21, <2>1, CallKept DEF SendProxyResponse, WriteToEndedResponse
  <2>2. CASE CallResponseHooks(DOMAIN eventData) /\ stage' = "respondProcessed"
    <3>1. EntryHooksCalled(DOMAIN eventData)
      BY <2>2, <1>e
    <3> QED
      BY <1>21, <2>2, <3>1, CallRespond DEF SendProxyResponse, Responding, Configuring
  <2> QED
    BY <1>21, <2>1, <2>2 DEF SendProxyResponse
<1>22. CASE SendBody
  BY <1>22, CallKept DEF SendBody, WriteToEndedResponse
<1>23. ASSUME NEW r \in Rules, AddListener(r) \/ RemoveListener(r) PROVE CallInv'
  BY <1>23, CallKept DEF AddListener, RemoveListener
<1>24. CASE UNCHANGED vars
  BY <1>24, CallKept DEF vars
<1> QED
  BY <1>1, <1>2, <1>3, <1>4, <1>5, <1>6, <1>7, <1>8, <1>9, <1>10, <1>11, <1>12, <1>13, <1>14, <1>15,
     <1>16, <1>17, <1>18, <1>19, <1>20, <1>21, <1>22, <1>23, <1>24
  DEF Next, Hooks, Pipeline, Destination, Environment

-----------------------------------------------------------------------------
(* Every rule hears *)

(* Nothing is owed at first. *)
LEMMA SeenInit == Init => SeenInv
BY DEF Init, SeenInv

(* The stages in which nothing is owed to a rule. *)
QuietStages == EarlyStages \cup {"sopConfigure", "sopResponse", "tunnel", "rejected"}

(* In a stage that owes the rules nothing only the registration matters. *)
LEMMA SeenQuiet ==
    ASSUME SeenInv, rules' \ touched' \subseteq listeners', stage' \in QuietStages \cup {"done"},
           stage' = "done" => \/ browser'.head # "response" \/ rules' \subseteq touched'
                              \/ nature'.kind \notin {"page", "asset", "ajax"}
    PROVE  SeenInv'
BY DEF SeenInv, SeenByEveryRule, QuietStages, EarlyStages, Before

(* A step that neither moves on nor calls a hook.                                            *)
LEMMA SeenKept ==
    ASSUME SeenInv, UNCHANGED <<stage, nature, rules, eventData, calls>>,
           touched \subseteq touched', rules \ touched' \subseteq listeners',
           stage \in Configuring => running' = running,
           browser'.head = "response" => browser.head = "response"
    PROVE  SeenInv'
BY DEF Piped, SeenInv, SeenByEveryRule, SameWishes, Entered, EntriesWithBody, Configuring

(* Every entry is told of the response, and every rule has one.                              *)
LEMMA SeenTold ==
    ASSUME FlowInv, SeenInv, NEW entries \in SUBSET (DOMAIN eventData), EntryHooksCalled(entries),
           UNCHANGED <<rules, listeners, touched>>, \A r \in rules : Entered(r),
           entries = DOMAIN eventData
    PROVE  SeenByEveryRule'
<1>1. ASSUME NEW r \in rules \ touched
      PROVE  calls'["onResponse"][r] >= 1
  <2>1. r \in Rules /\ r \in listeners /\ \E i \in entries : eventData[i].rule = r
    BY DEF FlowInv, TypeOK, SeenInv, Entered
  <2>2. calls["onResponse"][r] \in Nat /\ calls'["onResponse"][r] \in Nat
    BY <2>1 DEF FlowInv, TypeOK, EntryHooksCalled, CountsTyped, HookEvents
  <2>3. calls'["onResponse"][r] >= calls["onResponse"][r] + 1
    BY <2>1 DEF EntryHooksCalled
  <2> QED
    BY <2>2, <2>3
<1> QED
  BY <1>1 DEF SeenByEveryRule

(* Stages 4 and 5 ask every rule. *)
LEMMA SeenDecide ==
    ASSUME FlowInv, SeenInv,
           CheckSameOriginPolicyCompliance \/ (stage = "sopResponse" /\ DecideOnProcessingStrategy),
           stage \in {"reqBody", "mockBody", "destination", "sopResponse"},
           UNCHANGED <<requestVars, envVars>>
    PROVE  SeenInv'
<1>1. UNCHANGED <<nature, rules, listeners, touched>> /\ rules \ touched \subseteq listeners
  BY DEF requestVars, envVars, SeenInv
<1>2. CASE CallRuleHooks("onConfigureResponse", rules) /\ stage' = "configurePiped"
  <2>1. running' = rules
    BY <1>2 DEF CallRuleHooks
  <2> QED
    BY <1>1, <1>2, <2>1 DEF SeenInv
<1>3. CASE stage' \in QuietStages
  BY <1>1, <1>3, SeenQuiet DEF QuietStages, EarlyStages, Before
<1>4. CASE stage' = "done" /\ nature.kind = "blank"
  BY <1>1, <1>4, SeenQuiet
<1> QED
  BY <1>2, <1>3, <1>4
  DEF CheckSameOriginPolicyCompliance, DecideOnProcessingStrategy, QuietStages, EarlyStages

(* Every step keeps what each rule has heard or will hear. *)
LEMMA SeenStep ==
    ASSUME FlowInv, SeenInv, [Next]_vars
    PROVE  SeenInv'
<1> USE DEF requestVars, hookVars, envVars, endVars
<1>e. ASSUME NEW entries \in SUBSET (DOMAIN eventData), CallResponseHooks(entries)
      PROVE  EntryHooksCalled(entries)
  BY <1>e, EntryHooks DEF FlowInv
<1>t. TypeOK /\ rules \ touched \subseteq listeners
  BY DEF FlowInv, SeenInv
<1>1. CASE ReqBodyFetched
  <2>1. CASE nature.kind = "blank"
    BY <1>1, <2>1, SeenDecide DEF ReqBodyFetched
  <2>2. CASE nature.kind # "blank"
    BY <1>1, <2>2, SeenQuiet DEF ReqBodyFetched, QuietStages, EarlyStages, Before
  <2> QED
    BY <2>1, <2>2
<1>2. CASE ReqBodyFailed \/ BodyFetchFailed
  BY <1>2, <1>t, SeenQuiet DEF ReqBodyFailed, BodyFetchFailed, QuietStages
<1>3. ASSUME NEW matched \in SUBSET Rules, RulesMatched(matched) PROVE SeenInv'
  BY <1>3, <1>t, SeenQuiet DEF RulesMatched, QuietStages, EarlyStages, Before
<1>4. ASSUME NEW r \in Rules, NEW b \in BOOLEAN, OnRequestDone(r, b) PROVE SeenInv'
  BY <1>4, <1>t, SeenQuiet DEF OnRequestDone, QuietStages, EarlyStages, Before
<1>5. CASE SendDestinationRequest
  BY <1>5, <1>t, SeenQuiet DEF SendDestinationRequest, QuietStages, EarlyStages, Before
<1>6. CASE MockResponded
  BY <1>6, SeenDecide DEF MockResponded
<1>7. CASE DestResponse
  <2>1. CASE wsReset
    BY <1>7, <2>1, <1>t, SeenQuiet DEF DestResponse, ResponseIsUnwanted, FlowInv, PathInv
  <2>2. CASE ~wsReset
    BY <1>7, <2>2, SeenDecide DEF DestResponse, ResponseIsUnwanted
  <2> QED
    BY <2>1, <2>2
<1>8. CASE DestErrorBeforeResponse
  <2>1. browser'.head # "response"
    BY <1>8, <1>t, ErrorAnswer DEF DestErrorBeforeResponse, ErrorAnswered, FlowInv, PathInv
  <2> QED
    BY <1>8, <1>t, <2>1, SeenQuiet DEF DestErrorBeforeResponse
<1>9. CASE DestSocketHangUp
  <2>1. browser'.head # "response"
    BY <1>9, <1>t DEF DestSocketHangUp, FlowInv, PathInv, TypeOK, Browser
  <2> QED
    BY <1>9, <1>t, <2>1, SeenQuiet DEF DestSocketHangUp
<1>10. ASSUME NEW lost \in BOOLEAN, DestErrorAfterResponse(lost) PROVE SeenInv'
  <2>1. browser'.head = "response" => browser.head = "response"
    <3>1. CASE AnswerWithError
      BY <3>1, <1>t, ErrorAnswer DEF ErrorAnswered
    <3>2. CASE UNCHANGED browser
      BY <3>2
    <3> QED
      BY <1>10, <3>1, <3>2 DEF DestErrorAfterResponse
  <2>2. CASE stage = "piping" /\ stage' = "done"
    BY <1>10, <1>t, <2>2, SeenQuiet DEF DestErrorAfterResponse, SeenInv
  <2>3. CASE stage' = stage
    BY <1>10, <1>t, <2>1, <2>3, SeenKept DEF DestErrorAfterResponse
  <2> QED
    BY <1>10, <2>2, <2>3 DEF DestErrorAfterResponse
<1>11. CASE DestDies \/ DestEnds
  BY <1>11, <1>t, SeenKept DEF DestDies, DestEnds
<1>12. ASSUME NEW r \in Rules, NEW b \in BOOLEAN, ConfigureResponseDone(r, b) PROVE SeenInv'
  <2>1. /\ stage \in Configuring /\ r \in running /\ running' = running \ {r} /\ stage' = stage
        /\ eventData' = Append(eventData, [rule |-> r, includeBody |-> b])
        /\ UNCHANGED <<nature, rules, listeners, touched>>
    BY <1>12 DEF ConfigureResponseDone, Configuring
  <2>2. Len(eventData) \in Nat /\ DOMAIN eventData = 1..Len(eventData)
        /\ eventData \in Seq([rule : Rules, includeBody : BOOLEAN])
    BY <1>t DEF TypeOK
  <2>3. /\ DOMAIN eventData' = 1..(Len(eventData) + 1)
        /\ \A i \in DOMAIN eventData : eventData'[i] = eventData[i]
        /\ eventData'[Len(eventData) + 1].rule = r
    BY <2>1, <2>2
  <2>4. Entered(r)' /\ \A s \in rules : Entered(s) => Entered(s)'
    BY <2>2, <2>3 DEF Entered
  <2>5. CASE stage = "sopConfigure"
    BY <1>t, <2>1, <2>5, SeenQuiet DEF QuietStages
  <2>6. CASE stage # "sopConfigure"
    BY <1>t, <2>1, <2>4, <2>6 DEF SeenInv, Configuring
  <2> QED
    BY <2>5, <2>6
<1>13. CASE SopResponseHooks
  BY <1>13, <1>t, SeenQuiet DEF SopResponseHooks, QuietStages
<1>14. CASE SopDone
  BY <1>14, SeenDecide DEF SopDone
<1>15. ASSUME NEW i \in DOMAIN eventData, ResponseHookDone(i) PROVE SeenInv'
  BY <1>15, <1>t, SeenKept DEF ResponseHookDone, Configuring
<1>16. CASE PipedResponse
  <2>1. /\ stage = "configurePiped" /\ running = {} /\ \A r \in rules : Entered(r)
        /\ UNCHANGED <<nature, rules, listeners, touched>>
    BY <1>16 DEF PipedResponse, SeenInv
  <2>2. CASE stage' = "rejected"
    BY <1>t, <2>1, <2>2, SeenQuiet DEF QuietStages
  <2>3. CASE stage' = "respondAll" /\ CallResponseHooks(DOMAIN eventData)
    <3>1. SeenByEveryRule'
      BY <2>1, <2>3, <1>e, SeenTold
    <3> QED
      BY <1>t, <2>1, <2>3, <3>1 DEF SeenInv
  <2>4. CASE stage' = "collect" /\ EntriesWithBody(TRUE) # {} /\ UNCHANGED hookVars
    BY <1>t, <2>1, <2>4 DEF SeenInv, Entered, EntriesWithBody
  <2>5. CASE /\ stage' = "respondWithoutBody" /\ EntriesWithBody(TRUE) = {}
             /\ CallResponseHooks(EntriesWithBody(FALSE))
    <3>0. \A i \in DOMAIN eventData : eventData[i].includeBody \in BOOLEAN
      <4>1. eventData \in Seq([rule : Rules, includeBody : BOOLEAN])
        BY <1>t DEF TypeOK
      <4>2. \A i \in DOMAIN eventData : eventData[i] \in [rule : Rules, includeBody : BOOLEAN]
        BY <4>1, SeqElements
      <4> QED
        BY <4>2, Zenon
    <3>1. EntriesWithBody(FALSE) = DOMAIN eventData
      <4>1. \A i \in DOMAIN eventData : eventData[i].includeBody # TRUE
        BY <2>5 DEF EntriesWithBody
      <4>2. \A i \in DOMAIN eventData : eventData[i].includeBody = FALSE
        BY <3>0, <4>1, Zenon
      <4> QED
        BY <4>2 DEF EntriesWithBody
    <3>2. SeenByEveryRule'
      BY <2>1, <2>5, <3>1, <1>e, SeenTold
    <3> QED
      BY <1>t, <2>1, <2>5, <3>2 DEF SeenInv
  <2>6. CASE eventData = <<>> /\ stage' \in {"piping", "done"}
    <3>1. rules = {}
      BY <2>1, <2>6 DEF Entered
    <3>2. CASE stage' = "piping"
      BY <2>1, <3>1, <3>2 DEF SeenInv
    <3>3. CASE stage' = "done"
      BY <2>1, <3>1, <3>3, SeenQuiet
    <3> QED
      BY <2>6, <3>2, <3>3
  <2> QED
    BY <1>16, <2>2, <2>3, <2>4, <2>5, <2>6 DEF PipedResponse, WriteToEndedResponse
<1>17. CASE BodyCollected
  <2>1. /\ stage = "collect" /\ stage' = "respondWithBody" /\ CallResponseHooks(EntriesWithBody(TRUE))
        /\ UNCHANGED <<nature, rules, listeners, touched, eventData>>
    BY <1>17 DEF BodyCollected, CallResponseHooks
  <2>2. ASSUME SameWishes'
        PROVE  SeenByEveryRule'
    <3>1. (\A r \in rules : Entered(r)) /\ EntriesWithBody(TRUE) # {}
      BY <2>1 DEF SeenInv
    <3>2. EntriesWithBody(TRUE) = DOMAIN eventData
      BY <2>1, <2>2, <3>1 DEF EntriesWithBody, SameWishes
    <3> QED
      BY <2>1, <3>1, <3>2, <1>e, SeenTold
  <2> QED
    BY <1>t, <2>1, <2>2 DEF SeenInv
<1>18. CASE PipedHooksDone
  <2>1. /\ stage \in {"respondAll", "respondWithBody", "respondWithoutBody"}
        /\ stage' = IF stage = "respondWithoutBody" THEN "pipingAfterHooks" ELSE "done"
        /\ UNCHANGED <<nature, rules, listeners, touched, eventData, calls>>
    BY <1>18 DEF PipedHooksDone
  <2>2. (Piped => SameWishes) => SeenByEveryRule
    BY <2>1 DEF SeenInv, FlowInv, PathInv, PipedHooked
  <2> QED
    BY <1>t, <2>1, <2>2 DEF Piped, SeenInv, SameWishes, SeenByEveryRule
<1>19. CASE PipeFinished
  <2>1. CASE stage = "piping"
    BY <1>19, <1>t, <2>1, SeenQuiet DEF PipeFinished, SeenInv
  <2>2. CASE stage = "pipingAfterHooks"
    BY <1>19, <1>t, <2>2
    DEF Piped, PipeFinished, SeenInv, SameWishes, SeenByEveryRule, FlowInv, PathInv, PipedHooked
  <2> QED
    BY <1>19, <2>1, <2>2 DEF PipeFinished
<1>20. ASSUME NEW b \in BOOLEAN, BodyFetched(b) PROVE SeenInv'
  BY <1>20, <1>t, SeenQuiet DEF BodyFetched, RunNext, QuietStages, EarlyStages, FlowInv, PathInv
<1>21. CASE Processed
  <2>1. CASE goToNext
    <3>1. /\ stage' = "configureProcessed" /\ running' = rules
          /\ UNCHANGED <<nature, rules, listeners, touched>>
      BY <1>21, <2>1 DEF Processed, RunNext, CallRuleHooks
    <3> QED
      BY <1>t, <3>1 DEF SeenInv
  <2>2. CASE ~goToNext
    BY <1>21, <1>t, <2>2, SeenQuiet DEF Processed, RunNext, FlowInv, PathInv
  <2> QED
    BY <2>1, <2>2
<1>22. CASE ProcessingFailed
  <2>1. browser'.head # "response"
    BY <1>22, <1>t, ErrorAnswer DEF ProcessingFailed, ErrorAnswered, FlowInv, PathInv
  <2> QED
    BY <1>22, <1>t, <2>1, SeenQuiet DEF ProcessingFailed
<1>23. CASE SendProxyResponse
  <2>1. /\ stage = "configureProcessed" /\ running = {} /\ \A r \in rules : Entered(r)
        /\ UNCHANGED <<nature, rules, listeners, touched>>
    BY <1>23 DEF SendProxyResponse, SeenInv
  <2>2. CASE stage' = "rejected"
    BY <1>t, <2>1, <2>2, SeenQuiet DEF QuietStages
  <2>3. CASE stage' = "respondProcessed" /\ CallResponseHooks(DOMAIN eventData)
    <3>1. SeenByEveryRule'
      BY <2>1, <2>3, <1>e, SeenTold
    <3> QED
      BY <1>t, <2>1, <2>3, <3>1 DEF SeenInv
  <2> QED
    BY <1>23, <2>2, <2>3 DEF SendProxyResponse, WriteToEndedResponse
<1>24. CASE SendBody
  <2>1. CASE stage' = "rejected"
    BY <1>24, <1>t, <2>1, SeenQuiet DEF SendBody, QuietStages
  <2>2. CASE stage' = "done" /\ UNCHANGED calls
    BY <1>24, <1>t, <2>2 DEF SendBody, SeenInv, SeenByEveryRule
  <2> QED
    BY <1>24, <2>1, <2>2 DEF SendBody, WriteToEndedResponse
<1>25. ASSUME NEW r \in Rules, AddListener(r) \/ RemoveListener(r) PROVE SeenInv'
  BY <1>25, <1>t, SeenKept DEF AddListener, RemoveListener
<1>26. CASE BrowserCloses
  <2>1. browser'.head = browser.head
    BY <1>26, <1>t DEF BrowserCloses, TypeOK, Browser
  <2>2. CASE stage = "piping" /\ stage' = "done"
    BY <1>26, <1>t, <2>2, SeenQuiet DEF BrowserCloses, SeenInv
  <2>3. CASE stage' = stage
    BY <1>26, <1>t, <2>1, <2>3, SeenKept DEF BrowserCloses
  <2> QED
    BY <1>26, <2>2, <2>3 DEF BrowserCloses
<1>27. CASE WebSocketReset
  <2>1. browser'.head = browser.head /\ nature.kind = "webSocket"
    BY <1>27, <1>t DEF WebSocketReset, TypeOK, Browser
  <2>2. CASE stage' \in {"done", "rejected"}
    BY <1>27, <1>t, <2>1, <2>2, SeenQuiet DEF WebSocketReset, QuietStages
  <2>3. CASE stage' = stage
    BY <1>27, <1>t, <2>1, <2>3, SeenKept DEF WebSocketReset
  <2> QED
    BY <1>27, <2>2, <2>3 DEF WebSocketReset
<1>28. CASE TunnelEnds
  BY <1>28, <1>t, SeenQuiet DEF TunnelEnds, FlowInv, PathInv
<1>29. CASE UNCHANGED vars
  BY <1>29, <1>t, SeenKept DEF vars
<1> QED
  BY <1>1, <1>2, <1>3, <1>4, <1>5, <1>6, <1>7, <1>8, <1>9, <1>10, <1>11, <1>12, <1>13, <1>14, <1>15,
     <1>16, <1>17, <1>18, <1>19, <1>20, <1>21, <1>22, <1>23, <1>24, <1>25, <1>26, <1>27, <1>28, <1>29
  DEF Next, Hooks, Pipeline, Destination, Environment

-----------------------------------------------------------------------------
(* An error is final *)

LEMMA ErrorStep ==
    ASSUME FlowInv, [Next]_vars, browser.head = "error"
    PROVE  browser'.head = "error" /\ calls' = calls
<1> USE DEF requestVars, hookVars, envVars, endVars
<1>i. /\ stage \in {"configurePiped", "fetch", "process", "configureProcessed", "done", "rejected"}
      /\ ~goToNext /\ browser \in Browser
  BY DEF FlowInv, ErrorInv, TypeOK
<1>a. AnswerWithError => browser'.head = "error"
  BY <1>i DEF AnswerWithError, ClosedWithError, Browser
<1>1. CASE Hooks
  BY <1>1, <1>i DEF Hooks, OnRequestDone, ConfigureResponseDone, ResponseHookDone
<1>2. CASE Destination
  BY <1>2, <1>i DEF Destination, DestResponse, DestErrorBeforeResponse, DestSocketHangUp
<1>3. CASE Environment
  <2>1. ASSUME NEW lost \in BOOLEAN, DestErrorAfterResponse(lost)
        PROVE  browser'.head = "error" /\ calls' = calls
    BY <2>1, <1>a DEF DestErrorAfterResponse
  <2>2. CASE BrowserCloses \/ WebSocketReset
    BY <2>2, <1>i DEF BrowserCloses, WebSocketReset, Browser
  <2>3. ASSUME NEW r \in Rules, AddListener(r) \/ RemoveListener(r)
        PROVE  browser'.head = "error" /\ calls' = calls
    BY <2>3 DEF AddListener, RemoveListener
  <2> QED
    BY <1>3, <1>i, <2>1, <2>2, <2>3 DEF Environment, DestDies, DestEnds, TunnelEnds
<1>4. CASE Pipeline
  <2>1. CASE PipedResponse \/ SendProxyResponse
    BY <2>1, <1>i DEF PipedResponse, SendProxyResponse, HeadersRefused, WriteToEndedResponse
  <2>2. CASE Processed
    BY <2>2, <1>i DEF Processed, RunNext
  <2>3. CASE ProcessingFailed
    BY <2>3, <1>a DEF ProcessingFailed
  <2>4. CASE (\E b \in BOOLEAN : BodyFetched(b)) \/ BodyFetchFailed
    BY <2>4 DEF BodyFetched, BodyFetchFailed
  <2> QED
    BY <1>4, <1>i, <2>1, <2>2, <2>3, <2>4
    DEF Pipeline, ReqBodyFetched, ReqBodyFailed, RulesMatched, SendDestinationRequest, MockResponded,
        SopResponseHooks, SopDone, BodyCollected, PipedHooksDone, PipeFinished, SendBody
<1>5. CASE UNCHANGED vars
  BY <1>5 DEF vars
<1> QED
  BY <1>1, <1>2, <1>3, <1>4, <1>5 DEF Next

-----------------------------------------------------------------------------
(* Theorems *)

THEOREM Flow == Spec => []FlowInv
<1>1. FlowInv /\ [Next]_vars => FlowInv'
  BY FlowStep
<1> QED
  BY FlowInit, <1>1, PTL DEF Spec

(* Every variable keeps its type, for any set of rules and of kinds of request.              *)
THEOREM TypeCorrect == Spec => []TypeOK
<1>1. FlowInv => TypeOK
  BY DEF FlowInv
<1> QED
  BY Flow, <1>1, PTL

(* Without request hooks an exception leaves stages.ts only when the browser or the          *)
(* destination broke off.                                                                    *)
THEOREM NoCrash == Spec => []NoCrashWithoutHooks
<1>1. FlowInv => NoCrashWithoutHooks
  BY DEF FlowInv
<1> QED
  BY Flow, <1>1, PTL

(* The destination connection of a browser that went away is not left open.                  *)
THEOREM DestinationFreed == Spec => []DestinationIsFreed
<1>1. FlowInv => DestinationIsFreed
  BY DEF FlowInv, FreeInv, DestinationIsFreed
<1> QED
  BY Flow, <1>1, PTL

(* After an error has been answered no stage writes another head and no hook is called.      *)
THEOREM ErrorFinal == Spec => ErrorAnswerIsFinal
<1>1. FlowInv /\ [Next]_vars => [browser.head = "error" => browser'.head = "error" /\ calls' = calls]_vars
  BY ErrorStep
<1> QED
  BY Flow, <1>1, PTL DEF Spec, ErrorAnswerIsFinal

(* Every rule that matched a request hears of its response, and no rule hears twice.         *)
THEOREM RulesHear == Spec => []RulesHearTheResponse
<1>1. Init => CallInv /\ SeenInv
  BY CallInit, SeenInit
<1>2. FlowInv /\ CallInv /\ SeenInv /\ [Next]_vars => (CallInv /\ SeenInv)'
  BY CallStep, SeenStep
<1>3. FlowInv /\ CallInv /\ SeenInv => RulesHearTheResponse
  BY DEF CallInv, SeenInv, RulesHearTheResponse, ResponseHooksOncePerRule, RulesSeeTheResponse, AnsweredInFull
<1> QED
  BY Flow, <1>1, <1>2, <1>3, PTL DEF Spec

===============================================================================
