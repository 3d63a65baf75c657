-------------------------------- MODULE Scripts --------------------------------
(***************************************************************************)
(* The processing of a page's script (processing/script): every use of     *)
(* location, href, postMessage, eval and of properties whose names are not *)
(* known becomes an instruction of the proxy, destructuring is taken apart *)
(* so that its properties can be, and what changed is written back into    *)
(* the text of the script.                                                 *)
(*                                                                         *)
(* A script is checked by what it does: Eval lists what a script reads,    *)
(* writes and calls, of symbolic values, and by whom.                      *)
(***************************************************************************)
EXTENDS ScriptSyntax, SequencesExt, FiniteSets

CONSTANT Programs   \* scripts: trees of type Program, "javascript:" or "script"

VARIABLES
    program, \* the script
    changes, \* the changes of its text, in the order they were pushed
    passed   \* whether it has been processed

vars == <<program, changes, passed>>

(* instrumented.ts *)
InstrumentedProperties == {"href", "location"}
InstrumentedMethods    == {"postMessage", "replace", "assign"}

(* Nodes get the places of a source. *)
RECURSIVE Positioned(_, _)
Positioned(n, at) ==
    [n EXCEPT !.pos = at,
              !.kids = [i \in DOMAIN n.kids |-> Positioned(n.kids[i], Append(at, i))]]

(* replaceNode: into the place of a node, or in front of the statements of a block. *)
Placed(new, old)        == [new EXCEPT !.pos = old.pos, !.done = "yes"]
InFront(new, body, how) == [body EXCEPT !.kids = <<[new EXCEPT !.pos = Append(body.pos, 0), !.done = how]>> \o @]
WithFirst(body, new, how) ==
    IF body.type = "Block" THEN InFront(new, body, how) ELSE Placed(Block(<<new, body>>), body)

-----------------------------------------------------------------------------
(* Destructuring (destructuring.ts): the assignments [to, from] that a pattern stands for.   *)
(* Temporary variables are named after the place of their pattern.                           *)

IsPattern(n) == n.type \in {"ObjPat", "ArrPat"}
Pair(to, from) == [to |-> to, from |-> from]
HasRest(kids) == kids # <<>> /\ Last(kids).type = "Rest"

(* With a rest, a key that is neither a name nor a literal is kept in a temporary variable.  *)
KeyIsKept(p, i) == HasRest(p.kids) /\ p.kids[i].type # "Rest" /\ p.kids[i].kids[1].type \notin {"Id", "Lit"}
KeyTemp(p, i)   == Temp("key " \o ToString(p.kids[i].pos))
RestKey(p, i) ==
    LET key == p.kids[i].kids[1]
    IN IF KeyIsKept(p, i) THEN KeyTemp(p, i)
       ELSE IF p.kids[i].val = "computed" \/ key.type = "Lit" THEN key ELSE Lit(key.val)

RECURSIVE Destructured(_, _)
Destructured(p, v) ==
    LET t    == IF v.type = "Temp" THEN v ELSE Temp(ToString(p.pos))
        head == IF v.type = "Temp" THEN <<>> ELSE <<Pair(t, v)>>
    IN CASE p.type = "ObjPat" ->
                LET keys   == SelectSeq([i \in DOMAIN p.kids |-> i], LAMBDA i : KeyIsKept(p, i))
                    kept   == [i \in DOMAIN keys |-> Pair(KeyTemp(p, keys[i]), p.kids[keys[i]].kids[1])]
                    key(i) == IF KeyIsKept(p, i) THEN KeyTemp(p, i) ELSE p.kids[i].kids[1]
                    named(i) == IF p.kids[i].val = "computed" \/ key(i).type = "Lit"
                                THEN Computed(t, key(i)) ELSE Member(t, key(i))
                    part(i)  == IF p.kids[i].type = "Rest"
                                THEN <<Pair(p.kids[i].kids[1],
                                            RestObject(t, [k \in 1..i - 1 |-> RestKey(p, k)]))>>
                                ELSE Destructured(p.kids[i].kids[2], named(i))
                IN head \o kept \o FlattenSeq([i \in DOMAIN p.kids |-> part(i)])
         [] p.type = "ArrPat" ->
                LET list    == IF v.type = "Array" THEN v ELSE ArrayFrom(v)
                    own     == Temp(ToString(p.pos))
                    part(i) == IF p.kids[i].type = "Rest"
                               THEN Destructured(p.kids[i].kids[1], RestArray(own, ToString(i - 1)))
                               ELSE Destructured(p.kids[i], Computed(own, Lit(ToString(i - 1))))
                IN <<Pair(own, list)>> \o FlattenSeq([i \in DOMAIN p.kids |-> part(i)])
         [] p.type = "AssignPat" ->
                head \o Destructured(p.kids[1], Cond(Binary(t, "===", Undefined), p.kids[2], t))
         [] OTHER -> <<Pair(p, v)>>

-----------------------------------------------------------------------------
(* The transformers (processing/script/transformers).  n is a node, p its parent and k its   *)
(* place among the nodes of p.                                                               *)

IsSuper(n) == n.type = "Super"
Known(n)   == n.type = "Lit"
Arg(n, i)  == n.kids[i + 1]

(* What a node named eval, postMessage or location is, other than a use of the global one.   *)
IsNameOnly(n, p, k) ==
    \/ p.type \in {"Naming", "Rest", "Update"}
    \/ p.type \in {"Declarator", "Assign", "AssignPat"} /\ k = 1
    \/ p.type = "Func" /\ k < Len(p.kids)
    \/ p.type = "Property" /\ (k = 1 \/ p.val = "shorthand")

EvalGet(n, p, k) ==
    /\ n.type = "Id" /\ n.val = "eval" /\ ~IsNameOnly(n, p, k)
    /\ p.type # "Member" /\ ~(p.type = "Call" /\ k = 1) /\ ~IsInstruction(p, "__get$Eval")

PostMessageGet(n, p, k) ==
    /\ n.type = "Id" /\ n.val = "postMessage" /\ ~IsNameOnly(n, p, k)
    /\ p.type # "Member" /\ ~IsInstruction(p, "__get$PostMessage")
    /\ ~(IsInstruction(p, "__call$") /\ k = 3)

LocationGet(n, p, k) ==
    /\ n.type = "Id" /\ n.val = "location" /\ ~IsNameOnly(n, p, k)
    /\ ~(p.type = "Member" /\ k = 2) /\ ~IsInstruction(p, "__get$Loc")

(* Reads of a property; calls, constructors, deletions and the like are not. *)
IsRead(p, k) ==
    /\ p.type \notin {"Delete", "Update"}
    /\ ~(p.type \in {"Assign", "Call", "New", "ForIn"} /\ k = 1)

ComputedPropertyGet(n, p, k) ==
    /\ n.type = "Member" /\ n.val = "computed" /\ ~IsSuper(n.kids[1]) /\ IsRead(p, k)
    /\ Known(n.kids[2]) => n.kids[2].val \in InstrumentedProperties

PropertyGet(n, p, k) ==
    /\ n.type = "Member" /\ n.val = "plain" /\ ~IsSuper(n.kids[1]) /\ IsRead(p, k)
    /\ n.kids[2].val \in InstrumentedProperties

IsNamed(n, name) == n.type = "Member" /\ n.kids[2].type \in {"Id", "Lit"} /\ n.kids[2].val = name

WindowGet(n, p, k, name, instruction) ==
    /\ IsNamed(n, name) /\ p.type # "Member" /\ ~(p.type \in {"Call", "Assign"} /\ k = 1)
    /\ ~IsInstruction(p, instruction)
WindowEvalGet(n, p, k)        == WindowGet(n, p, k, "eval", "__get$Eval")
WindowPostMessageGet(n, p, k) == WindowGet(n, p, k, "postMessage", "__get$PostMessage")

Sets(n) == n.type = "Assign" /\ n.val = "="
AssignmentDestructuring(n) == Sets(n) /\ IsPattern(n.kids[1])
ComputedPropertySet(n) ==
    /\ Sets(n) /\ n.kids[1].type = "Member" /\ n.kids[1].val = "computed"
    /\ ~IsSuper(n.kids[1].kids[1])
    /\ Known(n.kids[1].kids[2]) => n.kids[1].kids[2].val \in InstrumentedProperties
PropertySet(n) ==
    /\ Sets(n) /\ n.kids[1].type = "Member" /\ n.kids[1].val = "plain"
    /\ ~IsSuper(n.kids[1].kids[1]) /\ n.kids[1].kids[2].val \in InstrumentedProperties
LocationSet(n) == Sets(n) /\ n.kids[1].type = "Id" /\ n.kids[1].val = "location"
ConcatOperator(n) ==
    /\ n.type = "Assign" /\ n.val = "+="
    /\ LET l == n.kids[1]
       IN \/ l.type = "Id" /\ l.val \in InstrumentedProperties
          \/ /\ l.type = "Member"
             /\ IF l.val = "computed" /\ ~Known(l.kids[2]) THEN l.kids[2].type # "Update"
                ELSE l.kids[2].val \in InstrumentedProperties

IsLike(n, name) == (n.type = "Id" /\ n.val = name) \/ IsNamed(n, name)
EvalCall(n) == n.type = "Call" /\ Len(n.kids) > 1 /\ IsLike(n.kids[1], "eval")
Invokes(n, methods, name) ==
    /\ n.type = "Call" /\ n.kids[1].type = "Member"
    /\ n.kids[1].kids[2].type = "Id" /\ n.kids[1].kids[2].val \in methods
    /\ IsLike(n.kids[1].kids[1], name)
EvalBind(n)      == Invokes(n, {"bind"}, "eval")
EvalCallApply(n) == Invokes(n, {"call", "apply"}, "eval") /\ Len(n.kids) > 2
PostMessageCallApplyBind(n) ==
    \/ Invokes(n, {"bind"}, "postMessage")
    \/ Invokes(n, {"call", "apply"}, "postMessage") /\ Len(n.kids) > 2
MethodCall(n) ==
    /\ n.type = "Call" /\ n.kids[1].type = "Member" /\ ~IsSuper(n.kids[1].kids[1])
    /\ IF n.kids[1].val = "computed"
       THEN Known(n.kids[1].kids[2]) => n.kids[1].kids[2].val \in InstrumentedMethods
       ELSE n.kids[1].kids[2].val \in InstrumentedMethods

JsProtocolLastExpression(n, p, k) ==
    n.type = "Expr" /\ p.type = "Program" /\ p.val = "javascript:" /\ k = Len(p.kids)
StaticImport(n, p) == n.type = "Lit" /\ p.type = "Import"
DynamicImport(n)   == n.type = "ImportExpr"
ProcessedUrl(n)    == [n EXCEPT !.kids[1] = Placed(GetProxyUrl(@), @)]

(* What they make of a node.  InPlace changes are those of a run that returns null. *)
ProcessedArg(n, i) == [n EXCEPT !.kids[i + 1] = Placed(ProcessScript(@), @)]
ProcessedObject(n, new(_)) == [n EXCEPT !.kids[1].kids[1] = Placed(new(@), @)]

MethodCalled(n) ==
    LET callee == n.kids[1]
    IN CallMethod(callee.kids[1], IF callee.val = "computed" THEN callee.kids[2] ELSE Lit(callee.kids[2].val),
                  Tail(n.kids))

PropertyOf(m) == IF m.val = "plain" THEN Lit(m.kids[2].val) ELSE m.kids[2]
Got(n)        == GetProperty(n.kids[1], PropertyOf(n))
PropertyIsSet(n) == SetProperty(n.kids[1].kids[1], PropertyOf(n.kids[1]), n.kids[2])
Expanded(n)   == Assign(n.kids[1], "=", Binary(n.kids[1], "+", n.kids[2]))

AssignedInParts(n) ==
    LET pairs == Destructured(n.kids[1], n.kids[2])
        first == pairs[1].to
    IN Sequence([i \in DOMAIN pairs |-> Assign(pairs[i].to, "=", pairs[i].from)]
                    \o (IF first.type = "Temp" THEN <<first>> ELSE <<>>))
TempsOf(n) == LET to == [i \in DOMAIN n.kids |-> n.kids[i].kids]
              IN {to[i][1].val : i \in {j \in DOMAIN to : to[j] # <<>> /\ to[j][1].type = "Temp"}}

DeclaredInParts(n) ==
    Var(n.val, FlattenSeq([d \in DOMAIN n.kids |->
        IF Len(n.kids[d].kids) = 1 THEN <<n.kids[d]>>
        ELSE LET pairs == Destructured(n.kids[d].kids[1], n.kids[d].kids[2])
             IN [i \in DOMAIN pairs |-> Declarator(pairs[i].to, pairs[i].from)]]))

LoopTemp(n) == Temp("loop " \o ToString(n.pos))

ForInExpanded(n) ==
    LET set == Expr(Assign(n.kids[1], "=", LoopTemp(n)))
    IN [n EXCEPT !.kids[1] = Placed(Var("var", <<Declare(LoopTemp(n))>>), @),
                 !.kids[3] = WithFirst(@, set, "yes")]

(* Variables that the body declares, in the places where replaceDuplicateDeclarators looks.  *)
DeclaredIn(d) ==
    CASE d.type = "Id"     -> {d.val}
      [] d.type = "ArrPat" -> {e.val : e \in {x \in Range(d.kids) : x.type = "Id"}}
      [] d.type = "ObjPat" -> {e.kids[2].val : e \in {x \in Range(d.kids) :
                                  x.type = "Property" /\ x.kids[2].type = "Id"}}
      [] OTHER             -> {}
BodyDeclares(body) ==
    UNION {UNION {DeclaredIn(d.kids[1]) : d \in Range(s.kids)} :
               s \in {x \in Range(body.kids) : x.type = "Var"}}
WithoutDuplicates(pattern, body) ==
    IF pattern.type # "ArrPat" \/ body.type # "Block" THEN pattern
    ELSE [pattern EXCEPT !.kids = [i \in DOMAIN @ |->
              IF @[i].type = "Id" /\ @[i].val \in BodyDeclares(body)
              THEN Placed(Temp("unused " \o ToString(@[i].pos)), @[i]) ELSE @[i]]]

ForOfExpanded(n) ==
    LET left == n.kids[1]
        id   == left.kids[1].kids[1]
    IN IF left.type = "Var"
       THEN LET declared == Var(left.val, <<Declarator(WithoutDuplicates(id, n.kids[3]), LoopTemp(n))>>)
            IN [n EXCEPT !.kids[1].kids[1].kids[1] = Placed(LoopTemp(n), @),
                         !.kids[3] = WithFirst(@, declared, "again")]
       ELSE [n EXCEPT !.kids[1] = Placed(Var("var", <<Declare(LoopTemp(n))>>), @),
                      !.kids[3] = WithFirst(@, Expr(Assign(left, "=", LoopTemp(n))), "yes")]

(* Parameters that are patterns, not empty ones, are taken apart in the body. *)
ParamOf(n) == IF n.type = "AssignPat" THEN n.kids[1] ELSE n
TakenApart(n) == IsPattern(ParamOf(n)) /\ ParamOf(n).kids # <<>>
ParamTemp(n)  == Temp("param " \o ToString(ParamOf(n).pos))
Params(n)     == SubSeq(n.kids, 1, Len(n.kids) - 1)
TakesApart(n) == n.type = "Func" /\ \E i \in DOMAIN Params(n) : TakenApart(n.kids[i])
FuncArgsTakenApart(n) ==
    LET taken == SelectSeq(Params(n), TakenApart)
        decls == Var("var", [i \in DOMAIN taken |-> Declarator(ParamOf(taken[i]), ParamTemp(taken[i]))])
        param(x) == IF ~TakenApart(x) THEN x
                    ELSE IF x.type = "AssignPat" THEN [x EXCEPT !.kids[1] = Placed(ParamTemp(x), @)]
                    ELSE Placed(ParamTemp(x), x)
        body  == Last(n.kids)
    IN [n EXCEPT !.kids = [i \in DOMAIN Params(n) |-> param(n.kids[i])] \o
            <<IF body.type = "Block" THEN InFront(decls, body, "again")
              ELSE Placed(Block(<<decls, Return(body)>>), body)>>]

(* The first transformer, in the order of transformers/index.ts, whose condition holds.  how *)
(* tells whether the node was changed in place, replaced by one that is looked at again, or  *)
(* replaced at last, by what Replacement tells.                                              *)
Change(how, to) == [how |-> how, to |-> to]
Transformed(n, p, k) ==
    CASE TakesApart(n) -> Change(IF Last(n.kids).type = "Block" THEN "inPlace" ELSE "self",
                                 FuncArgsTakenApart(n))
      [] AssignmentDestructuring(n)   -> Change("again", AssignedInParts(n))
      [] ComputedPropertySet(n)       -> Change("again", PropertyIsSet(n))
      [] ConcatOperator(n)            -> Change("again", Expanded(n))
      [] LocationSet(n)               -> Change("replace", n)
      [] PropertySet(n)               -> Change("again", PropertyIsSet(n))
      [] ComputedPropertyGet(n, p, k) -> Change("again", Got(n))
      [] WindowEvalGet(n, p, k) \/ WindowPostMessageGet(n, p, k) -> Change("replace", n)
      [] PropertyGet(n, p, k)         -> Change("again", Got(n))
      [] EvalCall(n)                  -> Change("inPlace", ProcessedArg(n, 1))
      [] EvalBind(n)                  -> Change("inPlace", ProcessedObject(n, GetEval))
      [] EvalCallApply(n)             -> Change("inPlace", ProcessedArg(n, 2))
      [] PostMessageCallApplyBind(n)  -> Change("inPlace", ProcessedObject(n, GetPostMessage))
      [] MethodCall(n)                -> Change("again", MethodCalled(n))
      [] EvalGet(n, p, k) \/ PostMessageGet(n, p, k) \/ LocationGet(n, p, k) -> Change("replace", n)
      [] n.type = "ForIn" /\ n.kids[1].type = "Member" -> Change("inPlace", ForInExpanded(n))
      [] n.type = "ForOf" /\ IsPattern(IF n.kids[1].type = "Var" THEN n.kids[1].kids[1].kids[1]
                                       ELSE n.kids[1]) -> Change("inPlace", ForOfExpanded(n))
      [] JsProtocolLastExpression(n, p, k) -> Change("html", Expr(ProcessHtml(n.kids[1])))
      [] StaticImport(n, p)           -> Change("replace", n)
      [] DynamicImport(n)             -> Change("inPlace", ProcessedUrl(n))
      [] n.type = "Var" /\ p.type # "ForIn" /\ (\E d \in Range(n.kids) : IsPattern(d.kids[1]))
             -> Change("again", DeclaredInParts(n))
      [] OTHER -> Change("none", n)

RECURSIVE Rewritten(_, _, _)
Further(first, p, k) ==
    LET then == Rewritten(first.to, p, k)
    IN IF first.how = "again" /\ then.how # "none" THEN then ELSE first
Rewritten(n, p, k) == Further(Transformed(n, p, k), p, k)

(* transform: a node, the changes of the text under it, and the temporary variables that the *)
(* block around it must declare.  The nodes of a node that is replaced at last are visited   *)
(* where they were: a replacement has them as they were if they are replaced themselves.     *)

Rewrites(n, p, k) == IF n.done = "yes" THEN Change("kept", n) ELSE Rewritten(n, p, k)

WrapWithSequence(n, p, k) ==
    ~(p.type \in {"Call", "New", "Cond", "Sequence"} /\ k > 1)

(* A change within one that is recorded is not: its node has it.  A change in a new          *)
(* expression is one of the whole expression.                                                *)
AllRecorded(n, here, inner) == inner \o (IF here THEN <<n>> ELSE <<>>)
Recorded(n, here, inner) ==
    IF here THEN <<n>> ELSE IF n.type = "New" /\ inner # <<>> THEN <<n>> ELSE inner

RECURSIVE Transform(_, _, _), Unreplaced(_, _, _)

(* What takes the place of r.to: whole has its nodes transformed. *)
Replacement(r, n, p, k, whole) ==
    IF r.how # "replace" THEN whole
    ELSE CASE r.to.type = "Assign" ->
                  SetLocation(r.to.kids[1], Unreplaced(r.to.kids[2], r.to, 2), WrapWithSequence(n, p, k))
           [] r.to.type = "Lit"    -> Node("ProxiedLit", n.val, <<>>)
           [] IsLike(r.to, "eval") -> GetEval(whole)
           [] IsNamed(r.to, "postMessage") ->
                  GetPostMessage([r.to EXCEPT !.kids[1] = Unreplaced(@, r.to, 1)])
           [] IsLike(r.to, "postMessage") -> GetPostMessage(r.to)
           [] OTHER -> GetLocation(r.to)

TempsUnder(r, kids) ==
    UNION {kids[i].temps : i \in DOMAIN kids}
        \cup (IF r.to.type = "Sequence" /\ r.how = "again" THEN TempsOf(r.to) ELSE {})

(* Temporary variables are declared in front of the statements of their block. *)
Declarations(r, n, temps) ==
    IF r.to.type \notin {"Block", "Program"} \/ temps = {} THEN <<>>
    ELSE <<[Var("var", [i \in 1..Cardinality(temps) |-> Declare(Temp(SetToSeq(temps)[i]))])
                EXCEPT !.pos = Append(n.pos, 0), !.done = "yes"]>>

Recording(n, r, new, kids, temps, decls) ==
    LET here == r.how \in {"kept", "again", "html", "self", "replace"}
        node == IF here /\ r.how # "kept" THEN [Placed(new, n) EXCEPT !.done = "yes"] ELSE new
    IN [node |-> node, temps |-> IF r.to.type = "Block" THEN {} ELSE temps,
        changes |-> Recorded(node, here, FlattenSeq([i \in DOMAIN kids |-> kids[i].changes]) \o decls)]

WithKids(n, p, k, r, kids) ==
    LET temps == TempsUnder(r, kids)
        decls == Declarations(r, n, temps)
        whole == [r.to EXCEPT !.kids = decls \o [i \in DOMAIN kids |-> kids[i].node]]
    IN Recording(n, r, Replacement(r, n, p, k, whole), kids, temps, decls)

Rebuilt(n, p, k, r) ==
    WithKids(n, p, k, r, [i \in DOMAIN r.to.kids |-> Transform(r.to.kids[i], r.to, i)])

Transform(n, p, k) == Rebuilt(n, p, k, Rewrites(n, p, k))

LeftIn(n, p, k, r) ==
    CASE r.how \in {"again", "html"} ->
             [n EXCEPT !.kids = [i \in DOMAIN @ |-> Unreplaced(@[i], r.to, i)]]
      [] r.how = "replace" -> [n EXCEPT !.kids = [i \in DOMAIN @ |-> Transform(@[i], n, i).node]]
      [] OTHER -> Transform(n, p, k).node
Unreplaced(n, p, k) == LeftIn(n, p, k, Rewrites(n, p, k))

-----------------------------------------------------------------------------
(* applyChanges: the text, with the nodes of the changes in the places they were pushed for. *)
(* In front of a block declarations come first.                                              *)

RECURSIVE Applied(_, _)
Applied(n, cs) ==
    LET at(c)  == c.pos = n.pos
        front  == SelectSeq(cs, LAMBDA c : c.pos = Append(n.pos, 0))
        decl(c) == c.type = "Var"
    IN IF \E c \in Range(cs) : at(c) THEN SelectSeq(cs, at)[1]
       ELSE [n EXCEPT !.kids = SelectSeq(front, decl) \o SelectSeq(front, LAMBDA c : ~decl(c))
                                   \o [i \in DOMAIN @ |-> Applied(@[i], cs)]]

Processed == Applied(program, changes)

Source(p) == Positioned(p, <<1>>)

Init ==
    /\ \E p \in Programs : program = Source(p)
    /\ changes = <<>> /\ passed = FALSE

Process ==
    /\ ~passed /\ passed' = TRUE
    /\ changes' = Transform(program, program, 0).changes
    /\ UNCHANGED program

Next == Process
Spec == Init /\ [][Next]_vars

TypeOK ==
    /\ passed \in BOOLEAN
    /\ \A i \in DOMAIN changes : changes[i].pos # NoPos /\ changes[i].done \in {"yes", "no"}

-----------------------------------------------------------------------------
(* What a script does.  An event is [op, of, who]: who is "proxy" for what an instruction    *)
(* does.  A value is a sequence of strings; "#i" is the result of the i-th event.  Functions *)
(* are run once, when they are made; both branches of a condition are run.                   *)

(* What the instructions stand for, with their names in code-instrumentation. *)
Meaning(n) ==
    LET named(name) == IsInstruction(n, name)
        x == Arg(n, 1)
    IN CASE named("__get$Loc") \/ named("__get$Eval") \/ named("__get$ProxyUrl")
                \/ named("__proc$Script") \/ named("__proc$Html") -> x
         [] named("__get$PostMessage") -> IF Len(n.kids) = 2 THEN Member(x, Id("postMessage")) ELSE Arg(n, 2)
         [] named("__set$Loc") -> Assign(x, "=", Arg(n, 2))
         [] named("__get$")    -> Computed(x, Arg(n, 2))
         [] named("__set$")    -> Assign(Computed(x, Arg(n, 2)), "=", Arg(n, 3))
         [] named("__call$")   -> Call(Computed(x, Arg(n, 2)), Arg(n, 3).kids)
         [] OTHER -> n

IsGuard(n, name) == IsInstruction(n, name)
Bare(n) == IF IsGuard(n, "__get$Eval") \/ IsGuard(n, "__get$PostMessage") THEN Meaning(n) ELSE n

(* Who runs a call of a function like eval or postMessage, or through call, apply and bind.  *)
Caller(n, who) ==
    LET callee == n.kids[1]
        Guarded(i, name) == IF Len(n.kids) > i /\ IsGuard(Arg(n, i), name) THEN "proxy" ELSE "page"
    IN IF IsLike(callee, "eval") THEN Guarded(1, "__proc$Script")
       ELSE IF callee.type # "Member" \/ who = "proxy" THEN who
       ELSE IF callee.kids[1] # Bare(callee.kids[1]) THEN "proxy"
       ELSE IF IsLike(callee.kids[1], "eval") /\ Len(n.kids) > 2 THEN Guarded(2, "__proc$Script")
       ELSE who

Does(s, op, of, who) ==
    [s EXCEPT !.events = Append(@, [op |-> op, of |-> of, who |-> who]),
              !.val = <<"#" \o ToString(Len(s.events) + 1)>>]
Returns(s, v)   == [s EXCEPT !.val = v]
IsList(v)       == v[1] = "list"
Declared(s, x)  == x \in DOMAIN s.env
SetVar(s, x, v) == [s EXCEPT !.env = (x :> v) @@ @]
Start           == [events |-> <<>>, env |-> <<>>, val |-> <<"nothing">>]

RECURSIVE Eval(_, _, _), EvalAll(_, _), Bind(_, _, _, _)

(* The nodes in turn; their values. *)
EvalAll(ns, s) ==
    FoldLeft(LAMBDA acc, n : LET t == Eval(n, acc.s, "page") IN [s |-> t, vals |-> Append(acc.vals, t.val)],
             [s |-> s, vals |-> <<>>], ns)

(* The object and the property of a member.  A function that is only called through the      *)
(* object is not read.                                                                       *)
EvalObject(object, bare, s) ==
    IF bare.type = "Id" /\ bare.val \in {"eval", "postMessage"} THEN Returns(s, <<bare.val>>)
    ELSE Eval(object, s, "page")
EvalProperty(m, o) ==
    LET p == IF m.val = "plain" THEN Returns(o, <<m.kids[2].val>>) ELSE Eval(m.kids[2], o, "page")
    IN [s |-> p, o |-> o.val, p |-> p.val]
EvalMember(m, s) == EvalProperty(m, EvalObject(m.kids[1], Bare(m.kids[1]), s))

Get(s, o, p, who) ==
    IF IsList(o) THEN Returns(s, <<"item">> \o p \o o)
    ELSE LET t == Does(s, "get", p \o o, who) IN IF p = <<"u">> THEN Returns(t, <<"undefined">>) ELSE t

(* Assignments: old is the state in which the target has been looked up, and read unless it  *)
(* is only written.  -= is not instrumented.                                                 *)
ByWhom(n, who)      == IF n.val \in {"=", "+="} THEN who ELSE "own"
Assigned(n, old, v) == IF n.val = "=" THEN v.val ELSE <<"+">> \o old.val \o v.val
AssignToMember(n, m, old, who) ==
    LET v == Eval(n.kids[2], old, "page")
    IN Returns(Does(v, "set", m.p \o m.o \o Assigned(n, old, v), ByWhom(n, who)), Assigned(n, old, v))
AssignToTarget(n, old, who) ==
    LET v == Eval(n.kids[2], old, "page")
    IN Returns(Bind(n.kids[1], Assigned(n, old, v), v, ByWhom(n, who)), Assigned(n, old, v))

(* all is what its nodes evaluate to, m the member that is its first node. *)
EvalOwn(n, s, who, all, m) ==
    CASE n.type = "Id" ->
           IF Declared(s, n.val) THEN Returns(s, s.env[n.val])
           ELSE IF n.val \in {"location", "eval", "postMessage"}
           THEN Does(s, "read", <<n.val>>, who)
           ELSE Returns(s, <<n.val>>)
      [] n.type = "Temp" -> Returns(s, s.env[n.val])
      [] n.type \in {"Lit", "Super"} -> Returns(s, <<IF n.type = "Super" THEN "super" ELSE n.val>>)
      [] n.type = "Member" -> LET x == EvalMember(n, s) IN Get(x.s, x.o, x.p, IF IsSuper(n.kids[1]) THEN "own" ELSE who)
      [] n.type = "Assign" ->
           IF n.kids[1].type = "Member"
           THEN AssignToMember(n, m, IF n.val = "=" THEN m.s ELSE Does(m.s, "get", m.p \o m.o, ByWhom(n, who)), who)
           ELSE AssignToTarget(n, IF n.val = "=" THEN s ELSE Eval(n.kids[1], s, ByWhom(n, who)), who)
      [] n.type = "Call" /\ IsInstruction(n, "__arrayFrom$") ->
           LET v == Eval(Arg(n, 1), s, "page")
           IN IF IsList(v.val) THEN v ELSE Returns(Does(v, "iterate", v.val, "own"), <<"list">> \o v.val)
      [] n.type = "Call" /\ IsInstruction(n, "__rest$Array") ->
           Returns(EvalAll(Tail(n.kids), s).s, <<"rest", Arg(n, 2).val>> \o Eval(Arg(n, 1), s, "page").val)
      [] n.type = "Call" /\ IsInstruction(n, "__rest$Object") ->
           LET keys == EvalAll(Arg(n, 2).kids, s)
           IN Does(keys.s, "rest", Eval(Arg(n, 1), s, "page").val \o FlattenSeq(keys.vals), "own")
      [] n.type = "Call" /\ n.kids[1].type = "Member" ->
           LET args == EvalAll(Tail(n.kids), m.s)
           IN Does(args.s, "call", m.p \o m.o \o FlattenSeq(args.vals), Caller(n, who))
      [] n.type = "Call" ->
           LET callee == IF IsLike(n.kids[1], "eval") THEN Returns(s, <<"eval">>) ELSE Eval(n.kids[1], s, "page")
               args   == EvalAll(Tail(n.kids), callee)
           IN Does(args.s, "call", callee.val \o FlattenSeq(args.vals), Caller(n, "own"))
      [] n.type = "New" ->
           LET callee == IF n.kids[1].type = "Member" THEN Does(m.s, "get", m.p \o m.o, "own")
                         ELSE Eval(n.kids[1], s, "page")
               args   == EvalAll(Tail(n.kids), callee)
           IN Does(args.s, "new", callee.val \o FlattenSeq(args.vals), "own")
      [] n.type \in {"Delete", "Update"} ->
           IF n.kids[1].type = "Member" THEN Does(m.s, n.type, m.p \o m.o, "own")
           ELSE Does(s, n.type, <<n.kids[1].val>>, "own")
      [] n.type = "Binary" ->
           IF n.val = "===" THEN Returns(all.s, <<IF all.vals[1] = <<"undefined">> THEN "true" ELSE "false">>)
           ELSE Returns(all.s, <<"+">> \o all.vals[1] \o all.vals[2])
      [] n.type = "Cond" ->
           LET t == Eval(n.kids[1], s, "page")
           IN CASE t.val = <<"true">> -> Eval(n.kids[2], t, "page")
                [] t.val = <<"false">> -> Eval(n.kids[3], t, "page")
                [] OTHER -> Returns(Eval(n.kids[3], Eval(n.kids[2], t, "page"), "page"), <<"either">>)
      [] n.type = "Array"  -> Returns(all.s, <<"list">> \o FlattenSeq(all.vals))
      [] n.type = "Object" -> Returns(EvalAll([i \in DOMAIN n.kids |-> n.kids[i].kids[2]], s).s, <<"object">>)
      [] n.type = "Func"   ->
           LET bound == FoldLeft(LAMBDA t, p : Bind(p, <<"undefined">>, t, "declare"), s, Params(n))
           IN Returns(Eval(Last(n.kids), bound, "page"), <<"function">>)
      [] n.type = "Declarator" ->
           IF Len(n.kids) = 1 THEN s
           ELSE LET v == Eval(n.kids[2], s, "page") IN Bind(n.kids[1], v.val, v, "declare")
      [] n.type \in {"ForIn", "ForOf"} ->
           LET r == Eval(n.kids[2], s, "page")
               l == IF n.kids[1].type = "Var" THEN n.kids[1].kids[1].kids[1] ELSE n.kids[1]
               b == Bind(l, <<n.type>> \o r.val, r, IF n.kids[1].type = "Var" THEN "declare" ELSE "page")
           IN Eval(n.kids[3], b, "page")
      [] n.type = "Import" -> Does(s, "import", <<n.kids[1].val>>,
                                   IF n.kids[1].type = "ProxiedLit" THEN "proxy" ELSE "page")
      [] n.type = "ImportExpr" ->
           LET v == Eval(n.kids[1], s, "page")
           IN Does(v, "import", v.val, IF IsInstruction(n.kids[1], "__get$ProxyUrl") THEN "proxy" ELSE "page")
      [] n.type = "Naming" -> s
      [] OTHER -> all.s

EvalMeaning(n, meaning, s, who) ==
    IF meaning # n THEN Eval(meaning, s, "proxy")
    ELSE EvalOwn(n, s, who, EvalAll(n.kids, s), EvalMember(n.kids[1], s))
Eval(n, s, who) == EvalMeaning(n, Meaning(n), s, who)

(* A value is given to a variable, a property or a pattern. *)
Bind(t, v, s, who) ==
    CASE t.type = "Id" /\ t.val = "location" /\ who # "declare" -> Does(s, "navigate", v, who)
      [] t.type \in {"Id", "Temp"} -> SetVar(s, t.val, v)
      [] t.type = "Member" -> LET m == EvalMember(t, s) IN Does(m.s, "set", m.p \o m.o \o v, who)
      [] t.type = "AssignPat" ->
           IF v # <<"undefined">> THEN Bind(t.kids[1], v, s, who)
           ELSE LET d == Eval(t.kids[2], s, "page") IN Bind(t.kids[1], d.val, d, who)
      [] t.type = "ObjPat" ->
           LET take(acc, p) ==
                   IF p.type = "Rest"
                   THEN LET r == Does(acc.s, "rest", v \o FlattenSeq(acc.keys), "own")
                        IN [acc EXCEPT !.s = Bind(p.kids[1], r.val, r, who)]
                   ELSE LET k == IF p.val = "computed" THEN Eval(p.kids[1], acc.s, "page")
                                 ELSE Returns(acc.s, <<p.kids[1].val>>)
                            g == Get(k, v, k.val, who)
                        IN [s |-> Bind(p.kids[2], g.val, g, who), keys |-> Append(acc.keys, k.val)]
           IN FoldLeft(take, [s |-> s, keys |-> <<>>], t.kids).s
      [] t.type = "ArrPat" ->
           LET list == IF IsList(v) THEN v ELSE <<"list">> \o v
               from == IF IsList(v) THEN s ELSE Does(s, "iterate", v, "own")
               take(acc, i) == IF t.kids[i].type = "Rest"
                               THEN Bind(t.kids[i].kids[1], <<"rest", ToString(i - 1)>> \o list, acc, who)
                               ELSE Bind(t.kids[i], <<"item", ToString(i - 1)>> \o list, acc, who)
           IN FoldLeft(take, from, [i \in DOMAIN t.kids |-> i])
      [] OTHER -> s

-----------------------------------------------------------------------------
(* Properties *)

Trace(n)   == Eval(n, Start, "page").events
Actions(t) == [i \in DOMAIN t |-> [op |-> t[i].op, of |-> t[i].of]]

RECURSIVE Nodes(_)
Nodes(n) == {n} \cup UNION {Nodes(n.kids[i]) : i \in DOMAIN n.kids}

(* Changes of the text do not overlap; a call that is put into what a new expression creates *)
(* would be read as what it creates.                                                         *)
ChangesFit ==
    /\ \A i, j \in DOMAIN changes :
           IsPrefix(changes[i].pos, changes[j].pos) =>
               i = j \/ (changes[i].pos = changes[j].pos /\ Last(changes[i].pos) = 0)
    /\ \A i \in DOMAIN changes, n \in Nodes(program) :
           n.type = "New" /\ changes[i].type = "Call" =>
               ~\E d \in 1..Len(changes[i].pos) :
                   /\ IsPrefix(Append(n.pos, 1), changes[i].pos)
                   /\ \A e \in Len(n.pos) + 1..Len(changes[i].pos) : changes[i].pos[e] = 1

(* An operator that both reads and writes is written as two: what is left of it is evaluated *)
(* twice.                                                                                    *)
EvaluatedTwice(n) ==
    /\ ConcatOperator(n) /\ n.kids[1].type = "Member"
    /\ \/ n.kids[1].kids[1].type # "Id" \/ n.kids[1].kids[1].val = "location"
       \/ n.kids[1].val = "computed" /\ n.kids[1].kids[2].type \notin {"Id", "Lit"}

(* What is deleted, counted or given in turn the values of a list becomes a call.            *)
TargetBecomesCall(n) ==
    \/ n.type \in {"Delete", "Update"} /\ (IsNamed(n.kids[1], "eval") \/ IsNamed(n.kids[1], "postMessage"))
    \/ n.type = "Delete" /\ n.kids[1].type = "Id"
    \/ n.type = "ForOf" /\ n.kids[1].type \in {"Id", "Member"}

(* But for these two, a processed script does what it did, in the same order.                *)
SameBehaviour ==
    \/ \E n \in Nodes(program) : EvaluatedTwice(n) \/ TargetBecomesCall(n)
    \/ Actions(Trace(Processed)) = Actions(Trace(program))

ScriptsDoTheSame == passed => ChangesFit /\ SameBehaviour

(* What must be done by the proxy: what is named first in an event is what is got, set or    *)
(* called.                                                                                   *)
Sensitive(e) ==
    LET what == Head(e.of)
    IN \/ e.op \in {"read", "navigate", "import"}
       \/ e.op \in {"get", "set"} /\ what \in InstrumentedProperties \cup {"k"}
       \/ e.op = "call" /\ what \in InstrumentedMethods \cup {"k"}
       \/ e.op = "call" /\ what = "eval" /\ Len(e.of) > 2
       \/ e.op = "call" /\ what \in {"call", "apply", "bind"} /\ Len(e.of) > 3
              /\ e.of[2] \in {"eval", "postMessage"}

(* What the value given to location is made of, and the object of a postMessage that is not  *)
(* called, stay as they were.                                                                *)
RECURSIVE StaysAsItWas(_, _)
StaysAsItWas(t, i) ==
    \E j \in i + 1..Len(t) :
        /\ "#" \o ToString(i) \in Range(t[j].of)
        /\ t[j].op = "navigate" \/ Head(t[j].of) = "postMessage" \/ StaysAsItWas(t, j)

UnguardedIn(t) == {i \in DOMAIN t : Sensitive(t[i]) /\ t[i].who = "page" /\ ~StaysAsItWas(t, i)}

(* Whatever is sensitive in a processed script goes through an instruction of the proxy.     *)
ScriptsAreInstrumented == passed => UnguardedIn(Trace(Processed)) = {}

===============================================================================
