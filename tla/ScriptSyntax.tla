------------------------------ MODULE ScriptSyntax ------------------------------
(***************************************************************************)
(* Syntax trees of page scripts, as the script processor sees and builds   *)
(* them (processing/script/node-builder.ts).  A node has a type, a name,   *)
(* operator or literal, and its child nodes in the order in which the      *)
(* parser lists them; pos is its place in the source, and done tells that  *)
(* it got that place from a node it replaced (originStart), "again" that   *)
(* it is to be transformed all the same (reTransform).                     *)
(*                                                                         *)
(* Literals, names and operators are strings.  A Naming is any parent in   *)
(* which an identifier is a name only: a class, a method, a label, an      *)
(* import or export specifier.                                             *)
(***************************************************************************)
EXTENDS Naturals, Sequences

NoPos == <<>>
Node(type, val, kids) == [type |-> type, val |-> val, kids |-> kids, pos |-> NoPos, done |-> "no"]

Id(name)             == Node("Id", name, <<>>)
Lit(value)           == Node("Lit", value, <<>>)
Temp(name)           == Node("Temp", name, <<>>)
Undefined            == Lit("undefined")
Member(o, p)         == Node("Member", "plain", <<o, p>>)
Computed(o, p)       == Node("Member", "computed", <<o, p>>)
Assign(l, op, r)     == Node("Assign", op, <<l, r>>)
Call(callee, args)   == Node("Call", "", <<callee>> \o args)
Array(elements)      == Node("Array", "", elements)
Binary(l, op, r)     == Node("Binary", op, <<l, r>>)
Cond(test, yes, no)  == Node("Cond", "", <<test, yes, no>>)
Sequence(exprs)      == Node("Sequence", "", exprs)
Expr(e)              == Node("Expr", "", <<e>>)
Return(e)            == Node("Return", "", <<e>>)
Block(body)          == Node("Block", "", body)
Declarator(id, init) == Node("Declarator", "", <<id, init>>)
Declare(id)          == Node("Declarator", "", <<id>>)
Var(kind, decls)     == Node("Var", kind, decls)

(* Calls of the instructions that the proxy gives to processed scripts. *)
Instruction(name, args) == Call(Id(name), args)

ProcessScript(arg)       == Instruction("__proc$Script", <<arg>>)
GetLocation(x)           == Instruction("__get$Loc", <<x>>)
GetProperty(o, p)        == Instruction("__get$", <<o, p>>)
SetProperty(o, p, v)     == Instruction("__set$", <<o, p, v>>)
CallMethod(o, m, args)   == Instruction("__call$", <<o, m, Array(args)>>)
GetEval(x)               == Instruction("__get$Eval", <<x>>)
GetProxyUrl(x)           == Instruction("__get$ProxyUrl", <<x>>)
ProcessHtml(e)           == Instruction("__proc$Html", <<e>>)
ArrayFrom(x)             == Instruction("__arrayFrom$", <<x>>)
RestArray(x, from)       == Instruction("__rest$Array", <<x, Lit(from)>>)
RestObject(x, keys)      == Instruction("__rest$Object", <<x, Array(keys)>>)

(* Of a member, what its object is asked for. *)
GetPostMessage(x) ==
    Instruction("__get$PostMessage", IF x.type = "Member" THEN <<x.kids[1]>> ELSE <<Lit("null"), x>>)

(* The value is evaluated once, in a function called with the script's own this; a sequence  *)
(* with 0 keeps a statement from beginning with it.                                          *)
SetLocation(x, v, wrapped) ==
    LET set == Instruction("__set$Loc", <<x, v>>)
    IN IF wrapped THEN Sequence(<<Lit("0"), set>>) ELSE set

IsInstruction(n, name) == n.type = "Call" /\ n.kids[1].type = "Id" /\ n.kids[1].val = name
===============================================================================
