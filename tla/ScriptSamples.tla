----------------------------- MODULE ScriptSamples -----------------------------
(***************************************************************************)
(* A finite set of scripts: every expression and statement that the script *)
(* processor knows, over a few names, members and targets.  k is a name    *)
(* whose value is not known, u a property that nothing has.                *)
(***************************************************************************)
EXTENDS ScriptSyntax

A         == Id("a")
B         == Id("b")
K         == Id("k")
Loc       == Id("location")
F         == Call(Id("f"), <<>>)
AHref     == Member(A, Id("href"))
ALocation == Member(A, Id("location"))
Super     == Node("Super", "", <<>>)

Names   == {A, Loc, Id("eval"), Id("postMessage")}
Objects == {A, Loc, F, ALocation}
Members == {Member(o, Id(p)) : o \in Objects, p \in {"href", "x", "postMessage", "eval"}}
             \cup {Computed(o, p) : o \in Objects, p \in {Lit("href"), Lit("x"), K}}
Targets == {B, Loc} \cup Members
Values  == Names \cup Members
Callees == {Id("eval"), Id("postMessage"), Member(A, Id("eval")), Member(A, Id("postMessage")),
            Member(Loc, Id("postMessage"))}

(* Patterns: a target alone, in another pattern, with a default, with a rest. *)
ObjPat(parts)      == Node("ObjPat", "", parts)
ArrPat(parts)      == Node("ArrPat", "", parts)
Default(p, v)      == Node("AssignPat", "", <<p, v>>)
Rest(p)            == Node("Rest", "", <<p>>)
Prop(key, how, v)  == Node("Property", how, <<key, v>>)
Keys               == {<<Id("href"), "">>, <<Id("x"), "">>, <<Id("u"), "">>, <<K, "computed">>}
Assigned           == {B, Loc, AHref, Computed(A, K), Default(B, A), Default(B, Loc), Default(Loc, A), Default(Loc, Loc)}
Declared           == {B, Default(B, A), Default(B, Loc)}

Plain(ts)    == {ObjPat(<<Prop(key[1], key[2], t)>>) : key \in Keys, t \in ts} \cup {ArrPat(<<t>>) : t \in ts}
Patterns(ts) ==
    Plain(ts)
      \cup Plain({ArrPat(<<t>>) : t \in ts} \cup {ObjPat(<<Prop(Id("href"), "", t)>>) : t \in ts})
      \cup {ObjPat(<<Prop(key[1], key[2], t), Rest(Id("r"))>>) : t \in ts, key \in {<<Id("x"), "">>, <<K, "computed">>}}
      \cup {ArrPat(<<t, Rest(Id("r"))>>) : t \in ts}

SetsLocation == Assign(Loc, "=", A)

Assignments ==
    {Assign(t, op, v) : t \in Targets, op \in {"=", "+=", "-="}, v \in Values}
      \cup {Assign(p, "=", v) : p \in Patterns(Assigned), v \in {A, Loc, AHref, Array(<<Loc>>)}}

Calls ==
    {Call(f, args) : f \in Values, args \in {<<>>, <<Loc>>, <<AHref>>}}
      \cup {Call(Member(f, Id(m)), args) : f \in Callees, m \in {"call", "apply", "bind"},
                                           args \in {<<>>, <<A>>, <<A, Loc>>}}
      \cup {Node("New", "", <<f, v>>) : f \in Values, v \in Values}
      \cup {Node("ImportExpr", "", <<v>>) : v \in Values}

Functions ==
    {Node("Func", "", <<p, body>>) :
        p \in Patterns(Declared) \cup Declared \cup {Default(q, Loc) : q \in Plain(Declared)},
        body \in {AHref, Block(<<Expr(Assign(Loc, "=", B))>>)}}

Others ==
    {Node(type, "", <<t>>) : type \in {"Delete", "Update"}, t \in Members \cup {Loc}}
      \cup {Cond(c, x, y) : c, x, y \in {Loc, AHref, SetsLocation}}
      \cup {Sequence(<<x, y>>) : x, y \in Values \cup {SetsLocation}}
      \cup {Node("Object", "", <<Prop(key, how, v)>>) : key \in {Loc, K}, how \in {"", "computed"}, v \in Values}
      \cup {Computed(A, v) : v \in Names} \cup {Member(Super, Id("href"))}

Bodies == {Expr(Loc), Block(<<Expr(Assign(Loc, "=", B))>>), Block(<<Var("var", <<Declarator(B, Loc)>>)>>)}

Loops ==
    {Node("ForIn", "", <<l, v, b>>) : l \in Members \cup {B, Var("var", <<Declare(B)>>)}, v \in Names, b \in Bodies}
      \cup {Node("ForOf", "", <<l, v, b>>) :
               l \in Patterns(Assigned) \cup {Loc, AHref} \cup {Var("var", <<Declare(p)>>) : p \in Patterns(Declared) \cup {B}},
               v \in Names, b \in Bodies}

Declarations ==
    {Var("var", <<Declarator(B, v)>>) : v \in Values}
      \cup {Var("var", <<Declarator(p, v)>>) : p \in Patterns(Declared), v \in {Loc, AHref}}

SampleScripts ==
    {Node("Program", "script", <<s>>) :
        s \in {Expr(e) : e \in Values \cup Assignments \cup Calls \cup Functions \cup Others}
                  \cup Loops \cup Declarations \cup {Node("Import", "", <<Lit("url")>>)}}
      \cup {Node("Program", "javascript:", <<Expr(e)>>) : e \in Values \cup {Assign(Loc, "=", v) : v \in Values}}
===============================================================================
