---------------------------- MODULE MCMutators ----------------------------
(* Values for Mutators: two programs of the shapes csmith writes (branches *)
(* that hold only a jump, jumps forwards and backwards, labels on loops,   *)
(* an array, nested blocks that declare variables) and two snippets: a     *)
(* loop with two undeclared variables, a declaration, and a label and a    *)
(* jump to it, and a branch with a jump that has no label.  They are       *)
(* written as terms; the addresses of a heap are the paths in decimal, the *)
(* j-th statement below address a is at 10 * a + j.                        *)
EXTENDS Mutators

Term(k, n, e, s) == [k |-> k, n |-> n, e |-> e, s |-> s]

RECURSIVE Heap(_, _, _)
Heap(t, a, up) ==
    LET below == [j \in DOMAIN t.s |-> Heap(t.s[j], 10 * a + j, up \cup {a})]
    IN  FoldSeq(LAMBDA h, g : h @@ g,
                a :> Node(t.k, t.n, t.e, [j \in DOMAIN t.s |-> 10 * a + j], up), below)

Heaps(terms) == FoldSeq(LAMBDA h, g : h @@ g, <<>>, [f \in DOMAIN terms |-> Heap(terms[f], f, {})])

Program(funs) ==
    [funcs |-> [f \in DOMAIN funs |->
                   [name |-> funs[f].name, params |-> funs[f].params, body |-> f, made |-> FALSE]],
     nodes |-> Heaps([f \in DOMAIN funs |-> funs[f].body])]

Fun(name, params, body) == [name |-> name, params |-> params, body |-> body]
Block(items) == Term("Compound", 0, {}, items)
Decl(v) == Term("Decl", v, {}, <<>>)
ArrayDecl(v) == Term("ArrayDecl", v, {}, <<>>)
Assign(v, e) == Term("Assignment", v, e, <<>>)
Goto(l) == Term("Goto", l, {}, <<>>)
Label(l, t) == Term("Label", l, {}, <<t>>)
If(e, t) == Term("If", 0, e, <<t>>)
IfElse(e, t, u) == Term("If", 0, e, <<t, u>>)
For(e, t) == Term("For", 0, e, <<t>>)
Return(e) == Term("Return", 0, e, <<>>)

\* Names: global 1, functions 3 and 4, labels 5 and 6, locals from 7.
JumpsOverLoop ==
    Program(<<Fun(3, {7},
        Block(<<Decl(8), Term("PtrDecl", 10, {1}, <<>>), If({7}, Goto(5)),
                Label(5, For({1}, Block(<<ArrayDecl(9), If({9}, Goto(5)), Assign(1, {8, 9})>>))),
                Return({8, 10})>>))>>)

JumpIntoBranch ==
    Program(<<Fun(3, {},
        Block(<<Term("BareDecl", 8, {}, <<>>),
                IfElse({1}, Block(<<Label(6, Assign(8, {4}))>>), Goto(6)), Return({8})>>)),
      Fun(4, {7}, Term("NoItems", 0, {}, <<>>))>>)

MCSeedPrograms == {JumpsOverLoop, JumpIntoBranch}

Snippet(k, t) == [vars |-> k, items |-> <<1>>, nodes |-> Heap(t, 1, {})]

MCSnippets ==
    {Snippet(2, For({0}, Block(<<Decl(20), Label(21, Assign(0, {-1, 20})), If({0}, Block(<<Goto(21)>>))>>))),
     Snippet(0, If({1}, Goto(22)))}
===========================================================================
