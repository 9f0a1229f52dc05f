----------------------------- MODULE Mutators -----------------------------
(* The mutators of scripts/util/mutate: they edit the syntax tree of a     *)
(* csmith program after trans_stmt_to_compound (mutate_util.py) has put    *)
(* every loose branch and loop body in a block of its own and              *)
(* append_hash_4_local_variable has appended the hashes of the local       *)
(* variables to the blocks that declare them.                              *)
(*                                                                         *)
(* Nodes are objects that are edited in place, as in the code: a tree is a *)
(* heap, a function from addresses to nodes [k, n, e, s, up]: the kind,    *)
(* the name it declares, assigns, jumps to or labels (0 if none), the      *)
(* names its expressions use, the addresses of the statements below it in  *)
(* their order, and the addresses of all nodes around it.  Names and       *)
(* addresses are numbers; a new one was never used before.  Two programs   *)
(* differ here when their blocks, jumps, declarations or uses do; values,  *)
(* types, operators and assignments inside expressions are left out.       *)
(***************************************************************************)
EXTENDS Integers, FiniteSets, SequencesExt

CONSTANTS
    SeedPrograms,   \* programs as parsed: [funcs, nodes]
    Snippets,       \* code snippets: [vars, items, nodes]; vars variables that they
                    \* use and do not declare, the names 0, -1, ... in them
    Globals,        \* initialised global variables (GlobalDecl)
    SeedTop,        \* larger than every address of a seed
    SnippetTop,     \* larger than every address of a snippet
    FirstFresh,     \* larger than every name and address of a prepared seed
    MaxMutations    \* bound: mutations of one seed

Node(k, n, e, s, up) == [k |-> k, n |-> n, e |-> e, s |-> s, up |-> up]
Leaf(k, n, e) == Node(k, n, e, <<>>, {})

Controls == {"If", "For", "While", "DoWhile"}
\* initialised, initialised array (of one dimension), pointer, without init
Decls == {"Decl", "ArrayDecl", "PtrDecl", "BareDecl"}
Jumps == {"Goto", "Label"}
Simple == {"Goto", "Return", "Assignment"}   \* no statement is below these

\* "NoItems" is a Compound whose block_items is None.
IsBlock(t) == t.k \in {"Compound", "NoItems"}

VARIABLES
    nodes,       \* the nodes of all syntax trees
    program,     \* the functions [name, params, body, made], in their order
    fresh,       \* the next name or address
    pending,     \* the blocks that await their hashes
    hashed,      \* the declarations a hash was made for (history)
    tame,        \* no snippet with a loose jump was drawn (history)
    mutations,
    pc           \* "parsed", "ready" or, after a KeyError that nothing catches, "raised"

vars == <<nodes, program, fresh, pending, hashed, tame, mutations, pc>>
---------------------------------------------------------------------------
(* Reading a heap h.                                                       *)
\* get_specify_nodes_by_recursion: everything below the root
Below(h, root, kinds) == {x \in DOMAIN h : root \in h[x].up /\ h[x].k \in kinds}

Tree(h, root) == {x \in DOMAIN h : x = root \/ root \in h[x].up}

Blocks(h) == {x \in DOMAIN h : IsBlock(h[x])}

\* get_specify_nodes_pos_from_compound_nodes: only the statements of blocks
Placed(h, kinds) ==
    {x \in DOMAIN h : h[x].k \in kinds /\ \E b \in Blocks(h) : x \in Range(h[b].s)}

Names(h, xs) == {h[x].n : x \in xs}
---------------------------------------------------------------------------
(* Editing a heap.  A list of statements that are put into it is a record  *)
(* [items, nodes]: their addresses and the nodes they consist of.          *)
Splice(s, idx, new) == SubSeq(s, 1, idx) \o new \o SubSeq(s, idx + 1, Len(s))

\* Put statements into block b at an index that counts from 0, as Python's.
Inserted(h, b, idx, list) ==
    IF h[b].k = "NoItems" THEN h
    ELSE [x \in DOMAIN h \cup DOMAIN list.nodes |->
             IF x = b
             THEN Node("Compound", h[b].n, h[b].e, Splice(h[b].s, idx, list.items), h[b].up)
             ELSE IF x \in DOMAIN h THEN h[x]
             ELSE LET t == list.nodes[x]
                  IN  Node(t.k, t.n, t.e, t.s, t.up \cup h[b].up \cup {b})]

\* del block_items[j]
Deleted(h, b, j) ==
    [x \in DOMAIN h \ Tree(h, h[b].s[j]) |->
        IF x = b THEN Node(h[b].k, h[b].n, h[b].e, RemoveAt(h[b].s, j), h[b].up) ELSE h[x]]

\* block_items = []
Emptied(h, b) ==
    [x \in {y \in DOMAIN h : b \notin h[y].up} |->
        IF x = b THEN Node("Compound", h[b].n, h[b].e, <<>>, h[b].up) ELSE h[x]]
---------------------------------------------------------------------------
(* trans_stmt_to_compound.  The four visitors of loops and branches touch  *)
(* different nodes, so that one pass over all of them does what they do;   *)
(* then the hashes are appended, block by block.  The new block around x   *)
(* is at SeedTop + x.                                                      *)
Loose_Fault(h) ==
    {x \in DOMAIN h : ~IsBlock(h[x]) /\ \E c \in DOMAIN h : h[c].k \in Controls \ {"If"} /\ x \in Range(h[c].s)}
Loose(h) ==
    {x \in DOMAIN h : ~IsBlock(h[x]) /\ \E c \in DOMAIN h : h[c].k \in Controls /\ x \in Range(h[c].s)}

Wrapped(h) ==
    LET loose == Loose(h)
        Around(xs) == {SeedTop + x : x \in xs \cap loose}
    IN  [x \in DOMAIN h \cup Around(loose) |->
            IF x \in DOMAIN h
            THEN Node(h[x].k, h[x].n, h[x].e,
                      [j \in DOMAIN h[x].s |->
                          IF h[x].s[j] \in loose THEN SeedTop + h[x].s[j] ELSE h[x].s[j]],
                      h[x].up \cup Around(h[x].up \cup {x}))
            ELSE LET y == x - SeedTop
                 IN  Node("Compound", 0, {}, <<y>>, h[y].up \cup Around(h[y].up))]

\* A finite set of numbers in increasing order.
Listed(S) == [k \in 1..Cardinality(S) |-> CHOOSE x \in S : Cardinality({y \in S : y <= x}) = k]

(* append_hash_4_local_variable.  The initialised locals of a block that   *)
(* are no pointers, in their order; the hash of an array is a loop around  *)
(* a block with the call.  The fields of a structure count as one call.    *)
Locals(h, b) ==
    LET places == Listed({j \in DOMAIN h[b].s : h[h[b].s[j]].k \in {"Decl", "ArrayDecl"}})
    IN  [k \in DOMAIN places |-> h[b].s[places[k]]]

\* The hashes of the declarations ds, at the addresses from a.
HashStmts(h, ds, a) ==
    LET arrays == {k \in DOMAIN ds : h[ds[k]].k = "ArrayDecl"}
        Hash(x) == {h[ds[(x - a) \div 3]].n}
    IN  [items |-> [k \in DOMAIN ds |-> a + 3 * k],
         nodes |-> [x \in {a + 3 * k : k \in DOMAIN ds} \cup {a + 3 * k + i : k \in arrays, i \in 1..2} |->
            IF (x - a) \div 3 \notin arrays THEN Leaf("Call", 0, Hash(x))
            ELSE IF (x - a) % 3 = 0 THEN Node("For", 0, {}, <<x + 1>>, {})
            ELSE IF (x - a) % 3 = 1 THEN Node("Compound", 0, {}, <<x + 1>>, {x - 1})
            ELSE Node("Call", 0, Hash(x), <<>>, {x - 2, x - 1})]]

\* before a return at the end of the block
HashIndex_Fault(h, b) == Len(h[b].s)
HashIndex(h, b) ==
    LET s == h[b].s
    IN  IF Len(s) > 0 /\ h[s[Len(s)]].k = "Return" THEN Len(s) - 1 ELSE Len(s)

\* of the functions and of every branch and loop, not of a block in a block
HashedBlocks(h) ==
    {b \in DOMAIN h : /\ h[b].k = "Compound" /\ Locals(h, b) # <<>>
                      /\ \/ \E f \in DOMAIN program : program[f].body = b
                         \/ \E c \in DOMAIN h : h[c].k \in Controls /\ b \in Range(h[c].s)}

Init ==
    /\ \E seed \in SeedPrograms : program = seed.funcs /\ nodes = seed.nodes
    /\ fresh = FirstFresh /\ pending = {} /\ hashed = {} /\ tame = TRUE
    /\ mutations = 0 /\ pc = "parsed"

TransStmtToCompound ==
    /\ pc = "parsed"
    /\ nodes' = Wrapped(nodes)
    /\ pending' = HashedBlocks(nodes')
    /\ pc' = "ready"
    /\ UNCHANGED <<program, fresh, hashed, tame, mutations>>

AppendHash ==
    /\ \E b \in pending :
         LET ds == Locals(nodes, b)
         IN  /\ nodes' = Inserted(nodes, b, HashIndex(nodes, b), HashStmts(nodes, ds, fresh))
             /\ hashed' = hashed \cup Range(ds)
             /\ fresh' = fresh + 3 * Len(ds) + 3
             /\ pending' = pending \ {b}
    /\ UNCHANGED <<program, tame, mutations, pc>>
---------------------------------------------------------------------------
(* construct_variable_init_stmt_node, for k new variables: the i-th is v + *)
(* 3 * i, the number behind it names what it may point to, the next one is *)
(* the address of its hash.  A variable has a value or is a pointer, to a  *)
(* global or to a variable that the next statement declares.               *)
NewVariables(v, k) == {v + 3 * i : i \in 0..k - 1}

Targets(V) ==
    {to \in [V -> SUBSET (Globals \cup {x + 1 : x \in V})] :
        \A x \in V : to[x] \in {{}, {x + 1}} \cup {{g} : g \in Globals}}

Plain(V, to) == {x \in V : to[x] = {}}

InitStmts(V, to) ==
    LET declared == V \cup {x + 1 : x \in {y \in V : to[y] = {y + 1}}}
    IN  [items |-> Listed(declared),
         nodes |-> [x \in declared |->
            IF x \in V \ Plain(V, to) THEN Leaf("PtrDecl", x, to[x]) ELSE Leaf("Decl", x, {})]]

\* Only plain variables are hashed, at the end of the function.
NewHashes(V, to) ==
    LET hashes == {x + 2 : x \in Plain(V, to)}
    IN  [items |-> Listed(hashes), nodes |-> [x \in hashes |-> Leaf("Call", 0, {x - 2})]]

\* The snippet with its new variables, at the addresses behind base; its
\* labels keep their names.
Undeclared(snippet) == {-i : i \in 0..snippet.vars - 1}

Renamed(snippet, v, base) ==
    LET New(name) == IF name \in Undeclared(snippet) THEN v - 3 * name ELSE name
        Moved(s) == [j \in DOMAIN s |-> base + s[j]]
    IN  [items |-> Moved(snippet.items),
         nodes |-> [x \in {base + y : y \in DOMAIN snippet.nodes} |->
            LET t == snippet.nodes[x - base]
            IN  Node(t.k, IF t.k = "Assignment" THEN New(t.n) ELSE t.n, {New(name) : name \in t.e},
                     Moved(t.s), {base + y : y \in t.up})]]

\* Its jumps and labels are statements of blocks, its jumps have labels.
IsTame(h) ==
    /\ \A x \in DOMAIN h : h[x].k \in Jumps => x \in Placed(h, Jumps)
    /\ Names(h, Placed(h, {"Goto"})) \subseteq Names(h, Placed(h, {"Label"}))

(* The insertion of a snippet in the order of the code: its hash before    *)
(* the last statement of the function, itself at the place that was drawn, *)
(* its declarations one by one at the head of the function.                *)
InsertOrder_Fault(h, body, b, idx, snippet, hashes, inits) ==   \* inits as listed
    LET last == IF h[body].s = <<>> THEN 0 ELSE Len(h[body].s) - 1
    IN  Inserted(Inserted(Inserted(h, body, last, hashes), b, idx, snippet), body, 0, inits)
InsertOrder(h, body, b, idx, snippet, hashes, inits) ==
    LET last == IF h[body].s = <<>> THEN 0 ELSE Len(h[body].s) - 1
    IN  Inserted(Inserted(Inserted(h, body, last, hashes), b, idx, snippet), body, 0,
                 [items |-> Reverse(inits.items), nodes |-> inits.nodes])

InsertSnippet(body, b, idx) ==
    /\ nodes[body].k = "Compound"
    /\ \E snippet \in Snippets :
         LET V == NewVariables(fresh, snippet.vars)
             base == fresh + 3 * snippet.vars
         IN  /\ \E to \in Targets(V) :
                  /\ nodes' = InsertOrder(nodes, body, b, idx, Renamed(snippet, fresh, base),
                                          NewHashes(V, to), InitStmts(V, to))
                  /\ hashed' = hashed \cup Plain(V, to)
             /\ fresh' = base + SnippetTop
             /\ tame' = (tame /\ IsTame(snippet.nodes))

InsertReturn(b, idx) ==
    /\ \E to \in Targets({fresh}) :
         LET inits == InitStmts({fresh}, to)
         IN  nodes' = Inserted(nodes, b, idx,
                [items |-> Append(Reverse(inits.items), fresh + 2),
                 nodes |-> [x \in DOMAIN inits.nodes \cup {fresh + 2} |->
                               IF x = fresh + 2 THEN Leaf("Return", 0, {fresh}) ELSE inits.nodes[x]]])
    /\ fresh' = fresh + 3
    /\ UNCHANGED <<hashed, tame>>

InsertCodeSnippetNode ==
    /\ \E f \in DOMAIN program : \E b \in Blocks(nodes) \cap Tree(nodes, program[f].body) :
         \E idx \in 0..Len(nodes[b].s) :
            InsertSnippet(program[f].body, b, idx) \/ InsertReturn(b, idx)
    /\ UNCHANGED <<program, pending, pc>>
---------------------------------------------------------------------------
(* prune_code_snippet_node.  A return or an assignment is deleted; with a  *)
(* branch, a loop or the content of a block also go all labels and jumps,  *)
(* anywhere in the program, that share a name with one in it.  They are    *)
(* looked up among the statements of the blocks.                           *)
PruneSimple ==
    /\ \E b \in Blocks(nodes) : \E j \in DOMAIN nodes[b].s :
         /\ nodes[nodes[b].s[j]].k \in {"Return", "Assignment"}
         /\ nodes' = Deleted(nodes, b, j)
    /\ UNCHANGED <<program, fresh, pending, hashed, tame, pc>>

\* A label gives way to its statement, a jump becomes empty.
Released_Fault(h, names) == {x \in Placed(h, {"Label"}) : h[x].n \in names}
Released(h, names) == {x \in Placed(h, Jumps) : h[x].n \in names}

Unlabelled(h, names) ==
    LET labels == {x \in Released(h, names) : h[x].k = "Label"}
    IN  [x \in DOMAIN h \ labels |->
            IF x \in Released(h, names) THEN Node("Empty", 0, {}, <<>>, h[x].up \ labels)
            ELSE Node(h[x].k, h[x].n, h[x].e,
                      [j \in DOMAIN h[x].s |-> IF h[x].s[j] \in labels THEN h[h[x].s[j]].s[1] ELSE h[x].s[j]],
                      h[x].up \ labels)]

\* What is below target goes; pruned is the heap without it.
PruneTarget(target, pruned) ==
    IF Names(nodes, Below(nodes, target, Jumps)) \subseteq Names(nodes, Placed(nodes, Jumps))
    THEN nodes' = pruned /\ UNCHANGED pc
    ELSE pc' = "raised" /\ UNCHANGED nodes   \* KeyError

PruneControl ==
    /\ \E b \in Blocks(nodes) : \E j \in DOMAIN nodes[b].s :
         LET target == nodes[b].s[j]
             names == Names(nodes, Below(nodes, target, Jumps))
         IN  /\ nodes[target].k \in {"If", "For"}
             /\ PruneTarget(target, Deleted(Unlabelled(nodes, names), b, j))
    /\ UNCHANGED <<program, fresh, pending, hashed, tame>>

PruneCompound ==
    /\ \E b \in Blocks(nodes) :
         LET names == Names(nodes, Below(nodes, b, Jumps))
         IN  PruneTarget(b, Emptied(Unlabelled(nodes, names), b))
    /\ UNCHANGED <<program, fresh, pending, hashed, tame>>
---------------------------------------------------------------------------
(* replace_assignment_with_func: the right side of an assignment moves to  *)
(* a new function, put before the first one of the program.  The variables *)
(* known to the caller become its parameters arg_0, arg_1..., here -1, -2. *)
\* get_local_decl_from_func also meets the declaration of the function.
LocalDecl(f) == {f.name} \cup f.params \cup Names(nodes, Below(nodes, f.body, Decls))

Known(f) == LocalDecl(f) \cup Globals

Outlined(name, args) == [name |-> name, params |-> args, body |-> name, made |-> TRUE]

ReplaceAssignmentWithFunc ==
    /\ \E f \in DOMAIN program : \E a \in Below(nodes, program[f].body, {"Assignment"}) :
         LET rvalue == nodes[a].e
             known == rvalue \cap Known(program[f])
             args == {-n : n \in 1..Cardinality(known)}
         IN  /\ nodes' = [x \in DOMAIN nodes \cup {fresh, fresh + 1} |->
                    IF x = fresh THEN Node("Compound", 0, {}, <<fresh + 1>>, {})
                    ELSE IF x = fresh + 1 THEN Node("Return", 0, (rvalue \ known) \cup args, <<>>, {fresh})
                    ELSE IF x = a THEN Node("Assignment", nodes[a].n, known \cup {fresh}, nodes[a].s, nodes[a].up)
                    ELSE nodes[x]]
             /\ program' = <<Outlined(fresh, args)>> \o program
    /\ fresh' = fresh + 2
    /\ UNCHANGED <<pending, hashed, tame, pc>>
---------------------------------------------------------------------------
Mutate ==
    /\ pc = "ready" /\ pending = {} /\ mutations < MaxMutations
    /\ mutations' = mutations + 1
    /\ \/ InsertCodeSnippetNode
       \/ PruneSimple \/ PruneControl \/ PruneCompound
       \/ ReplaceAssignmentWithFunc

Next == TransStmtToCompound \/ AppendHash \/ Mutate

Spec == Init /\ [][Next]_vars
---------------------------------------------------------------------------
(* What programs look like.                                                *)
\* A node has one place, below the nodes it names as its surroundings.
Forest(h) ==
    \A x \in DOMAIN h :
        /\ h[x].s \in Seq(DOMAIN h) /\ IsInjective(h[x].s)
        /\ \A y \in Range(h[x].s) : h[y].up = h[x].up \cup {x}
        /\ h[x].up \subseteq DOMAIN h \ {x}
        /\ \A a \in h[x].up : /\ h[a].up \subseteq h[x].up
                              /\ \E y \in Range(h[a].s) : y = x \/ y \in h[x].up
                              /\ \A c \in h[x].up : a = c \/ a \in h[c].up \/ c \in h[a].up

JumpsFit(h, funcs) ==
    \A f \in DOMAIN funcs :
        Names(h, Below(h, funcs[f].body, {"Goto"})) \subseteq Names(h, Below(h, funcs[f].body, {"Label"}))

\* v is declared before x, in the same block or in one around it.
Declared(h, v, x) ==
    \E b \in h[x].up : \E i, j \in DOMAIN h[b].s :
        /\ IsBlock(h[b]) /\ i < j /\ (h[b].s[j] = x \/ h[b].s[j] \in h[x].up)
        /\ h[h[b].s[i]].k \in Decls /\ h[h[b].s[i]].n = v

\* csmith declares its own functions at the head of the file.
Callable(funcs, f) ==
    {funcs[g].name : g \in {h \in DOMAIN funcs : ~funcs[h].made \/ funcs[f].made \/ h < f}}

Uses(t) == IF IsBlock(t) THEN {} ELSE t.e \cup (IF t.k = "Assignment" THEN {t.n} ELSE {})

UsesFit(h, funcs) ==
    \A f \in DOMAIN funcs : \A x \in Tree(h, funcs[f].body) : \A v \in Uses(h[x]) :
        v \in Globals \cup Callable(funcs, f) \cup funcs[f].params \/ Declared(h, v, x)
---------------------------------------------------------------------------
(* The seeds compile.  Each name of csmith is declared once, a label or a  *)
(* jump is a statement of a block, a branch or a loop, a label stands      *)
(* before a statement that is no jump, no label and no declaration, a      *)
(* return ends its block, and no hash is there yet.                        *)
IsSeed(seed) ==
    LET h == seed.nodes
        funcs == seed.funcs
    IN  /\ Forest(h) /\ DOMAIN h \subseteq 1..(SeedTop - 1)
        /\ \A x \in DOMAIN h : {h[x].n} \cup h[x].e \subseteq {v \in Int : v < FirstFresh}
        /\ funcs \in Seq([name : Int, params : SUBSET Int, body : DOMAIN h, made : {FALSE}])
        /\ \A f \in DOMAIN funcs : h[funcs[f].body].up = {}
        /\ JumpsFit(h, funcs) /\ UsesFit(h, funcs)
        /\ \A x \in DOMAIN h :
              /\ h[x].k \in Jumps =>
                    \E c \in DOMAIN h : x \in Range(h[c].s) /\ (IsBlock(h[c]) \/ h[c].k \in Controls)
              /\ h[x].k \in Simple => h[x].s = <<>>
              /\ h[x].k = "Label" => Len(h[x].s) = 1 /\ h[h[x].s[1]].k \notin Jumps \cup Decls
              /\ h[x].k # "Call"
              /\ h[x].k \in {"Decl", "ArrayDecl"} =>
                    \A y \in DOMAIN h : h[y].k \in {"Decl", "ArrayDecl"} /\ h[y].n = h[x].n => y = x
        /\ \A b \in Blocks(h) : \A j \in DOMAIN h[b].s : h[h[b].s[j]].k = "Return" => j = Len(h[b].s)

\* A list of statements is a forest with its items on top.
IsList(list) ==
    /\ Forest(list.nodes)
    /\ list.items \in Seq(DOMAIN list.nodes) /\ IsInjective(list.items)
    /\ \A x \in Range(list.items) : list.nodes[x].up = {}
    /\ \A x \in DOMAIN list.nodes : \E y \in Range(list.items) : y = x \/ y \in list.nodes[x].up

(* A snippet uses global variables and those it declares itself, besides   *)
(* its undeclared ones.  It is any statement of a csmith program, jumps    *)
(* and labels in it or below a case may lack the other (extract_ingredient *)
(* takes whole branches, loops and switches); what stands after a label is *)
(* as in the seeds.                                                        *)
IsSnippet(snippet) ==
    LET h == snippet.nodes
    IN  /\ snippet.vars \in Nat
        /\ IsList(snippet) /\ DOMAIN h \subseteq 1..(SnippetTop - 1)
        /\ \A x \in DOMAIN h :
              /\ \A v \in Uses(h[x]) : v \in Undeclared(snippet) \cup Globals \/ Declared(h, v, x)
              /\ h[x].k \in Simple => h[x].s = <<>>
              /\ h[x].k = "Label" => Len(h[x].s) = 1 /\ h[h[x].s[1]].k \notin Jumps \cup Decls
              /\ h[x].k # "Call"

ASSUME BoundsAssumption ==
    SeedTop \in Nat /\ SnippetTop \in Nat \ {0} /\ FirstFresh \in Nat /\ FirstFresh >= 2 * SeedTop
ASSUME ProgramsAssumption == \A seed \in SeedPrograms : IsSeed(seed)
ASSUME SnippetsAssumption == \A snippet \in Snippets : IsSnippet(snippet)
---------------------------------------------------------------------------
(* Every jump has its label in the same function, whatever is pruned, as   *)
(* long as no snippet with a loose jump or label was inserted: a label     *)
(* that goes takes all its jumps along.  Snippets are not wrapped as seeds *)
(* are, and with a loose jump in one the claim is false.                   *)
JumpsHaveLabels == tame => JumpsFit(nodes, program)

(* A mutation asks for a label that no block holds (KeyError) only after a *)
(* snippet with a loose jump or label was inserted.                        *)
NoKeyError == pc = "raised" => ~tame

(* Everything that is used is declared before, in the same block or one    *)
(* around it, after any sequence of mutations; csmith declares its own     *)
(* functions at the head of the file, a new function must come before the  *)
(* code of the seed that calls it.  Calls between new functions are left   *)
(* out of the claim: the callee is put behind the caller (see the README). *)
UsesDeclared == UsesFit(nodes, program)

(* A declaration that was ever hashed never has two hashes; one of a       *)
(* scalar has its hash behind it in the same block, as long as it is       *)
(* there; and in a program that is not mutated so has an array, in a loop, *)
(* and no return of the block comes first.  (The loop around the hash of   *)
(* an array can be pruned, and the block in it emptied; a return behind a  *)
(* label is not seen when the hashes are appended.)                        *)
LocalsAreHashed ==
    \A b \in Blocks(nodes) : \A j \in DOMAIN nodes[b].s :
        LET s == nodes[b].s
            d == s[j]
            hashes == {x \in DOMAIN nodes : nodes[x].k = "Call" /\ nodes[d].n \in nodes[x].e}
        IN  d \in hashed =>
                /\ \A x, y \in hashes : x = y
                /\ nodes[d].k = "Decl" => \E i \in DOMAIN s : i > j /\ s[i] \in hashes
                /\ mutations = 0 => \E i \in DOMAIN s : /\ i > j /\ Tree(nodes, s[i]) \cap hashes # {}
                                                        /\ \A m \in 1..i : nodes[s[m]].k # "Return"
===========================================================================
