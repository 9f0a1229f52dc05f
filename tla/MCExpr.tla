------------------------------- MODULE MCExpr -------------------------------
(* Expressions over the boundary values of the scaled-down types.          *)
EXTENDS Expr

Edge(t, near) == {Val(t, n) : n \in {MinOf(t), MaxOf(t)} \cup near}

MCConstants == Edge("BOOL", {}) \cup Edge("SCHAR", {-1}) \cup Edge("INT", {-1, 0, 1})
               \cup Edge("UINT", {}) \cup Edge("LLONG", {-1, 1})
MCDeepConstants == Edge("INT", {-1, 1})
MCDeepOps == {"ADD", "MUL", "DIV", "SHL", "MAX"}
=============================================================================
