-------------------------------- MODULE Arith --------------------------------
(***************************************************************************)
(* Expressions as they are parsed, one production a step: the text (src),  *)
(* the tree the parser has built of it (node) and whether optimization is  *)
(* on.  An expression has up to three objects: a, the one it changes, b    *)
(* and c; obj gives their types.  The properties compare the tree, its     *)
(* constant value and the code made of it with what C says of the text.    *)
(***************************************************************************)
EXTENDS CSemantics, ExprGen

CONSTANTS ObjectTypes,  \* types of a and b
          PointerTypes, \* those also tried through a pointer
          DeepTypes,    \* those of the objects of an expression of two operators
          DeepKinds,    \* and the kinds of its first operator
          LastTypes,    \* types of c, an operand of the second operator
          Constants,    \* literals, as <<type, value>>
          CastTypes,
          BinaryOps, AssignOps, Wraps,   \* operators tried
          LastOps,      \* binary operators that may come second
          KnownFaults   \* forms left out of the properties (see Faulty)

VARIABLES src, node, opt, obj, ops
vars == <<src, node, opt, obj, ops>>

\* Leaves: literals and objects, reached directly or through a pointer.
Literal(c) == [src |-> [k |-> "num", t |-> c[1], v |-> c[2]], node |-> Num(c[1], c[2])]
Object(x, t, k) == [src |-> [k |-> "var", x |-> x, t |-> t], node |-> [k |-> k, ty |-> t, x |-> x]]
Objects(x) == {Object(x, t, "var") : t \in ObjectTypes} \cup {Object(x, t, "deref") : t \in PointerTypes}
Unused == "none"
Operand == IF ops = 0 THEN Objects("b") \cup {Literal(c) : c \in Constants}
           ELSE {Object("c", t, "var") : t \in LastTypes} \cup {Literal(<<"i32", 3>>)}
Ops(set) == IF ops = 0 THEN set ELSE set \cap LastOps
ObjAfter(leaf) == IF leaf.src.k = "var" THEN [obj EXCEPT ![leaf.src.x] = leaf.src.t] ELSE obj

Init ==
    /\ opt \in BOOLEAN
    /\ ops = 0
    /\ \E leaf \in {Literal(c) : c \in Constants} \cup Objects("a") :
          /\ src = leaf.src
          /\ node = leaf.node
          /\ obj = [x \in {"a", "b", "c", "tmp"} |-> IF leaf.src.k = "var" /\ x = "a" THEN leaf.src.t ELSE Unused]

\* A second operator is tried on the expressions of a few types and operators.
Deep == /\ \A x \in DOMAIN obj : obj[x] \in DeepTypes \cup {Unused}
        /\ \E x \in DOMAIN obj : obj[x] # Unused
        /\ src.k \in DeepKinds
        /\ src.k = "opassign" => src.op = "add"
Become(s, n, o) ==
    /\ ops = 0 \/ (ops = 1 /\ Deep)
    /\ ops' = ops + 1
    /\ src' = s
    /\ node' = n
    /\ obj' = o
    /\ UNCHANGED opt

Cast == \E t \in CastTypes :
    Become([k |-> "cast", t |-> t, l |-> src], new_cast(node, t, opt), obj)

HasInteger(op, e) == op \in {"mod", "bitnot", "shl", "shift"} \cup Bitwises => CType(e) # "f64"

Unary == \E op \in Wraps \cap {"neg", "pos", "bitnot", "not"} :
    /\ HasInteger(op, src)
    /\ Become([k |-> op, l |-> src], unary(op, node, opt), obj)

\* The operand just read on the right, or the expression so far on the right of it.
Binary2 == \E op \in Ops(BinaryOps), leaf \in Operand :
    /\ HasInteger(op, src) /\ HasInteger(op, leaf.src)
    /\ Become([k |-> op, l |-> src, r |-> leaf.src], binary(op, node, leaf.node, opt), ObjAfter(leaf))

BinaryRight == \E op \in Ops(BinaryOps) \cap {"sub", "shift"}, leaf \in Operand :
    /\ ops > 0
    /\ HasInteger(op, src) /\ HasInteger(op, leaf.src)
    /\ Become([k |-> op, l |-> leaf.src, r |-> src], binary(op, leaf.node, node, opt), ObjAfter(leaf))

\* a op= operand, where the expression is still a.
Assign == \E op \in AssignOps, leaf \in Operand :
    /\ IsObject(node)
    /\ HasInteger(op, src) /\ HasInteger(op, leaf.src)
    /\ Become(IF op = "assign" THEN [k |-> op, l |-> src, r |-> leaf.src]
              ELSE [k |-> "opassign", op |-> op, l |-> src, r |-> leaf.src],
              assign(op, node, leaf.node, opt), ObjAfter(leaf))

\* b = the expression so far.
AssignTo == \E leaf \in Operand :
    /\ ops > 0 /\ IsObject(leaf.node)
    /\ Become([k |-> "assign", l |-> leaf.src, r |-> src], assign("assign", leaf.node, node, opt),
              ObjAfter(leaf))

PostInc == \E n \in {1, -1} :
    /\ "postinc" \in Wraps
    /\ IsObject(node)
    /\ Become([k |-> "postinc", l |-> src, v |-> n], new_inc_dec(node, n, opt), obj)

Conditional == \E leaf, other \in Operand :
    /\ "cond" \in Wraps
    /\ other.src.k = "num" /\ other.src.v = 1 + 2 * ops
    /\ \/ Become([k |-> "cond", c |-> src, l |-> leaf.src, r |-> other.src],
                 conditional(node, leaf.node, other.node, opt), ObjAfter(leaf))
       \/ Become([k |-> "cond", c |-> leaf.src, l |-> src, r |-> other.src],
                 conditional(leaf.node, node, other.node, opt), ObjAfter(leaf))

OmittedMiddle == \E leaf \in Operand :
    /\ "elvis" \in Wraps
    /\ obj["tmp"] = Unused
    /\ Become([k |-> "elvis", l |-> src, r |-> leaf.src], OmittedOperand(node, leaf.node, "tmp", opt),
              [ObjAfter(leaf) EXCEPT !["tmp"] = node.ty])

Comma == \E leaf \in Operand :
    /\ "comma" \in Wraps
    /\ Become([k |-> "comma", l |-> src, r |-> leaf.src], new_binary("comma", node, leaf.node, opt),
              ObjAfter(leaf))

Next == Cast \/ Unary \/ Binary2 \/ BinaryRight \/ Assign \/ AssignTo \/ PostInc
           \/ Conditional \/ OmittedMiddle \/ Comma
Spec == Init /\ [][Next]_vars

-----------------------------------------------------------------------------
(* Properties *)

\* Values of a type: its limits, those of int, and a few in between.
Tried(t) ==
    IF t = "f64" THEN {-3, 0, 2, NaN}
    ELSE {v \in {Least(t), -1, 0, 1, 2^(Bits[4] - 1), Greatest(t)} :
            InRange(v, t)}
TriedFor(x) == CASE obj[x] = Unused -> {0}
                 [] x = "c" /\ obj[x] # Unused -> {Greatest(obj[x]), 1}
                 [] OTHER -> Tried(obj[x])
Environments == {[a |-> va, b |-> vb, c |-> vc, tmp |-> 0] :
                   va \in TriedFor("a"), vb \in TriedFor("b"), vc \in TriedFor("c")}

\* An object in memory, with what lies behind it.
Neighbour == 2^Bits[8] - 1
Word(x, v) == IF obj[x] = "f64" THEN v
              ELSE IF obj[x] = Unused THEN 0
              ELSE LET bits == Bits[size(obj[x])] IN Neighbour - Low(Neighbour, bits) + Low(v, bits)
Machine(e) == [ax |-> Neighbour, xm |-> NaN, mem |-> [x \in DOMAIN obj |-> Word(x, e[x])]]
Changed == DOMAIN obj \ {"tmp"}
SameMemory(s, e) == \A x \in Changed : s.mem[x] = Word(x, e[x])

\* Forms for which the code is known to disagree with C.
RECURSIVE Subtrees(_)
Subtrees(n) == {n} \cup (IF "l" \in DOMAIN n THEN Subtrees(n.l) ELSE {})
                   \cup (IF "r" \in DOMAIN n THEN Subtrees(n.r) ELSE {})
                   \cup (IF "c" \in DOMAIN n THEN Subtrees(n.c) ELSE {})
Faulty ==
    \/ /\ "not-nan" \in KnownFaults
       /\ \E n \in Subtrees(node) : n.k = "not" /\ \E m \in Subtrees(n) : m.k \in Compares /\ m.l.ty = "f64"
    \/ /\ "half-min-div" \in KnownFaults
       /\ \E n \in Subtrees(node) : n.k = "div" /\ size(n.ty) = 8
             /\ Eval(n.l) = Is(-(2^(Bits[4] - 1))) /\ Eval(n.r) = Is(-1)

\* The result as its type has it: in xmm0, or in the low 4 or 8 bytes of rax.
HasResult(s, v) == IF node.ty = "f64" THEN s.xm = v
                   ELSE LET sz == regop(node.ty) IN URegister(s, sz) = Low(v, Bits[sz])

\* The type the parser gives an expression, through promotions, conversions and the casts it
\* drops, is the one C gives it (type.c:694 usual_arith_conv, parse.c:878 new_cast).
TypesAreC == node.ty = CType(src)

\* An expression that folds, folds to the value C gives it whatever the objects hold, and folding
\* never drops an effect (parse.c:3928 eval2).
FoldIsC ==
    is_const_expr(node) /\ ~Faulty =>
        \A e \in Environments : LET r == CValue(src, e) IN
            r.def => Convert(Eval(node).v, node.ty) = r.v /\ r.env = e

\* The left side of a comma is made for its effects alone.
ForEffects(n) == [k |-> "comma", ty |-> n.ty, l |-> n, r |-> NullExpr(n.ty)]
Leaves(s, r, used) == (used => HasResult(s, r.v)) /\ SameMemory(s, r.env)

\* The code made of an expression, optimized or not, for its value or for its effects alone, leaves
\* the value C gives it and changes the objects as C does, never a byte beside them (codegen.c:2401
\* gen_expr2, 3764 gen_expr_opt, 3045 gen_void_expr).
CodeIsC ==
    ~Faulty =>
        \A e \in Environments : LET r == CValue(src, e) IN
            r.def => \A used \in BOOLEAN :
                        Leaves(Gen(IF used THEN node ELSE ForEffects(node), Machine(e), opt), r, used)
=============================================================================
