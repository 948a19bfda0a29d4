------------------------------ MODULE Rewrite ------------------------------
(***************************************************************************)
(* The source rewriter of cmd/errtrace (main.go): the walker that decides  *)
(* where to insert errtrace.Wrap, and rewriteFile, which inserts it.       *)
(*                                                                         *)
(* A program is the preorder sequence of the syntax nodes that matter, an  *)
(* opening node (a function, function literal, defer of a literal, block,  *)
(* switch or select) closed by an "end" node, and a "case" node before     *)
(* each clause.  Expressions are told apart only as far as the walker      *)
(* does: an errtrace call, another call, the identifier nil, other.        *)
(***************************************************************************)
EXTENDS Naturals, Sequences, SequencesExt, FiniteSetsExt, Bags

Exprs == {"wrap", "call", "nil", "ident"}
IsCall(e) == e \in {"wrap", "call"}

\* A target of an assignment that is no named error result of a function.
Other == <<0, 0>>

\* Result idx of the function opened at a line: an *ast.Object.
Obj(line, idx) == <<line, idx>>

Opens(node) == node.k \in {"func", "lit", "defer", "block", "switch"}
IsFunc(node) == node.k \in {"func", "lit", "defer"}

\* The nodes still open after the first i nodes of a program, outermost first.
Opened(p) ==
  LET O[i \in 0 .. Len(p)] ==
        IF i = 0 THEN << >>
        ELSE IF Opens(p[i]) THEN Append(O[i - 1], i)
        ELSE IF p[i].k = "end" THEN Front(O[i - 1])
        ELSE O[i - 1]
  IN  O

\* Those node i stands in (also past the end of a file).
OpenAt(p, i) == Opened(p)[i - 1]
----------------------------------------------------------------------------
(***************************************************************************)
(* The walker.  w.stack holds the visitors of the nodes being visited; a   *)
(* visitor knows the function it is in and, for its innermost block, which *)
(* named errors an assignment in the block already wrapped.  w.inserts is  *)
(* a bag: the inserts are sorted by position before they are made.         *)
(***************************************************************************)
NoVisitor == [indices |-> {}, objs |-> {}, n |-> 0, wrapped |-> {}]

NewWalker(opts, optouts) ==
  [stack |-> <<NoVisitor>>, inserts |-> EmptyBag, logs |-> {}, used |-> {},
   opts |-> opts, optouts |-> optouts]

Top(w) == Last(w.stack)
Push(w, v) == [w EXCEPT !.stack = Append(@, v)]
Log(w, lines) == [w EXCEPT !.logs = @ \union lines]
Insert(w, S) == [w EXCEPT !.inserts = @ (+) SetToBag(S)]

\* optout: is the line opted out?  If so that is a use of it.
OptedOut(w, line) == line \in w.optouts
UseOptout(w, lines) == [w EXCEPT !.used = @ \union lines]

ErrorIndices(sig) == {j \in 1 .. Len(sig.results) : sig.results[j] = "error"}

\* Variant: a literal without errors keeps what outer knows of its function.
FuncType_NoReset(outer, sig, line) ==
  IF ErrorIndices(sig) = {} THEN outer
  ELSE [indices |-> ErrorIndices(sig),
        objs |-> IF sig.named THEN {Obj(line, j) : j \in ErrorIndices(sig)} ELSE {},
        n |-> Len(sig.results),
        wrapped |-> {}]

\* funcType: the visitor for a function with signature sig opened at line, in
\* place of outer.
FuncType(outer, sig, line) ==
  IF ErrorIndices(sig) = {} \/ (Cardinality(ErrorIndices(sig)) = 1 /\ sig.unwrap)
  THEN [outer EXCEPT !.indices = {}, !.objs = {}, !.n = 0, !.wrapped = {}]
  ELSE [indices |-> ErrorIndices(sig),
        objs |-> IF sig.named THEN {Obj(line, j) : j \in ErrorIndices(sig)} ELSE {},
        n |-> Len(sig.results),
        wrapped |-> {}]

\* The insert that wraps expression j of node i, which returns n values.
WrapInsert(i, j, n) == [k |-> "wrap", at |-> i, expr |-> j, n |-> n]

\* wrapExpr for each of these: an errtrace call and nil stay as they are.
WrapExprs(w, prog, wraps) ==
  LET Expr(ins) == IF prog[ins.at].k = "return" THEN prog[ins.at].results[ins.expr]
                   ELSE prog[ins.at].rhs[ins.expr]
      errors == {ins \in wraps : Expr(ins) \notin {"wrap", "nil"}}
      out == {ins \in errors : OptedOut(w, prog[ins.at].line)}
  IN  UseOptout(Insert(w, errors \ out), {prog[ins.at].line : ins \in out})

\* Variants: any position of the error; optouts not asked for blocks; a WrapN
\* too many.
WrapReturnCall_AnyPosition(w, prog, i) ==
  LET v == Top(w) IN
  IF Cardinality(v.indices) # 1 THEN Log(w, {prog[i].line})
  ELSE IF w.opts.NoWrapN THEN Insert(w, {[k |-> "block", at |-> i, n |-> v.n]})
  ELSE WrapExprs(w, prog, {WrapInsert(i, 1, v.n)})

WrapReturnCall_NoOptout(w, prog, i) ==
  LET v == Top(w) IN
  IF v.indices # {v.n} THEN Log(w, {prog[i].line})
  ELSE IF prog[i].results[1] = "wrap" THEN w
  ELSE IF w.opts.NoWrapN THEN Insert(w, {[k |-> "block", at |-> i, n |-> v.n]})
  ELSE WrapExprs(w, prog, {WrapInsert(i, 1, v.n)})

WrapReturnCall_OffByOne(w, prog, i) ==
  LET v == Top(w) IN
  IF v.indices # {v.n} \/ v.n > 7 THEN Log(w, {prog[i].line})
  ELSE WrapExprs(w, prog, {WrapInsert(i, 1, v.n)})

\* wrapReturnCall: return f() where f() stands for all n results, of which only
\* the last may be an error.
WrapReturnCall(w, prog, i) ==
  LET v == Top(w)
      line == prog[i].line
  IN  IF v.indices # {v.n} THEN Log(w, {line})
      ELSE IF prog[i].results[1] = "wrap" THEN w
      ELSE IF OptedOut(w, line) THEN UseOptout(w, {line})
      ELSE IF w.opts.NoWrapN THEN Insert(w, {[k |-> "block", at |-> i, n |-> v.n]})
      ELSE IF v.n > 6 THEN Log(w, {line})
      ELSE WrapExprs(w, prog, {WrapInsert(i, 1, v.n)})

\* A return with no results: assign the named errors not wrapped yet.
NakedReturn(w, prog, i) ==
  LET v == Top(w)
      names == v.objs \ v.wrapped
  IN  IF OptedOut(w, prog[i].line) THEN UseOptout(w, {prog[i].line})
      ELSE IF names = {} THEN w
      ELSE Insert(w, {[k |-> "assign", at |-> i, names |-> names]})

ReturnStmt(w, prog, i) ==
  LET v == Top(w)
      results == prog[i].results
  IN  IF v.indices = {} THEN w
      ELSE IF results = << >> THEN NakedReturn(w, prog, i)
      ELSE IF Len(results) = 1 /\ v.n > 1
        THEN IF IsCall(results[1]) THEN WrapReturnCall(w, prog, i)
             ELSE Log(w, {prog[i].line})
      ELSE WrapExprs(w, prog, {WrapInsert(i, j, 1) : j \in v.indices})

\* Variant: only the first target is looked at.
AssignStmt_First(w, node) ==
  IF node.lhs[1] \in Top(w).objs /\ node.rhs[1] = "wrap"
  THEN [w EXCEPT !.stack[Len(w.stack)].wrapped = @ \union {node.lhs[1]}]
  ELSE w

\* assignStmt: remember which named errors were assigned an errtrace call.
AssignStmt(w, node) ==
  LET done == {node.lhs[j] : j \in {j \in 1 .. Len(node.lhs) :
                 /\ node.lhs[j] \in Top(w).objs
                 /\ j <= Len(node.rhs)
                 /\ node.rhs[j] = "wrap"}}
  IN  [w EXCEPT !.stack[Len(w.stack)].wrapped = @ \union done]

\* What the assignment at i assigns to these named errors: an expression of
\* its own, or the last value of a call.
DeferredWraps(node, i, objs) ==
  LET targets == {j \in 1 .. Len(node.lhs) : node.lhs[j] \in objs}
      last == Len(node.lhs)
  IN  IF last = Len(node.rhs) THEN {WrapInsert(i, j, 1) : j \in targets}
      ELSE IF last \in targets /\ Len(node.rhs) = 1 THEN {WrapInsert(i, 1, last)}
      ELSE {}

\* An error that is another value of the call is not wrapped.
DeferredSkips(node, objs) ==
  /\ Len(node.lhs) # Len(node.rhs)
  /\ \E j \in 1 .. Len(node.lhs) :
       node.lhs[j] \in objs /\ ~(j = Len(node.lhs) /\ Len(node.rhs) = 1)

\* deferStmt: wrap what the deferred literal at i assigns to named errors.
DeferStmt(w, prog, i) ==
  LET objs == Top(w).objs
      inside == {a \in i + 1 .. Len(prog) :
                   prog[a].k = "assign" /\ i \in ToSet(OpenAt(prog, a))}
  IN  Log(WrapExprs(w, prog, UNION {DeferredWraps(prog[a], a, objs) : a \in inside}),
          {prog[a].line : a \in {a \in inside : DeferredSkips(prog[a], objs)}})

\* Variant: a block shares what the block around it wrapped.
BlockVisitor_Shared(v) == v

\* The visitor of a block: the same function, nothing wrapped yet.  The body of
\* a switch or select is one; its clauses are none.
BlockVisitor(v) == [v EXCEPT !.wrapped = {}]

\* Visit, and the return to the enclosing visitor at the end of a node.  The
\* body of a function is a block of its own, so it starts with nothing wrapped.
Visit(w, prog, i) ==
  LET node == prog[i] IN
  CASE node.k \in {"func", "lit"} -> Push(w, FuncType(Top(w), node.sig, node.line))
    [] node.k = "defer" -> Push(DeferStmt(w, prog, i), FuncType(Top(w), node.sig, node.line))
    [] node.k \in {"block", "switch"} -> Push(w, BlockVisitor(Top(w)))
    [] node.k = "case" -> w
    [] node.k = "end" -> [w EXCEPT !.stack = Front(@)]
    [] node.k = "assign" -> AssignStmt(w, node)
    [] node.k = "return" -> ReturnStmt(w, prog, i)

\* ast.Walk(&w, f): the walker after each number of nodes.
Walkers(prog, opts, optouts) ==
  LET W[i \in 0 .. Len(prog)] ==
        IF i = 0 THEN NewWalker(opts, optouts) ELSE Visit(W[i - 1], prog, i)
  IN  W

\* The walk, and then the optouts no node used.
Walk(prog, opts, optouts) ==
  LET w == Walkers(prog, opts, optouts)[Len(prog)]
  IN  [inserts |-> w.inserts, logs |-> w.logs, unused |-> optouts \ w.used]
----------------------------------------------------------------------------
(***************************************************************************)
(* rewriteFile: the program with the inserts made, all on their own lines. *)
(***************************************************************************)
InsertsAt(inserts, i) == {ins \in BagToSet(inserts) : ins.at = i}

Wrapped(exprs, here) ==
  [j \in 1 .. Len(exprs) |->
     IF \E ins \in here : ins.k = "wrap" /\ ins.expr = j THEN "wrap" ELSE exprs[j]]

\* Variant: the block is not closed.
ReturnNBlock_Unclosed(node, n) ==
  <<[k |-> "block", line |-> node.line],
    [node EXCEPT !.results = [j \in 1 .. n |-> IF j = n THEN "wrap" ELSE "ident"]]>>

\* { r1, ..., rn := f(); return r1, ..., errtrace.Wrap(rn) }
ReturnNBlock(node, n) ==
  <<[k |-> "block", line |-> node.line],
    [k |-> "assign", line |-> node.line,
     lhs |-> [j \in 1 .. n |-> Other], rhs |-> node.results],
    [node EXCEPT !.results = [j \in 1 .. n |-> IF j = n THEN "wrap" ELSE "ident"]],
    [k |-> "end", line |-> node.line]>>

\* x, y = errtrace.Wrap(x), errtrace.Wrap(y); return.  (No name is blank.)
WrapAssign(node, names) ==
  <<[k |-> "assign", line |-> node.line, lhs |-> names,
     rhs |-> [j \in 1 .. Len(names) |-> "wrap"]],
    node>>

Rewritten(prog, inserts) ==
  LET NodeAfter(i) ==
        LET node == prog[i]
            here == InsertsAt(inserts, i)
        IN  IF \E ins \in here : ins.k = "block"
              THEN ReturnNBlock(node, (CHOOSE ins \in here : TRUE).n)
            ELSE IF \E ins \in here : ins.k = "assign"
              THEN WrapAssign(node, SetToSeq((CHOOSE ins \in here : TRUE).names))
            ELSE IF node.k = "return" THEN <<[node EXCEPT !.results = Wrapped(@, here)]>>
            ELSE IF node.k = "assign" THEN <<[node EXCEPT !.rhs = Wrapped(@, here)]>>
            ELSE <<node>>
  IN  FlattenSeq([i \in 1 .. Len(prog) |-> NodeAfter(i)])
============================================================================
