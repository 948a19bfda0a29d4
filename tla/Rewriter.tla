------------------------------ MODULE Rewriter ------------------------------
(***************************************************************************)
(* One file going through cmd/errtrace: somebody writes it, and the tool   *)
(* walks it and rewrites it.  What a second run on the output would do is  *)
(* Walk again, as in the idempotence test of main_test.go.                 *)
(***************************************************************************)
EXTENDS Rewrite, FiniteSets, TLC

CONSTANTS
  Beginnings,     \* how the function declared in the file may begin
  LitSignatures,  \* signatures of the function literals in it
  MaxNodes,       \* bound, for each of them: syntax nodes after it, without closing ones
  MaxOptouts      \* bound: lines opted out

ASSUME BoundsAssumption == MaxNodes \in [Beginnings -> Nat] /\ MaxOptouts \in Nat

\* Syntax nodes, and what is between func and the body of one.
Signatures == [results : Seq({"value", "error"}), named : BOOLEAN, unwrap : BOOLEAN]

SyntaxNodes ==
  [k : {"func", "lit", "defer"}, line : Nat, sig : Signatures]
    \union [k : {"block", "switch", "case", "end"}, line : Nat]
    \union [k : {"assign"}, line : Nat, lhs : Seq(Nat \X Nat), rhs : Seq(Exprs)]
    \union [k : {"return"}, line : Nat, results : Seq(Exprs)]

\* A file, or the beginning of one: a function declaration and what stands in
\* it, each node on a line of its own.
IsFile(p) ==
  /\ p \in Seq(SyntaxNodes)
  /\ \A i \in 1 .. Len(p) : p[i].line = i
  /\ p # << >> /\ p[1].k = "func"
  /\ \A i \in 2 .. Len(p) : OpenAt(p, i) # << >> /\ p[i].k # "func"

ASSUME FileAssumption == (\A b \in Beginnings : IsFile(b)) /\ LitSignatures \subseteq Signatures

VARIABLES
  phase,    \* "write" or "rewritten"
  prog,     \* the file as written
  opts,     \* rewriteOpts
  optouts,  \* lines with an //errtrace:skip comment
  walked,   \* what the walker did to prog
  output    \* what rewriteFile made of prog

vars == <<phase, prog, opts, optouts, walked, output>>

NoRun == [inserts |-> EmptyBag, logs |-> {}, unused |-> {}]
----------------------------------------------------------------------------
(***************************************************************************)
(* Functions, read off the program and not off the walker's stack.         *)
(***************************************************************************)
InnermostBlock(p, i) == Last(OpenAt(p, i))

\* The function that node i stands in: the innermost one that is open.
EnclosingFunc(p, i) == Max({j \in ToSet(OpenAt(p, i)) : IsFunc(p[j])})

\* Every return gives no expression, one for all results, or one for each.
ReturnsFit(p) ==
  \A i \in 2 .. Len(p) :
    p[i].k = "return" => Len(p[i].results) \in {0, 1, Len(p[EnclosingFunc(p, i)].sig.results)}

ASSUME ReturnsAssumption == \A b \in Beginnings : ReturnsFit(b)

\* Functions whose errors are to be wrapped; func (...) Unwrap() error is not.
Traced(sig) ==
  ErrorIndices(sig) # {} /\ ~(sig.unwrap /\ Cardinality(ErrorIndices(sig)) = 1)

NamedErrors(p, f) ==
  IF p[f].sig.named THEN {Obj(p[f].line, j) : j \in ErrorIndices(p[f].sig)} ELSE {}
----------------------------------------------------------------------------
\* A return of a function with this signature: naked, all results, or one
\* expression for all of them (a single value is what the walker complains of).
Returns(sig) ==
  (IF sig.named \/ sig.results = << >> THEN {<< >>} ELSE {})
    \union
  (IF Len(sig.results) \in 1 .. 2
   THEN {r \in [1 .. Len(sig.results) -> Exprs] :
           \A j \in 1 .. Len(sig.results) : r[j] = "ident" <=> j \notin ErrorIndices(sig)}
   ELSE {})
    \union
  (IF Len(sig.results) > 1 THEN {<<"call">>, <<"wrap">>, <<"ident">>} ELSE {})

\* Assignments to named errors in scope: err = e; x, err = e1, e; x, err = f();
\* err, x = f().  Shadowed names are other variables and not shown.
Assignments(p) ==
  LET names == UNION {NamedErrors(p, f) : f \in {j \in ToSet(OpenAt(p, Len(p) + 1)) : IsFunc(p[j])}}
  IN  [lhs : {<<o>> : o \in names}, rhs : {<<"call">>, <<"wrap">>}]
        \union
      [lhs : {<<Other, o>> : o \in names}, rhs : {<<"call">>, <<"wrap">>, <<"ident", "call">>}]
        \union
      [lhs : {<<o, Other>> : o \in names}, rhs : {<<"call">>}]

Init ==
  /\ phase = "write"
  /\ prog \in Beginnings
  /\ opts = [NoWrapN |-> FALSE]
  /\ optouts = {}
  /\ walked = NoRun
  /\ output = << >>

\* Have as many nodes been written after the beginning as may be?
Full ==
  \E b \in Beginnings :
    /\ IsPrefix(b, prog)
    /\ Quantify(Len(b) + 1 .. Len(prog), LAMBDA i : prog[i].k # "end") = MaxNodes[b]
    /\ \A c \in Beginnings : IsPrefix(c, prog) => Len(c) <= Len(b)

\* What may be written next: a switch has statements in its clauses only.
Statements(line) ==
  [k : {"lit", "defer"}, line : {line}, sig : LitSignatures]
    \union [k : {"block", "switch"}, line : {line}]
    \union {[k |-> "assign", line |-> line, lhs |-> a.lhs, rhs |-> a.rhs] : a \in Assignments(prog)}
    \union [k : {"return"}, line : {line},
            results : Returns(prog[EnclosingFunc(prog, line)].sig)]

Clauses(line) ==
  IF prog[InnermostBlock(prog, line)].k = "switch" THEN {[k |-> "case", line |-> line]} ELSE {}

\* The next node of the file, on a line of its own, opted out or not.
Write ==
  LET line == Len(prog) + 1 IN
  /\ phase = "write"
  /\ OpenAt(prog, line) # << >>
  /\ \E node \in
       {[k |-> "end", line |-> line]}
         \union (IF Full THEN {}
                 ELSE Clauses(line) \union IF Last(prog).k = "switch" THEN {} ELSE Statements(line)) :
       /\ prog' = Append(prog, node)
       /\ \/ UNCHANGED optouts
          \/ /\ node.k \in {"assign", "return"}
             /\ Cardinality(optouts) < MaxOptouts
             /\ optouts' = optouts \union {line}
  /\ UNCHANGED <<phase, opts, walked, output>>

\* parseFile walks the file and rewriteFile writes it with the inserts made.
RunTool ==
  /\ phase = "write"
  /\ OpenAt(prog, Len(prog) + 1) = << >>
  /\ opts' \in [NoWrapN : BOOLEAN]
  /\ walked' = Walk(prog, opts', optouts)
  /\ output' = Rewritten(prog, walked'.inserts)
  /\ phase' = "rewritten"
  /\ UNCHANGED <<prog, optouts>>

Next == Write \/ RunTool

Spec == Init /\ [][Next]_vars
----------------------------------------------------------------------------
Nodes(p) == 1 .. Len(p)

\* Type invariant; the output is a program again: what is opened is closed, and
\* every node stays on its line.
TypeOK ==
  /\ phase \in {"write", "rewritten"}
  /\ optouts \subseteq Nodes(prog)
  /\ walked.unused \subseteq optouts
  /\ phase # "write" =>
       /\ OpenAt(output, Len(output) + 1) = << >>
       /\ \A i \in Nodes(output) : output[i].line \in Nodes(prog)

(***************************************************************************)
(* "Re-run on the output of the first run. This should be a no-op."        *)
(* (main_test.go): nothing that was inserted is wrapped again, in blocks,  *)
(* deferred literals and functions nested in each other.                   *)
(***************************************************************************)
Idempotent ==
  phase = "rewritten" => Walk(output, opts, optouts).inserts = EmptyBag

(***************************************************************************)
(* No expression is wrapped twice by one run and no return gets two        *)
(* assignments, although a deferred literal is walked once for the errors  *)
(* of the function around it and again as a function of its own.           *)
(***************************************************************************)
WrappedOnce ==
  /\ \A ins \in BagToSet(walked.inserts) : walked.inserts[ins] = 1
  /\ \A a, b \in BagToSet(walked.inserts) :
       a # b /\ a.at = b.at => a.k = "wrap" /\ b.k = "wrap" /\ a.expr # b.expr

(***************************************************************************)
(* Only errors of the right function are wrapped: a return expression at   *)
(* an error result of the innermost function, a call that ends in its only *)
(* error, or what a deferred literal assigns to a named error of the       *)
(* function that deferred it.                                              *)
(***************************************************************************)
ReturnsError(p, ins) ==
  LET sig == p[EnclosingFunc(p, ins.at)].sig IN
  /\ Traced(sig)
  /\ IF ins.k = "wrap" /\ ins.n = 1 THEN ins.expr \in ErrorIndices(sig)
     ELSE IF ins.k = "assign"
       THEN ins.names \subseteq NamedErrors(p, EnclosingFunc(p, ins.at))
     ELSE ErrorIndices(sig) = {ins.n} /\ ins.n = Len(sig.results)

AssignsDeferredError(p, ins) ==
  \E d \in ToSet(OpenAt(p, ins.at)) :
    /\ p[d].k = "defer"
    /\ p[ins.at].lhs[IF ins.n = 1 THEN ins.expr ELSE ins.n]
         \in NamedErrors(p, EnclosingFunc(p, d))

ErrorsOnly ==
  \A ins \in BagToSet(walked.inserts) :
    IF prog[ins.at].k = "return" THEN ReturnsError(prog, ins)
    ELSE AssignsDeferredError(prog, ins)

(***************************************************************************)
(* Naked returns, in the order of the text.  A return hands out a wrapped  *)
(* error when a block it stands in assigned it the error of an errtrace    *)
(* call and nothing from there to the return may put another error in its  *)
(* place: an assignment in any block, or a clause of the same switch that  *)
(* begins in between.  (What a deferred literal assigns when the function  *)
(* has returned is wrapped where it is assigned.)                          *)
(***************************************************************************)
SetsWrapped(node, o) ==
  /\ o \in ToSet(node.lhs)
  /\ \A x \in 1 .. Len(node.lhs) :
       node.lhs[x] = o => IF Len(node.rhs) = Len(node.lhs) THEN node.rhs[x] = "wrap"
                          ELSE x = Len(node.lhs) /\ node.rhs = <<"wrap">>

Replaces(p, k, block, o) ==
  \/ p[k].k = "assign" /\ o \in ToSet(p[k].lhs) /\ ~ SetsWrapped(p[k], o)
  \/ p[k].k = "case" /\ InnermostBlock(p, k) = block

\* Is the error that node j leaves in o, a wrapped one, there at node i?
Reaches(p, j, i, o) ==
  /\ SetsWrapped(p[j], o)
  /\ \A k \in j + 1 .. i - 1 : ~ Replaces(p, k, InnermostBlock(p, j), o)

HandsOutWrap(p, i, o) ==
  \E j \in 1 .. i - 1 :
    p[j].k = "assign" /\ InnermostBlock(p, j) \in ToSet(OpenAt(p, i)) /\ Reaches(p, j, i, o)

\* The walker's blind spot: the author assigned o an errtrace call in the block
\* of the return, and that is not, or no longer, what the return hands out.
Stale(p, i, o) ==
  \E j \in 1 .. i - 1 :
    /\ p[j].k = "assign" /\ InnermostBlock(p, j) = InnermostBlock(p, i)
    /\ \E x \in 1 .. Len(p[j].rhs) : x <= Len(p[j].lhs) /\ p[j].lhs[x] = o /\ p[j].rhs[x] = "wrap"
    /\ ~ Reaches(p, j, i, o)

(***************************************************************************)
(* No error leaves a traced function unnoticed, with the blind spot of     *)
(* main.go:903 as the one exception: after the run each return hands out   *)
(* errors that are wrapped (or nil), or its line is opted out, or the tool *)
(* said that it skipped it, or it is naked and an error it hands out was   *)
(* Stale in the file as written.  The rewrite itself makes none stale.     *)
(***************************************************************************)
Accounted(q, i, lines, excused) ==
  LET f == EnclosingFunc(q, i)
      sig == q[f].sig
      results == q[i].results
  IN  \/ ~Traced(sig)
      \/ q[i].line \in lines
      \/ results = << >> /\ \A o \in NamedErrors(q, f) : HandsOutWrap(q, i, o) \/ o \in excused
      \/ Len(results) = Len(sig.results)
           /\ \A j \in ErrorIndices(sig) : results[j] \in {"wrap", "nil"}
      \/ Len(sig.results) > 1 /\ results = <<"wrap">>

\* What the return at i hands out stale.
StaleErrors(p, i) == {o \in NamedErrors(p, EnclosingFunc(p, i)) : Stale(p, i, o)}

NothingMissed ==
  phase # "write" =>
    \A i \in Nodes(output) :
      output[i].k = "return" =>
        Accounted(output, i, optouts \union walked.logs, StaleErrors(prog, output[i].line))

(***************************************************************************)
(* "Ignore errors that have already been wrapped." (main.go): the same     *)
(* without the exception.                                                  *)
(***************************************************************************)
HandsOutWrapped ==
  phase # "write" =>
    \A i \in Nodes(output) :
      output[i].k = "return" => Accounted(output, i, optouts \union walked.logs, {})

(***************************************************************************)
(* //errtrace:skip takes exactly its line out of the rewrite, and an       *)
(* optout is only reported as unused when removing it changes nothing.     *)
(***************************************************************************)
OptoutExact ==
  phase # "write" =>
    LET plain == BagToSet(Walk(prog, opts, {}).inserts)
        Line(ins) == prog[ins.at].line
    IN  /\ BagToSet(walked.inserts) = {ins \in plain : Line(ins) \notin optouts}
        /\ \A ins \in plain : Line(ins) \notin walked.unused

(***************************************************************************)
(* errtrace has Wrap and Wrap2 to Wrap6: no return is rewritten to a WrapN *)
(* that does not exist, and NoWrapN rewrites returns without any.          *)
(***************************************************************************)
WrapNExists ==
  \A ins \in BagToSet(walked.inserts) :
    ins.k = "wrap" /\ prog[ins.at].k = "return"
      => ins.n <= 6 /\ (opts.NoWrapN => ins.n = 1)

(***************************************************************************)
(* "wrap multiple return values without using errtrace.WrapN" (-no-wrapn)  *)
(* and "WrapN is not compatible with unsafe rewrites" (toolexec.go): with  *)
(* NoWrapN nothing at all is wrapped by a WrapN function.                  *)
(***************************************************************************)
NoWrapNObeyed ==
  opts.NoWrapN =>
    \A ins \in BagToSet(walked.inserts) : ins.k = "wrap" => ins.n = 1
============================================================================
