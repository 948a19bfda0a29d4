-------------------------- MODULE RewriterProofs ---------------------------
(***************************************************************************)
(* What the walker of cmd/errtrace inserts, for every file with functions, *)
(* literals and deferred literals nested to any depth, of any signatures.  *)
(***************************************************************************)
EXTENDS Rewriter, SequenceTheorems, FiniteSetTheorems, WellFoundedInduction, TLAPS

\* A set of numbers that is not empty has a least element.
LEMMA LeastNumber ==
  ASSUME NEW S, S \subseteq Nat, S # {}
  PROVE  \E x \in S : \A y \in S : x <= y
<1>1. PICK x \in S : \A y \in S : ~ (<<y, x>> \in OpToRel(<, Nat))
  BY NatLessThanWellFounded, WFMin
<1>2. \A y \in S : <<y, x>> \in OpToRel(<, Nat) <=> y < x
  BY DEF OpToRel
<1>3. \A y \in S : ~ (y < x)
  BY <1>1, <1>2, Zenon
<1> QED BY <1>3

\* Induction up to n, for a set of the numbers for which something holds.
LEMMA UpTo ==
  \A n \in Nat : \A S :
    /\ 0 \in S
    /\ \A i \in 1 .. n : i - 1 \in S => i \in S
    => 0 .. n \subseteq S
<1> SUFFICES ASSUME NEW n \in Nat, NEW S, 0 \in S, \A i \in 1 .. n : i - 1 \in S => i \in S,
                    NEW m \in 0 .. n, m \notin S
             PROVE  FALSE
  OBVIOUS
<1> DEFINE Bad == {i \in 0 .. n : i \notin S}
<1>1. Bad # {} /\ Bad \subseteq Nat
  OBVIOUS
<1> HIDE DEF Bad
<1>2. PICK i \in Bad : \A y \in Bad : i <= y
  BY <1>1, LeastNumber
<1>3. i \in 0 .. n /\ i \notin S
  BY <1>2 DEF Bad
<1>4. i \in 1 .. n /\ i - 1 \in 0 .. n /\ ~ (i <= i - 1)
  BY <1>3
<1>5. i - 1 \in S
  BY <1>2, <1>4 DEF Bad
<1> QED BY <1>3, <1>4, <1>5

\* A set of numbers up to n that is not empty has a greatest element.
LEMMA GreatestNumber ==
  ASSUME NEW n \in Nat, NEW S, S \subseteq 0 .. n, S # {}
  PROVE  Max(S) \in S /\ \A y \in S : y <= Max(S)
<1> DEFINE T == {n - x : x \in S}
<1>1. T \subseteq Nat /\ T # {}
  OBVIOUS
<1>2. PICK t \in T : \A y \in T : t <= y
  <2> HIDE DEF T
  <2> QED BY <1>1, LeastNumber
<1>3. PICK x \in S : t = n - x
  BY <1>2
<1>4. \A y \in S : y <= x
  <2> TAKE y \in S
  <2>1. n - y \in T
    OBVIOUS
  <2>2. n - x <= n - y
    BY <1>2, <1>3, <2>1
  <2>3. x \in Nat /\ y \in Nat
    OBVIOUS
  <2> QED BY <2>2, <2>3
<1>5. \E z \in S : \A y \in S : z >= y
  BY <1>4
<1>6. Max(S) \in S /\ \A y \in S : Max(S) >= y
  BY <1>5 DEF Max
<1> QED BY <1>6
----------------------------------------------------------------------------
(***************************************************************************)
(* The nodes that are open.                                                *)
(***************************************************************************)
LEMMA OpenedUnfold ==
  ASSUME NEW p, Len(p) \in Nat
  PROVE  /\ Opened(p)[0] = << >>
         /\ \A i \in 1 .. Len(p) :
              Opened(p)[i] = IF Opens(p[i]) THEN Append(Opened(p)[i - 1], i)
                             ELSE IF p[i].k = "end" THEN Front(Opened(p)[i - 1])
                             ELSE Opened(p)[i - 1]
<1> DEFINE Body(g, i) == IF i = 0 THEN << >>
                         ELSE IF Opens(p[i]) THEN Append(g[i - 1], i)
                         ELSE IF p[i].k = "end" THEN Front(g[i - 1])
                         ELSE g[i - 1]
           Good(n) == \E g : \A i \in 0 .. n : g[i] = Body(g, i)
           S == {n \in 0 .. Len(p) : Good(n)}
<1>1. \A g, h : \A i \in 0 .. Len(p) : (i # 0 => g[i - 1] = h[i - 1]) => Body(g, i) = Body(h, i)
  OBVIOUS
<1> HIDE DEF Body
<1>2. 0 \in S
  <2>1. PICK g : g = [i \in {0} |-> Body(<< >>, 0)]
    OBVIOUS
  <2>2. g[0] = Body(<< >>, 0)
    BY <2>1
  <2>3. g[0] = Body(g, 0)
    BY <1>1, <2>2
  <2>4. Good(0)
    BY <2>3
  <2> QED BY <2>4
<1>3. ASSUME NEW n \in 1 .. Len(p), n - 1 \in S
      PROVE  n \in S
  <2>1. PICK h : \A i \in 0 .. n - 1 : h[i] = Body(h, i)
    BY <1>3
  <2>2. PICK g : g = [i \in 0 .. n |-> IF i = n THEN Body(h, n) ELSE h[i]]
    OBVIOUS
  <2>3. ASSUME NEW i \in 0 .. n PROVE g[i] = Body(g, i)
    <3>1. i # 0 => i - 1 \in 0 .. n /\ i - 1 # n
      OBVIOUS
    <3>2. i # 0 => g[i - 1] = h[i - 1]
      BY <2>2, <3>1
    <3>3. Body(g, i) = Body(h, i)
      BY <1>1, <3>2
    <3>4. i # n => i \in 0 .. n - 1
      OBVIOUS
    <3> QED BY <2>1, <2>2, <3>3, <3>4
  <2>4. Good(n)
    BY <2>3
  <2> QED BY <2>4
<1>4. PICK g : \A i \in 0 .. Len(p) : g[i] = Body(g, i)
  <2> HIDE DEF S
  <2>1. 0 .. Len(p) \subseteq S
    BY <1>2, <1>3, UpTo
  <2>2. Len(p) \in S
    BY <2>1
  <2> QED BY <2>2 DEF S
<1> DEFINE f == [i \in 0 .. Len(p) |-> g[i]]
<1>5. f = [i \in 0 .. Len(p) |-> Body(f, i)]
  <2>1. ASSUME NEW i \in 0 .. Len(p) PROVE g[i] = Body(f, i)
    <3>1. i # 0 => f[i - 1] = g[i - 1]
      OBVIOUS
    <3> HIDE DEF f
    <3> QED BY <1>1, <1>4, <3>1
  <2> QED BY <2>1
<1> HIDE DEF f
<1>6. Opened(p) = [i \in 0 .. Len(p) |-> Body(Opened(p), i)]
  BY <1>5 DEF Opened, Body
<1>7. \A i \in 0 .. Len(p) : Opened(p)[i] = Body(Opened(p), i)
  BY <1>6
<1>8. Opened(p)[0] = Body(Opened(p), 0)
  BY <1>7
<1>9. \A i \in 1 .. Len(p) : i \in 0 .. Len(p) /\ i # 0
  OBVIOUS
<1> QED BY <1>7, <1>8, <1>9 DEF Body
----------------------------------------------------------------------------
(***************************************************************************)
(* One step of the walk.  All of it follows from the visitor on top: how   *)
(* the stack changes, and what would be inserted if no line was opted out. *)
(***************************************************************************)
IsWalker(w) ==
  /\ w = [stack |-> w.stack, inserts |-> w.inserts, logs |-> w.logs, used |-> w.used,
          opts |-> w.opts, optouts |-> w.optouts]
  /\ IsABag(w.inserts)

ExprAt(p, ins) ==
  IF p[ins.at].k = "return" THEN p[ins.at].results[ins.expr] ELSE p[ins.at].rhs[ins.expr]

\* The assignments in the deferred literal at d.
Inside(p, d) == {a \in d + 1 .. Len(p) : p[a].k = "assign" /\ d \in ToSet(OpenAt(p, a))}

DeferCandidates(v, p, i) == UNION {DeferredWraps(p[a], a, v.objs) : a \in Inside(p, i)}

CallCandidates(v, p, i, o) ==
  IF v.indices # {v.n} \/ p[i].results[1] = "wrap" THEN {}
  ELSE IF o.NoWrapN THEN {[k |-> "block", at |-> i, n |-> v.n]}
  ELSE IF v.n > 6 THEN {}
  ELSE {WrapInsert(i, 1, v.n)}

NakedCandidates(v, i) ==
  IF v.objs \ v.wrapped = {} THEN {}
  ELSE {[k |-> "assign", at |-> i, names |-> v.objs \ v.wrapped]}

ReturnCandidates(v, p, i, o) ==
  IF v.indices = {} THEN {}
  ELSE IF p[i].results = << >> THEN NakedCandidates(v, i)
  ELSE IF Len(p[i].results) = 1 /\ v.n > 1
    THEN IF IsCall(p[i].results[1]) THEN CallCandidates(v, p, i, o) ELSE {}
  ELSE {WrapInsert(i, j, 1) : j \in v.indices}

Needed(p, S) == {ins \in S : ins.k = "wrap" => ExprAt(p, ins) \notin {"wrap", "nil"}}

Candidates(v, p, i, o) ==
  IF p[i].k = "defer" THEN Needed(p, DeferCandidates(v, p, i))
  ELSE IF p[i].k = "return" THEN Needed(p, ReturnCandidates(v, p, i, o))
  ELSE {}

LineOf(p, ins) == p[ins.at].line
In(p, S, lines) == {ins \in S : LineOf(p, ins) \in lines}
NotIn(p, S, lines) == {ins \in S : LineOf(p, ins) \notin lines}

StackAfter(s, p, i) ==
  IF IsFunc(p[i]) THEN Append(s, FuncType(Last(s), p[i].sig, p[i].line))
  ELSE IF p[i].k \in {"block", "switch"} THEN Append(s, BlockVisitor(Last(s)))
  ELSE IF p[i].k = "end" THEN Front(s)
  ELSE IF p[i].k = "assign" THEN AssignStmt([stack |-> s], p[i]).stack
  ELSE s

\* x is w after a step with these candidates, its stack left alone.
StepTo(w, x, p, S) ==
  /\ IsWalker(x)
  /\ x.stack = w.stack /\ x.opts = w.opts /\ x.optouts = w.optouts
  /\ x.inserts = w.inserts (+) SetToBag(NotIn(p, S, w.optouts))
  /\ w.used \subseteq x.used
  /\ \A ins \in In(p, S, w.optouts) : LineOf(p, ins) \in x.used

LEMMA InsertsAdded ==
  ASSUME NEW b, IsABag(b), NEW S
  PROVE  /\ IsABag(b (+) SetToBag(S))
         /\ BagToSet(b (+) SetToBag(S)) = BagToSet(b) \union S
         /\ S = {} => b (+) SetToBag(S) = b
         /\ \A x \in BagToSet(b) \union S :
              (b (+) SetToBag(S))[x] = (IF x \in BagToSet(b) THEN b[x] ELSE 0)
                                      + (IF x \in S THEN 1 ELSE 0)
<1> DEFINE B == b (+) SetToBag(S)
<1>1. DOMAIN SetToBag(S) = S /\ \A x \in S : SetToBag(S)[x] = 1
  BY DEF SetToBag
<1>2. B = [x \in (DOMAIN b) \union S |->
            (IF x \in DOMAIN b THEN b[x] ELSE 0) + (IF x \in S THEN SetToBag(S)[x] ELSE 0)]
  BY <1>1 DEF (+)
<1>3. \A x \in DOMAIN b : b[x] \in Nat /\ b[x] > 0
  BY DEF IsABag
<1>4. \A x \in (DOMAIN b) \union S :
        B[x] = (IF x \in DOMAIN b THEN b[x] ELSE 0) + (IF x \in S THEN 1 ELSE 0)
  <2> HIDE DEF B
  <2> QED BY <1>1, <1>2
<1>5. DOMAIN B = (DOMAIN b) \union S
  <2> HIDE DEF B
  <2> QED BY <1>2
<1>6. \A x \in DOMAIN B : B[x] \in {n \in Nat : n > 0}
  <2> HIDE DEF B
  <2> QED BY <1>3, <1>4, <1>5
<1>7. B \in [DOMAIN B -> {n \in Nat : n > 0}]
  <2>1. B = [x \in DOMAIN B |-> B[x]]
    <3> HIDE DEF B
    <3> QED BY <1>2
  <2> HIDE DEF B
  <2> QED BY <1>6, <2>1
<1>8. S = {} => B = b
  <2> SUFFICES ASSUME S = {} PROVE B = b
    OBVIOUS
  <2>1. DOMAIN B = DOMAIN b
    BY <1>5
  <2>2. \A x \in DOMAIN b : B[x] = b[x]
    BY <1>3, <1>4
  <2>3. b = [x \in DOMAIN b |-> b[x]]
    BY DEF IsABag
  <2>4. B = [x \in DOMAIN B |-> B[x]]
    <3> HIDE DEF B
    <3> QED BY <1>2
  <2> HIDE DEF B
  <2> QED BY <2>1, <2>2, <2>3, <2>4
<1> QED BY <1>4, <1>5, <1>7, <1>8 DEF IsABag, BagToSet

LEMMA StayStep ==
  ASSUME NEW w, IsWalker(w), NEW p
  PROVE  StepTo(w, w, p, {})
<1>1. NotIn(p, {}, w.optouts) = {} /\ In(p, {}, w.optouts) = {}
  BY DEF NotIn, In
<1>2. w.inserts = w.inserts (+) SetToBag(NotIn(p, {}, w.optouts))
  BY <1>1, InsertsAdded DEF IsWalker
<1> QED BY <1>1, <1>2 DEF StepTo

LEMMA LogFields ==
  ASSUME NEW w, IsWalker(w), NEW lines
  PROVE  /\ IsWalker(Log(w, lines))
         /\ Log(w, lines).stack = w.stack /\ Log(w, lines).inserts = w.inserts
         /\ Log(w, lines).used = w.used
         /\ Log(w, lines).opts = w.opts /\ Log(w, lines).optouts = w.optouts
<1>1. Log(w, lines) = [stack |-> w.stack, inserts |-> w.inserts, logs |-> w.logs \union lines,
                       used |-> w.used, opts |-> w.opts, optouts |-> w.optouts]
  BY DEF Log, IsWalker
<1> QED BY <1>1 DEF IsWalker

LEMMA LogStep ==
  ASSUME NEW w, NEW x, NEW p, NEW S, StepTo(w, x, p, S), NEW lines
  PROVE  StepTo(w, Log(x, lines), p, S)
<1>1. IsWalker(x)
  BY DEF StepTo
<1> QED BY <1>1, LogFields DEF StepTo

\* The optouts of some candidates are used, and the others inserted.
LEMMA InsertStep ==
  ASSUME NEW w, IsWalker(w), NEW p, NEW S, NEW lines,
         \A ins \in In(p, S, w.optouts) : LineOf(p, ins) \in lines
  PROVE  StepTo(w, UseOptout(Insert(w, NotIn(p, S, w.optouts)), lines), p, S)
<1> DEFINE T == NotIn(p, S, w.optouts)
           x == UseOptout(Insert(w, T), lines)
<1>1. x = [stack |-> w.stack, inserts |-> w.inserts (+) SetToBag(T), logs |-> w.logs,
           used |-> w.used \union lines, opts |-> w.opts, optouts |-> w.optouts]
  <2> HIDE DEF T
  <2>1. Insert(w, T) = [stack |-> w.stack, inserts |-> w.inserts (+) SetToBag(T), logs |-> w.logs,
                        used |-> w.used, opts |-> w.opts, optouts |-> w.optouts]
    BY DEF Insert, IsWalker
  <2> HIDE DEF x
  <2>2. x = [Insert(w, T) EXCEPT !.used = @ \union lines]
    BY DEF UseOptout, x
  <2> QED BY <2>1, <2>2
<1>2. IsABag(w.inserts (+) SetToBag(T))
  BY InsertsAdded DEF IsWalker
<1> HIDE DEF x, T
<1>3. IsWalker(x)
  BY <1>1, <1>2 DEF IsWalker
<1>4. x.stack = w.stack /\ x.opts = w.opts /\ x.optouts = w.optouts /\ x.used = w.used \union lines
      /\ x.inserts = w.inserts (+) SetToBag(T)
  BY <1>1
<1> QED BY <1>3, <1>4 DEF StepTo, x, T

LEMMA WrapExprsStep ==
  ASSUME NEW w, IsWalker(w), NEW p, NEW S, \A ins \in S : ins.k = "wrap"
  PROVE  StepTo(w, WrapExprs(w, p, S), p, Needed(p, S))
<1> DEFINE errors == {ins \in S : ExprAt(p, ins) \notin {"wrap", "nil"}}
           out == {ins \in errors : OptedOut(w, p[ins.at].line)}
           lines == {p[ins.at].line : ins \in out}
<1>1. WrapExprs(w, p, S) = UseOptout(Insert(w, errors \ out), lines)
  BY DEF WrapExprs, ExprAt
<1>2. errors = Needed(p, S)
  BY DEF Needed
<1>3. errors \ out = NotIn(p, errors, w.optouts)
  BY DEF NotIn, OptedOut, LineOf
<1>4. \A ins \in In(p, errors, w.optouts) : LineOf(p, ins) \in lines
  BY DEF In, LineOf, OptedOut
<1> HIDE DEF errors, out, lines
<1>5. StepTo(w, UseOptout(Insert(w, NotIn(p, errors, w.optouts)), lines), p, errors)
  BY <1>4, InsertStep
<1> QED BY <1>1, <1>2, <1>3, <1>5

\* One insert at a node: made, or its line is opted out.
LEMMA OneInsert ==
  ASSUME NEW w, IsWalker(w), NEW p, NEW ins
  PROVE  /\ LineOf(p, ins) \notin w.optouts => StepTo(w, Insert(w, {ins}), p, {ins})
         /\ LineOf(p, ins) \in w.optouts => StepTo(w, UseOptout(w, {LineOf(p, ins)}), p, {ins})
<1> DEFINE T == NotIn(p, {ins}, w.optouts)
           x == Insert(w, T)
           y == UseOptout(w, {LineOf(p, ins)})
<1>1. CASE LineOf(p, ins) \notin w.optouts
  <2>1. T = {ins} /\ In(p, {ins}, w.optouts) = {}
    BY <1>1 DEF NotIn, In
  <2>2. x = [stack |-> w.stack, inserts |-> w.inserts (+) SetToBag(T), logs |-> w.logs,
             used |-> w.used, opts |-> w.opts, optouts |-> w.optouts]
    <3> HIDE DEF T
    <3> QED BY DEF Insert, IsWalker
  <2>3. IsABag(w.inserts (+) SetToBag(T))
    BY InsertsAdded DEF IsWalker
  <2>4. StepTo(w, x, p, {ins})
    <3> HIDE DEF x
    <3>1. In(p, {ins}, w.optouts) = {}
      BY <2>1
    <3> HIDE DEF T
    <3>2. IsWalker(x) /\ x.stack = w.stack /\ x.opts = w.opts /\ x.optouts = w.optouts
          /\ x.used = w.used /\ x.inserts = w.inserts (+) SetToBag(T)
      BY <2>2, <2>3 DEF IsWalker
    <3> QED BY <3>1, <3>2 DEF StepTo, T
  <2> QED BY <1>1, <2>1, <2>4
<1>2. CASE LineOf(p, ins) \in w.optouts
  <2>1. T = {}
    BY <1>2 DEF NotIn
  <2>2. y = [stack |-> w.stack, inserts |-> w.inserts, logs |-> w.logs,
             used |-> w.used \union {LineOf(p, ins)}, opts |-> w.opts, optouts |-> w.optouts]
    BY DEF UseOptout, IsWalker
  <2>3. w.inserts (+) SetToBag(T) = w.inserts
    BY <2>1, InsertsAdded DEF IsWalker
  <2>4. \A z \in In(p, {ins}, w.optouts) : LineOf(p, z) = LineOf(p, ins)
    BY DEF In
  <2>5. StepTo(w, y, p, {ins})
    <3> HIDE DEF y, T
    <3>1. IsWalker(y) /\ y.stack = w.stack /\ y.opts = w.opts /\ y.optouts = w.optouts
          /\ y.used = w.used \union {LineOf(p, ins)} /\ y.inserts = w.inserts
      BY <2>2 DEF IsWalker
    <3> QED BY <2>3, <2>4, <3>1 DEF StepTo, T
  <2> QED BY <1>2, <2>5
<1> QED BY <1>1, <1>2

LEMMA OptoutNone ==
  ASSUME NEW w, IsWalker(w), NEW p, NEW lines
  PROVE  StepTo(w, UseOptout(w, lines), p, {})
<1> DEFINE y == UseOptout(w, lines)
<1>1. y = [stack |-> w.stack, inserts |-> w.inserts, logs |-> w.logs,
           used |-> w.used \union lines, opts |-> w.opts, optouts |-> w.optouts]
  BY DEF UseOptout, IsWalker
<1>2. NotIn(p, {}, w.optouts) = {} /\ In(p, {}, w.optouts) = {}
  BY DEF NotIn, In
<1>3. w.inserts = w.inserts (+) SetToBag(NotIn(p, {}, w.optouts))
  BY <1>2, InsertsAdded DEF IsWalker
<1> HIDE DEF y
<1>4. IsWalker(y) /\ y.stack = w.stack /\ y.opts = w.opts /\ y.optouts = w.optouts
      /\ y.used = w.used \union lines /\ y.inserts = w.inserts
  BY <1>1 DEF IsWalker
<1> QED BY <1>2, <1>3, <1>4 DEF StepTo, y

LEMMA WrapReturnCallStep ==
  ASSUME NEW w, IsWalker(w), NEW p, NEW i, p[i].k = "return"
  PROVE  StepTo(w, WrapReturnCall(w, p, i), p,
                Needed(p, CallCandidates(Top(w), p, i, w.opts)))
<1> DEFINE v == Top(w)
           C == CallCandidates(v, p, i, w.opts)
           x == WrapReturnCall(w, p, i)
<1>1. CASE v.indices # {v.n} \/ p[i].results[1] = "wrap"
  <2>1. Needed(p, C) = {}
    BY <1>1 DEF CallCandidates, Needed
  <2>2. x = w \/ x = Log(w, {p[i].line})
    BY <1>1 DEF WrapReturnCall
  <2> HIDE DEF x, C
  <2> QED BY <2>1, <2>2, StayStep, LogStep DEF x, C
<1>2. CASE v.indices = {v.n} /\ p[i].results[1] # "wrap"
  <2>1. CASE w.opts.NoWrapN
    <3> DEFINE ins == [k |-> "block", at |-> i, n |-> v.n]
    <3>1. C = {ins} /\ Needed(p, C) = {ins}
      BY <1>2, <2>1 DEF CallCandidates, Needed
    <3>2. LineOf(p, ins) = p[i].line
      BY DEF LineOf
    <3>3. x = IF p[i].line \in w.optouts THEN UseOptout(w, {p[i].line}) ELSE Insert(w, {ins})
      BY <1>2, <2>1 DEF WrapReturnCall, OptedOut
    <3> HIDE DEF x, C, ins
    <3> QED BY <3>1, <3>2, <3>3, OneInsert DEF x, C
  <2>2. CASE ~ w.opts.NoWrapN /\ v.n > 6
    <3>1. Needed(p, C) = {}
      BY <1>2, <2>2 DEF CallCandidates, Needed
    <3>2. x = UseOptout(w, {p[i].line}) \/ x = Log(w, {p[i].line})
      BY <1>2, <2>2 DEF WrapReturnCall
    <3> HIDE DEF x, C
    <3> QED BY <3>1, <3>2, OptoutNone, StayStep, LogStep DEF x, C
  <2>3. CASE ~ w.opts.NoWrapN /\ ~ (v.n > 6)
    <3> DEFINE ins == WrapInsert(i, 1, v.n)
    <3>1. C = {ins}
      BY <1>2, <2>3 DEF CallCandidates
    <3>2. ins.k = "wrap" /\ ins.at = i /\ ins.expr = 1
      BY DEF WrapInsert
    <3>3. CASE p[i].line \in w.optouts
      <4>1. x = UseOptout(w, {p[i].line})
        BY <1>2, <3>3 DEF WrapReturnCall, OptedOut
      <4>2. LineOf(p, ins) = p[i].line
        BY <3>2 DEF LineOf
      <4> HIDE DEF x, C, ins
      <4>3. Needed(p, C) = {} \/ Needed(p, C) = {ins}
        BY <3>1 DEF Needed
      <4> QED BY <3>3, <4>1, <4>2, <4>3, OneInsert, OptoutNone DEF x, C
    <3>4. CASE p[i].line \notin w.optouts
      <4>1. x = WrapExprs(w, p, {ins})
        BY <1>2, <2>3, <3>4 DEF WrapReturnCall, OptedOut
      <4> HIDE DEF x, C, ins
      <4> QED BY <3>1, <3>2, <4>1, WrapExprsStep DEF x, C
    <3> QED BY <3>3, <3>4
  <2> QED BY <2>1, <2>2, <2>3
<1> QED BY <1>1, <1>2

LEMMA NakedReturnStep ==
  ASSUME NEW w, IsWalker(w), NEW p, NEW i
  PROVE  StepTo(w, NakedReturn(w, p, i), p, Needed(p, NakedCandidates(Top(w), i)))
<1> DEFINE v == Top(w)
           names == v.objs \ v.wrapped
           ins == [k |-> "assign", at |-> i, names |-> names]
           x == NakedReturn(w, p, i)
           C == NakedCandidates(v, i)
<1>1. Needed(p, C) = IF names = {} THEN {} ELSE {ins}
  BY DEF NakedCandidates, Needed
<1>2. LineOf(p, ins) = p[i].line
  BY DEF LineOf
<1>3. x = IF p[i].line \in w.optouts THEN UseOptout(w, {p[i].line})
          ELSE IF names = {} THEN w ELSE Insert(w, {ins})
  BY DEF NakedReturn, OptedOut
<1> HIDE DEF x, C, ins, names
<1>4. CASE names = {}
  BY <1>1, <1>3, <1>4, OptoutNone, StayStep DEF x, C
<1>5. CASE names # {}
  BY <1>1, <1>2, <1>3, <1>5, OneInsert DEF x, C
<1> QED BY <1>4, <1>5

LEMMA ReturnStep ==
  ASSUME NEW w, IsWalker(w), NEW p, NEW i, p[i].k = "return"
  PROVE  StepTo(w, ReturnStmt(w, p, i), p, Candidates(Top(w), p, i, w.opts))
<1> DEFINE v == Top(w)
           x == ReturnStmt(w, p, i)
           R == ReturnCandidates(v, p, i, w.opts)
<1>0. Candidates(v, p, i, w.opts) = Needed(p, R) /\ Needed(p, {}) = {}
  BY DEF Candidates, Needed
<1>1. CASE v.indices = {}
  <2>1. R = {} /\ x = w
    BY <1>1 DEF ReturnCandidates, ReturnStmt
  <2> HIDE DEF R, x
  <2> QED BY <1>0, <2>1, StayStep DEF x
<1>2. CASE v.indices # {} /\ p[i].results = << >>
  <2>1. R = NakedCandidates(v, i) /\ x = NakedReturn(w, p, i)
    BY <1>2 DEF ReturnCandidates, ReturnStmt
  <2> HIDE DEF R, x
  <2> QED BY <1>0, <2>1, NakedReturnStep DEF x
<1>3. CASE v.indices # {} /\ p[i].results # << >> /\ Len(p[i].results) = 1 /\ v.n > 1
  <2>1. CASE IsCall(p[i].results[1])
    <3>1. R = CallCandidates(v, p, i, w.opts) /\ x = WrapReturnCall(w, p, i)
      BY <1>3, <2>1 DEF ReturnCandidates, ReturnStmt
    <3> HIDE DEF R, x
    <3> QED BY <1>0, <3>1, WrapReturnCallStep DEF x
  <2>2. CASE ~ IsCall(p[i].results[1])
    <3>1. R = {} /\ x = Log(w, {p[i].line})
      BY <1>3, <2>2 DEF ReturnCandidates, ReturnStmt
    <3> HIDE DEF R, x
    <3> QED BY <1>0, <3>1, StayStep, LogStep DEF x
  <2> QED BY <2>1, <2>2
<1>4. CASE v.indices # {} /\ p[i].results # << >> /\ ~ (Len(p[i].results) = 1 /\ v.n > 1)
  <2> DEFINE S == {WrapInsert(i, j, 1) : j \in v.indices}
  <2>1. R = S /\ x = WrapExprs(w, p, S)
    BY <1>4 DEF ReturnCandidates, ReturnStmt
  <2>2. \A ins \in S : ins.k = "wrap"
    BY DEF WrapInsert
  <2> HIDE DEF R, x, S
  <2> QED BY <1>0, <2>1, <2>2, WrapExprsStep DEF x
<1> QED BY <1>1, <1>2, <1>3, <1>4

LEMMA DeferStep ==
  ASSUME NEW w, IsWalker(w), NEW p, NEW i, p[i].k = "defer"
  PROVE  StepTo(w, DeferStmt(w, p, i), p, Candidates(Top(w), p, i, w.opts))
<1> DEFINE v == Top(w)
           S == DeferCandidates(v, p, i)
           lines == {p[a].line : a \in {a \in Inside(p, i) : DeferredSkips(p[a], v.objs)}}
<1>1. DeferStmt(w, p, i) = Log(WrapExprs(w, p, S), lines)
  BY DEF DeferStmt, DeferCandidates, Inside
<1>2. \A ins \in S : ins.k = "wrap"
  BY DEF DeferCandidates, DeferredWraps, WrapInsert
<1>3. Candidates(v, p, i, w.opts) = Needed(p, S)
  BY DEF Candidates
<1> HIDE DEF S, lines
<1>4. StepTo(w, WrapExprs(w, p, S), p, Needed(p, S))
  BY <1>2, WrapExprsStep
<1> QED BY <1>1, <1>3, <1>4, LogStep

LEMMA StackSet ==
  ASSUME NEW w, IsWalker(w), NEW s
  PROVE  LET x == [w EXCEPT !.stack = s] IN
         /\ IsWalker(x)
         /\ x.stack = s /\ x.inserts = w.inserts /\ x.used = w.used
         /\ x.opts = w.opts /\ x.optouts = w.optouts
<1> DEFINE x == [w EXCEPT !.stack = s]
<1>1. x = [stack |-> s, inserts |-> w.inserts, logs |-> w.logs, used |-> w.used,
           opts |-> w.opts, optouts |-> w.optouts]
  BY DEF IsWalker
<1> HIDE DEF x
<1>2. /\ IsWalker(x)
      /\ x.stack = s /\ x.inserts = w.inserts /\ x.used = w.used
      /\ x.opts = w.opts /\ x.optouts = w.optouts
  BY <1>1 DEF IsWalker
<1> QED BY <1>2 DEF x

LEMMA NodeKinds ==
  ASSUME NEW node \in SyntaxNodes
  PROVE  node.k \in {"func", "lit", "defer", "block", "switch", "case", "end", "assign", "return"}
BY DEF SyntaxNodes

LEMMA VisitEffect ==
  ASSUME NEW w, IsWalker(w), NEW p, NEW i, p[i] \in SyntaxNodes
  PROVE  LET x == Visit(w, p, i)
             C == Candidates(Top(w), p, i, w.opts)
         IN  /\ IsWalker(x)
             /\ x.stack = StackAfter(w.stack, p, i)
             /\ x.opts = w.opts /\ x.optouts = w.optouts
             /\ x.inserts = w.inserts (+) SetToBag(NotIn(p, C, w.optouts))
             /\ w.used \subseteq x.used
             /\ \A ins \in In(p, C, w.optouts) : LineOf(p, ins) \in x.used
<1> DEFINE C == Candidates(Top(w), p, i, w.opts)
           s == StackAfter(w.stack, p, i)
<1>1. SUFFICES \E y : StepTo(w, y, p, C) /\ Visit(w, p, i) = [y EXCEPT !.stack = s]
  <2>1. PICK y : StepTo(w, y, p, C) /\ Visit(w, p, i) = [y EXCEPT !.stack = s]
    BY <1>1
  <2> HIDE DEF C, s
  <2>2. IsWalker(y)
    BY <2>1 DEF StepTo
  <2> DEFINE x == [y EXCEPT !.stack = s]
  <2>3. /\ IsWalker(x)
        /\ x.stack = s /\ x.inserts = y.inserts /\ x.used = y.used
        /\ x.opts = y.opts /\ x.optouts = y.optouts
    BY <2>2, StackSet
  <2> HIDE DEF x
  <2>4. /\ IsWalker(x)
        /\ x.stack = s /\ x.opts = w.opts /\ x.optouts = w.optouts
        /\ x.inserts = w.inserts (+) SetToBag(NotIn(p, C, w.optouts))
        /\ w.used \subseteq x.used
        /\ \A ins \in In(p, C, w.optouts) : LineOf(p, ins) \in x.used
    BY <2>1, <2>3 DEF StepTo
  <2>5. Visit(w, p, i) = x
    BY <2>1 DEF x
  <2> QED BY <2>4, <2>5 DEF C, s
<1>2. p[i].k \notin {"defer", "return"} => C = {}
  BY DEF Candidates
<1>3. StepTo(w, w, p, {})
  BY StayStep
<1>4. CASE p[i].k \in {"func", "lit"}
  <2>1. Visit(w, p, i) = Push(w, FuncType(Top(w), p[i].sig, p[i].line))
    BY <1>4 DEF Visit
  <2>2. s = Append(w.stack, FuncType(Top(w), p[i].sig, p[i].line))
    BY <1>4 DEF StackAfter, IsFunc, Top
  <2>3. Visit(w, p, i) = [w EXCEPT !.stack = s]
    BY <2>1, <2>2 DEF Push
  <2> QED BY <1>2, <1>3, <1>4, <2>3
<1>5. CASE p[i].k = "defer"
  <2> DEFINE y == DeferStmt(w, p, i)
  <2>1. Visit(w, p, i) = Push(y, FuncType(Top(w), p[i].sig, p[i].line))
    BY <1>5 DEF Visit
  <2>2. s = Append(w.stack, FuncType(Top(w), p[i].sig, p[i].line))
    BY <1>5 DEF StackAfter, IsFunc, Top
  <2>3. StepTo(w, y, p, C)
    BY <1>5, DeferStep
  <2> HIDE DEF y, C
  <2>4. y.stack = w.stack
    BY <2>3 DEF StepTo
  <2>5. Visit(w, p, i) = [y EXCEPT !.stack = s]
    BY <2>1, <2>2, <2>4 DEF Push
  <2> QED BY <2>3, <2>5
<1>6. CASE p[i].k \in {"block", "switch"}
  <2>1. Visit(w, p, i) = Push(w, BlockVisitor(Top(w)))
    BY <1>6 DEF Visit
  <2>2. s = Append(w.stack, BlockVisitor(Top(w)))
    BY <1>6 DEF StackAfter, IsFunc, Top
  <2>3. Visit(w, p, i) = [w EXCEPT !.stack = s]
    BY <2>1, <2>2 DEF Push
  <2> QED BY <1>2, <1>3, <1>6, <2>3
<1>7. CASE p[i].k = "case"
  <2>1. Visit(w, p, i) = w /\ s = w.stack
    BY <1>7 DEF Visit, StackAfter, IsFunc
  <2> HIDE DEF s
  <2>2. [w EXCEPT !.stack = w.stack] = w
    BY DEF IsWalker
  <2>3. Visit(w, p, i) = [w EXCEPT !.stack = s]
    BY <2>1, <2>2
  <2> QED BY <1>2, <1>3, <1>7, <2>3
<1>8. CASE p[i].k = "end"
  <2>1. Visit(w, p, i) = [w EXCEPT !.stack = Front(@)] /\ s = Front(w.stack)
    BY <1>8 DEF Visit, StackAfter, IsFunc
  <2> HIDE DEF s
  <2>2. Visit(w, p, i) = [w EXCEPT !.stack = s]
    BY <2>1
  <2> QED BY <1>2, <1>3, <1>8, <2>2
<1>9. CASE p[i].k = "assign"
  <2> DEFINE done == {p[i].lhs[j] : j \in {j \in 1 .. Len(p[i].lhs) :
                        /\ p[i].lhs[j] \in Last(w.stack).objs
                        /\ j <= Len(p[i].rhs)
                        /\ p[i].rhs[j] = "wrap"}}
             after == [w.stack EXCEPT ![Len(w.stack)].wrapped = @ \union done]
             only == [stack |-> w.stack]
  <2>1. Visit(w, p, i) = [w EXCEPT !.stack[Len(w.stack)].wrapped = @ \union done]
    BY <1>9 DEF Visit, AssignStmt, Top
  <2>2. s = AssignStmt(only, p[i]).stack
    BY <1>9 DEF StackAfter, IsFunc
  <2>3. AssignStmt(only, p[i]) = [only EXCEPT !.stack[Len(w.stack)].wrapped = @ \union done]
    BY DEF AssignStmt, Top
  <2> HIDE DEF done, s
  <2>4. [only EXCEPT !.stack[Len(w.stack)].wrapped = @ \union done].stack = after
    OBVIOUS
  <2>5. [w EXCEPT !.stack[Len(w.stack)].wrapped = @ \union done] = [w EXCEPT !.stack = after]
    BY DEF IsWalker
  <2>6. Visit(w, p, i) = [w EXCEPT !.stack = s]
    BY <2>1, <2>2, <2>3, <2>4, <2>5
  <2> QED BY <1>2, <1>3, <1>9, <2>6
<1>10. CASE p[i].k = "return"
  <2> DEFINE y == ReturnStmt(w, p, i)
  <2>1. Visit(w, p, i) = y /\ s = w.stack
    BY <1>10 DEF Visit, StackAfter, IsFunc
  <2>2. StepTo(w, y, p, C)
    BY <1>10, ReturnStep
  <2> HIDE DEF y, s, C
  <2>3. y.stack = s /\ IsWalker(y)
    BY <2>1, <2>2 DEF StepTo
  <2>4. [y EXCEPT !.stack = y.stack] = y
    BY <2>3 DEF IsWalker
  <2> QED BY <2>1, <2>2, <2>3, <2>4
<1> QED BY <1>4, <1>5, <1>6, <1>7, <1>8, <1>9, <1>10, NodeKinds

----------------------------------------------------------------------------
(***************************************************************************)
(* The nodes that are open grow and shrink at the end: the ones open       *)
(* around a node are those before it in every later sequence it is in.     *)
(***************************************************************************)
LEMMA FrontOf ==
  \A S : \A s \in Seq(S) :
    /\ Front(s) \in Seq(S)
    /\ Len(Front(s)) = IF s = << >> THEN 0 ELSE Len(s) - 1
    /\ \A k \in 1 .. Len(Front(s)) : Front(s)[k] = s[k]
<1> SUFFICES ASSUME NEW S, NEW s \in Seq(S)
             PROVE  /\ Front(s) \in Seq(S)
                    /\ Len(Front(s)) = IF s = << >> THEN 0 ELSE Len(s) - 1
                    /\ \A k \in 1 .. Len(Front(s)) : Front(s)[k] = s[k]
  OBVIOUS
<1>1. Len(s) \in Nat /\ s \in [1 .. Len(s) -> S]
  BY LenProperties
<1>2. PICK m \in Int : m = Len(s) - 1
  <2>1. PICK n \in Nat : n = Len(s)
    BY <1>1
  <2>2. n - 1 \in Int
    OBVIOUS
  <2> QED BY <2>1, <2>2
<1>3. \A k \in 1 .. m : s[k] \in S
  BY <1>1, <1>2
<1>4. /\ SubSeq(s, 1, m) \in Seq(S)
      /\ Len(SubSeq(s, 1, m)) = IF 1 <= m THEN m - 1 + 1 ELSE 0
      /\ \A k \in 1 .. m - 1 + 1 : SubSeq(s, 1, m)[k] = s[1 + k - 1]
  BY <1>3, SubSeqProperties
<1>5. Front(s) = SubSeq(s, 1, m)
  BY <1>2 DEF Front
<1>6. s # << >> => Len(s) >= 1
  BY <1>1, EmptySeq
<1>7. s = << >> => Len(s) = 0
  BY EmptySeq
<1>8. Len(Front(s)) = IF s = << >> THEN 0 ELSE Len(s) - 1
  BY <1>1, <1>2, <1>4, <1>5, <1>6, <1>7
<1>9. \A k \in 1 .. Len(Front(s)) : k \in 1 .. m - 1 + 1 /\ 1 + k - 1 = k
  BY <1>2, <1>4, <1>5
<1> QED BY <1>4, <1>5, <1>8, <1>9

OpenInv(p, i) ==
  LET o == Opened(p)[i] IN
  /\ o \in Seq(Nat)
  /\ \A x \in 1 .. Len(o) : o[x] \in 1 .. i /\ Opens(p[o[x]])
  /\ \A x, y \in 1 .. Len(o) : x < y => o[x] < o[y]
  /\ \A x \in 1 .. Len(o) :
       /\ Len(Opened(p)[o[x]]) = x
       /\ \A y \in 1 .. x : Opened(p)[o[x]][y] = o[y]

LEMMA OpenStep ==
  ASSUME NEW p, Len(p) \in Nat, NEW i \in 1 .. Len(p), OpenInv(p, i - 1)
  PROVE  OpenInv(p, i)
<1>1. PICK s : s = Opened(p)[i - 1]
  OBVIOUS
<1>2. PICK o : o = Opened(p)[i]
  OBVIOUS
<1>3. o = IF Opens(p[i]) THEN Append(s, i) ELSE IF p[i].k = "end" THEN Front(s) ELSE s
  BY <1>1, <1>2, OpenedUnfold
<1>4. /\ s \in Seq(Nat)
      /\ \A x \in 1 .. Len(s) : s[x] \in 1 .. i - 1 /\ Opens(p[s[x]])
      /\ \A x, y \in 1 .. Len(s) : x < y => s[x] < s[y]
      /\ \A x \in 1 .. Len(s) :
           /\ Len(Opened(p)[s[x]]) = x
           /\ \A y \in 1 .. x : Opened(p)[s[x]][y] = s[y]
  BY <1>1 DEF OpenInv
<1>5. Len(s) \in Nat
  BY <1>4, LenProperties
<1>6. SUFFICES /\ o \in Seq(Nat)
               /\ \A x \in 1 .. Len(o) : o[x] \in 1 .. i /\ Opens(p[o[x]])
               /\ \A x, y \in 1 .. Len(o) : x < y => o[x] < o[y]
               /\ \A x \in 1 .. Len(o) :
                    /\ Len(Opened(p)[o[x]]) = x
                    /\ \A y \in 1 .. x : Opened(p)[o[x]][y] = o[y]
  BY <1>2 DEF OpenInv
<1>7. CASE Opens(p[i])
  <2>1. o = Append(s, i)
    BY <1>3, <1>7
  <2>2. /\ o \in Seq(Nat) /\ Len(o) = Len(s) + 1
        /\ \A x \in 1 .. Len(s) : o[x] = s[x]
        /\ o[Len(s) + 1] = i
    BY <1>4, <2>1, AppendProperties
  <2>3. \A x \in 1 .. Len(o) : x \in 1 .. Len(s) \/ x = Len(o)
    BY <1>5, <2>2
  <2>4. ASSUME NEW x \in 1 .. Len(o) PROVE o[x] \in 1 .. i /\ Opens(p[o[x]])
    <3>1. CASE x \in 1 .. Len(s)
      <4>1. o[x] = s[x] /\ s[x] \in 1 .. i - 1 /\ Opens(p[s[x]])
        BY <1>4, <2>2, <3>1
      <4> QED BY <4>1
    <3>2. CASE x = Len(o)
      <4>1. o[x] = i
        BY <2>2, <3>2
      <4> QED BY <1>7, <4>1
    <3> QED BY <2>3, <3>1, <3>2
  <2>5. ASSUME NEW x \in 1 .. Len(o), NEW y \in 1 .. Len(o), x < y PROVE o[x] < o[y]
    <3>1. x \in 1 .. Len(s)
      BY <1>5, <2>2, <2>5
    <3>2. CASE y \in 1 .. Len(s)
      BY <1>4, <2>2, <2>5, <3>1, <3>2
    <3>3. CASE y = Len(o)
      <4>1. o[y] = i /\ o[x] = s[x] /\ s[x] \in 1 .. i - 1
        BY <1>4, <2>2, <3>1, <3>3
      <4> QED BY <4>1
    <3> QED BY <2>3, <3>2, <3>3
  <2>6. ASSUME NEW x \in 1 .. Len(o)
        PROVE  /\ Len(Opened(p)[o[x]]) = x
               /\ \A y \in 1 .. x : Opened(p)[o[x]][y] = o[y]
    <3>1. CASE x \in 1 .. Len(s)
      <4>1. o[x] = s[x] /\ \A y \in 1 .. x : y \in 1 .. Len(s)
        BY <1>5, <2>2, <3>1
      <4>2. \A y \in 1 .. x : o[y] = s[y]
        BY <2>2, <4>1
      <4> QED BY <1>4, <3>1, <4>1, <4>2
    <3>2. CASE x = Len(o)
      BY <1>2, <2>2, <3>2
    <3> QED BY <2>3, <3>1, <3>2
  <2> QED BY <2>2, <2>4, <2>5, <2>6
<1>8. CASE ~ Opens(p[i]) /\ p[i].k = "end"
  <2>1. o = Front(s)
    BY <1>3, <1>8
  <2>2. /\ o \in Seq(Nat)
        /\ Len(o) = IF s = << >> THEN 0 ELSE Len(s) - 1
        /\ \A x \in 1 .. Len(o) : o[x] = s[x]
    BY <1>4, <2>1, FrontOf
  <2>3. \A x \in 1 .. Len(o) : x \in 1 .. Len(s) /\ \A y \in 1 .. x : y \in 1 .. Len(o)
    BY <1>5, <2>2
  <2>4. \A x \in 1 .. Len(o) : s[x] \in 1 .. i - 1 => s[x] \in 1 .. i
    OBVIOUS
  <2> QED BY <1>4, <2>2, <2>3, <2>4
<1>9. CASE ~ Opens(p[i]) /\ p[i].k # "end"
  <2>1. o = s
    BY <1>3, <1>9
  <2>2. \A x \in 1 .. Len(o) : s[x] \in 1 .. i - 1 => s[x] \in 1 .. i
    OBVIOUS
  <2> QED BY <1>4, <2>1, <2>2
<1> QED BY <1>7, <1>8, <1>9

LEMMA OpenAlways ==
  ASSUME NEW p, Len(p) \in Nat
  PROVE  \A i \in 0 .. Len(p) : OpenInv(p, i)
<1> DEFINE S == {i \in 0 .. Len(p) : OpenInv(p, i)}
<1>1. OpenInv(p, 0)
  <2>1. Opened(p)[0] = << >>
    BY OpenedUnfold
  <2>2. << >> \in Seq(Nat) /\ Len(<< >>) = 0
    BY EmptySeq
  <2> QED BY <2>1, <2>2 DEF OpenInv
<1>2. ASSUME NEW i \in 1 .. Len(p), i - 1 \in S PROVE i \in S
  BY <1>2, OpenStep
<1>3. 0 \in S
  BY <1>1
<1> HIDE DEF S
<1>4. 0 .. Len(p) \subseteq S
  BY <1>2, <1>3, UpTo
<1> QED BY <1>4 DEF S

\* In a file the function declared is around everything else.
LEMMA OpenInFile ==
  ASSUME NEW p, IsFile(p)
  PROVE  /\ Len(p) \in Nat /\ Len(p) >= 1
         /\ \A i \in 1 .. Len(p) : p[i] \in SyntaxNodes /\ p[i].line = i
         /\ \A i \in 0 .. Len(p) :
              Opened(p)[i] # << >> => Len(Opened(p)[i]) >= 1 /\ Opened(p)[i][1] = 1
<1>1. p \in Seq(SyntaxNodes) /\ p # << >>
  BY DEF IsFile
<1>2. Len(p) \in Nat /\ Len(p) >= 1
  BY <1>1, EmptySeq
<1>3. \A i \in 1 .. Len(p) : p[i] \in SyntaxNodes /\ p[i].line = i
  BY <1>1, ElementOfSeq DEF IsFile
<1>4. \A i \in 0 .. Len(p) : Opened(p)[i] \in Seq(Nat)
  BY <1>2, OpenAlways DEF OpenInv
<1> DEFINE S == {i \in 0 .. Len(p) : Opened(p)[i] # << >> => Opened(p)[i][1] = 1}
<1>5. 0 \in S
  BY <1>2, OpenedUnfold
<1>6. ASSUME NEW i \in 1 .. Len(p), i - 1 \in S PROVE i \in S
  <2>1. PICK s : s = Opened(p)[i - 1]
    OBVIOUS
  <2>2. PICK o : o = Opened(p)[i]
    OBVIOUS
  <2>3. o = IF Opens(p[i]) THEN Append(s, i) ELSE IF p[i].k = "end" THEN Front(s) ELSE s
    BY <1>2, <2>1, <2>2, OpenedUnfold
  <2>4. s \in Seq(Nat) /\ o \in Seq(Nat) /\ (s # << >> => s[1] = 1)
    BY <1>4, <1>6, <2>1, <2>2
  <2>5. Len(s) \in Nat /\ (s # << >> => Len(s) >= 1) /\ (s = << >> => Len(s) = 0)
    BY <2>4, EmptySeq, LenProperties
  <2>6. CASE i = 1
    <3>1. s = << >> /\ Opens(p[i])
      BY <1>2, <2>1, <2>6, OpenedUnfold DEF IsFile, Opens
    <3>2. o = Append(s, i) /\ Len(s) = 0
      BY <2>3, <2>5, <3>1
    <3>3. o[Len(s) + 1] = i
      BY <2>4, <3>2, AppendProperties
    <3> QED BY <2>2, <2>6, <3>2, <3>3
  <2>7. CASE i # 1
    <3>1. s # << >>
      BY <2>1, <2>7 DEF IsFile, OpenAt
    <3>2. Opens(p[i]) => o[1] = s[1]
      BY <2>3, <2>4, <2>5, <3>1, AppendProperties
    <3>3. ASSUME o = Front(s), o # << >> PROVE o[1] = s[1]
      <4>1. Len(o) >= 1
        BY <2>4, <3>3, EmptySeq
      <4> QED BY <2>4, <3>3, <4>1, FrontOf
    <3>4. o # << >> => o[1] = 1
      BY <2>3, <2>4, <3>1, <3>2, <3>3
    <3> QED BY <2>2, <3>4
  <2> QED BY <2>6, <2>7
<1> HIDE DEF S
<1>7. 0 .. Len(p) \subseteq S
  BY <1>2, <1>5, <1>6, UpTo
<1>8. \A i \in 0 .. Len(p) : Opened(p)[i] # << >> => Len(Opened(p)[i]) >= 1 /\ Opened(p)[i][1] = 1
  BY <1>4, <1>7, EmptySeq DEF S
<1> QED BY <1>2, <1>3, <1>8

----------------------------------------------------------------------------
(***************************************************************************)
(* The walk as a whole.                                                    *)
(***************************************************************************)
LEMMA WalkersUnfold ==
  ASSUME NEW p, Len(p) \in Nat, NEW o, NEW u
  PROVE  /\ Walkers(p, o, u)[0] = NewWalker(o, u)
         /\ \A i \in 1 .. Len(p) :
              Walkers(p, o, u)[i] = Visit(Walkers(p, o, u)[i - 1], p, i)
<1> DEFINE Body(g, i) == IF i = 0 THEN NewWalker(o, u) ELSE Visit(g[i - 1], p, i)
           Good(n) == \E g : \A i \in 0 .. n : g[i] = Body(g, i)
           S == {n \in 0 .. Len(p) : Good(n)}
<1>1. \A g, h : \A i \in 0 .. Len(p) : (i # 0 => g[i - 1] = h[i - 1]) => Body(g, i) = Body(h, i)
  OBVIOUS
<1> HIDE DEF Body
<1>2. 0 \in S
  <2>1. PICK g : g = [i \in {0} |-> Body(<< >>, 0)]
    OBVIOUS
  <2>2. g[0] = Body(<< >>, 0)
    BY <2>1
  <2>3. g[0] = Body(g, 0)
    BY <1>1, <2>2
  <2>4. Good(0)
    BY <2>3
  <2> QED BY <2>4
<1>3. ASSUME NEW n \in 1 .. Len(p), n - 1 \in S
      PROVE  n \in S
  <2>1. PICK h : \A i \in 0 .. n - 1 : h[i] = Body(h, i)
    BY <1>3
  <2>2. PICK g : g = [i \in 0 .. n |-> IF i = n THEN Body(h, n) ELSE h[i]]
    OBVIOUS
  <2>3. ASSUME NEW i \in 0 .. n PROVE g[i] = Body(g, i)
    <3>1. i # 0 => i - 1 \in 0 .. n /\ i - 1 # n
      OBVIOUS
    <3>2. i # 0 => g[i - 1] = h[i - 1]
      BY <2>2, <3>1
    <3>3. Body(g, i) = Body(h, i)
      BY <1>1, <3>2
    <3>4. i # n => i \in 0 .. n - 1
      OBVIOUS
    <3> QED BY <2>1, <2>2, <3>3, <3>4
  <2>4. Good(n)
    BY <2>3
  <2> QED BY <2>4
<1>4. PICK g : \A i \in 0 .. Len(p) : g[i] = Body(g, i)
  <2> HIDE DEF S
  <2>1. 0 .. Len(p) \subseteq S
    BY <1>2, <1>3, UpTo
  <2>2. Len(p) \in S
    BY <2>1
  <2> QED BY <2>2 DEF S
<1> DEFINE f == [i \in 0 .. Len(p) |-> g[i]]
<1>5. f = [i \in 0 .. Len(p) |-> Body(f, i)]
  <2>1. ASSUME NEW i \in 0 .. Len(p) PROVE g[i] = Body(f, i)
    <3>1. i # 0 => f[i - 1] = g[i - 1]
      OBVIOUS
    <3> HIDE DEF f
    <3> QED BY <1>1, <1>4, <3>1
  <2> QED BY <2>1
<1> HIDE DEF f
<1>6. Walkers(p, o, u) = [i \in 0 .. Len(p) |-> Body(Walkers(p, o, u), i)]
  BY <1>5 DEF Walkers, Body
<1>7. \A i \in 0 .. Len(p) : Walkers(p, o, u)[i] = Body(Walkers(p, o, u), i)
  BY <1>6
<1>8. Walkers(p, o, u)[0] = Body(Walkers(p, o, u), 0)
  BY <1>7
<1>9. \A i \in 1 .. Len(p) : i \in 0 .. Len(p) /\ i # 0
  OBVIOUS
<1> QED BY <1>7, <1>8, <1>9 DEF Body

IsProgram(p) == Len(p) \in Nat /\ \A i \in 1 .. Len(p) : p[i] \in SyntaxNodes

LEMMA WalkersAreWalkers ==
  ASSUME NEW p, IsProgram(p), NEW o, NEW u
  PROVE  \A i \in 0 .. Len(p) :
           /\ IsWalker(Walkers(p, o, u)[i])
           /\ Walkers(p, o, u)[i].opts = o
           /\ Walkers(p, o, u)[i].optouts = u
<1> DEFINE W == Walkers(p, o, u)
           S == {i \in 0 .. Len(p) : IsWalker(W[i]) /\ W[i].opts = o /\ W[i].optouts = u}
<1>0. Len(p) \in Nat
  BY DEF IsProgram
<1>1. 0 \in S
  <2>1. W[0] = NewWalker(o, u)
    BY <1>0, WalkersUnfold
  <2>2. IsABag(EmptyBag)
    BY DEF IsABag, EmptyBag, SetToBag
  <2>3. IsWalker(NewWalker(o, u)) /\ NewWalker(o, u).opts = o /\ NewWalker(o, u).optouts = u
    BY <2>2 DEF NewWalker, IsWalker
  <2> QED BY <1>0, <2>1, <2>3
<1>2. ASSUME NEW i \in 1 .. Len(p), i - 1 \in S PROVE i \in S
  <2>1. PICK w : w = W[i - 1]
    OBVIOUS
  <2>2. IsWalker(w) /\ w.opts = o /\ w.optouts = u
    BY <1>2, <2>1
  <2>3. W[i] = Visit(w, p, i)
    BY <1>0, <2>1, WalkersUnfold
  <2>4. p[i] \in SyntaxNodes
    BY DEF IsProgram
  <2>5. IsWalker(Visit(w, p, i)) /\ Visit(w, p, i).opts = w.opts /\ Visit(w, p, i).optouts = w.optouts
    BY <2>2, <2>4, VisitEffect
  <2> QED BY <2>2, <2>3, <2>5
<1> HIDE DEF S
<1>3. 0 .. Len(p) \subseteq S
  BY <1>0, <1>1, <1>2, UpTo
<1> QED BY <1>3 DEF S

LEMMA WalkStep ==
  ASSUME NEW p, IsProgram(p), NEW o, NEW u, NEW i \in 1 .. Len(p)
  PROVE  LET w == Walkers(p, o, u)[i - 1]
             x == Walkers(p, o, u)[i]
             C == Candidates(Top(w), p, i, o)
         IN  /\ IsABag(w.inserts)
             /\ x.stack = StackAfter(w.stack, p, i)
             /\ x.inserts = w.inserts (+) SetToBag(NotIn(p, C, u))
             /\ BagToSet(x.inserts) = BagToSet(w.inserts) \union NotIn(p, C, u)
             /\ w.used \subseteq x.used
             /\ \A ins \in In(p, C, u) : LineOf(p, ins) \in x.used
<1>1. PICK w : w = Walkers(p, o, u)[i - 1]
  OBVIOUS
<1>2. i - 1 \in 0 .. Len(p) /\ p[i] \in SyntaxNodes /\ Len(p) \in Nat
  BY DEF IsProgram
<1>3. IsWalker(w) /\ w.opts = o /\ w.optouts = u
  BY <1>1, <1>2, WalkersAreWalkers
<1>4. Walkers(p, o, u)[i] = Visit(w, p, i)
  BY <1>1, <1>2, WalkersUnfold
<1>5. IsABag(w.inserts)
  BY <1>3 DEF IsWalker
<1> DEFINE T == NotIn(p, Candidates(Top(w), p, i, o), u)
<1>6. BagToSet(w.inserts (+) SetToBag(T)) = BagToSet(w.inserts) \union T
  <2> HIDE DEF T
  <2> QED BY <1>5, InsertsAdded
<1>7. LET x == Visit(w, p, i)
          C == Candidates(Top(w), p, i, o)
      IN  /\ x.stack = StackAfter(w.stack, p, i)
          /\ x.inserts = w.inserts (+) SetToBag(NotIn(p, C, u))
          /\ w.used \subseteq x.used
          /\ \A ins \in In(p, C, u) : LineOf(p, ins) \in x.used
  BY <1>2, <1>3, VisitEffect
<1> QED BY <1>1, <1>4, <1>5, <1>6, <1>7

LEMMA WalkBegins ==
  ASSUME NEW p, IsProgram(p), NEW o, NEW u
  PROVE  /\ Walkers(p, o, u)[0].stack = <<NoVisitor>>
         /\ Walkers(p, o, u)[0].inserts = EmptyBag
         /\ BagToSet(EmptyBag) = {}
<1>1. Walkers(p, o, u)[0] = NewWalker(o, u)
  BY WalkersUnfold DEF IsProgram
<1> QED BY <1>1 DEF NewWalker, EmptyBag, SetToBag, BagToSet

\* Each insert comes from a node, was a candidate there and is not opted out.
LEMMA InsertsComeFrom ==
  ASSUME NEW p, IsProgram(p), NEW o, NEW u, NEW n \in 0 .. Len(p),
         NEW ins \in BagToSet(Walkers(p, o, u)[n].inserts)
  PROVE  \E i \in 1 .. n :
           /\ ins \in Candidates(Top(Walkers(p, o, u)[i - 1]), p, i, o)
           /\ LineOf(p, ins) \notin u
<1> DEFINE W == Walkers(p, o, u)
           C(i) == NotIn(p, Candidates(Top(W[i - 1]), p, i, o), u)
           Good(m) == \A x \in BagToSet(W[m].inserts) : \E i \in 1 .. m : x \in C(i)
           S == {m \in 0 .. Len(p) : Good(m)}
<1>0. Len(p) \in Nat
  BY DEF IsProgram
<1>1. 0 \in S
  <2>1. BagToSet(W[0].inserts) = {}
    BY WalkBegins
  <2> QED BY <1>0, <2>1
<1>2. ASSUME NEW m \in 1 .. Len(p), m - 1 \in S PROVE m \in S
  <2>1. BagToSet(W[m].inserts) = BagToSet(W[m - 1].inserts) \union C(m)
    BY WalkStep
  <2>2. Good(m - 1)
    BY <1>2
  <2>3. \A i \in 1 .. m - 1 : i \in 1 .. m
    OBVIOUS
  <2> HIDE DEF C, W
  <2>4. Good(m)
    BY <2>1, <2>2, <2>3
  <2> QED BY <2>4
<1> HIDE DEF S
<1>3. 0 .. Len(p) \subseteq S
  BY <1>0, <1>1, <1>2, UpTo
<1>4. Good(n)
  BY <1>3 DEF S
<1> QED BY <1>4 DEF NotIn
----------------------------------------------------------------------------
(***************************************************************************)
(* The visitors on the stack know the functions of the nodes that are open.*)
(***************************************************************************)
Visitors == [indices : SUBSET Nat, objs : SUBSET (Nat \X Nat), n : Nat,
             wrapped : SUBSET (Nat \X Nat)]

\* f is the innermost function of the first x nodes of o.
IsInnermost(p, o, x, f) ==
  \E y \in 1 .. x : f = o[y] /\ IsFunc(p[f]) /\ \A z \in y + 1 .. x : ~ IsFunc(p[o[z]])

KnowsFunc(v, p, f) ==
  IF Traced(p[f].sig)
  THEN v.indices = ErrorIndices(p[f].sig) /\ v.objs = NamedErrors(p, f) /\ v.n = Len(p[f].sig.results)
  ELSE v.indices = {} /\ v.objs = {} /\ v.n = 0

StackInv(p, o, s) ==
  /\ s \in Seq(Visitors)
  /\ Len(s) = Len(o) + 1
  /\ \A x \in 1 .. Len(o) : \A f : IsInnermost(p, o, x, f) => KnowsFunc(s[x + 1], p, f)

LEMMA FuncTypeKnows ==
  ASSUME NEW outer \in Visitors, NEW p, NEW i, p[i] \in SyntaxNodes, IsFunc(p[i])
  PROVE  /\ FuncType(outer, p[i].sig, p[i].line) \in Visitors
         /\ KnowsFunc(FuncType(outer, p[i].sig, p[i].line), p, i)
<1>1. p[i].sig \in Signatures /\ p[i].line \in Nat
  BY DEF SyntaxNodes, IsFunc
<1>2. PICK sig : sig = p[i].sig
  OBVIOUS
<1>3. PICK line \in Nat : line = p[i].line
  BY <1>1
<1>4. sig.results \in Seq({"value", "error"}) /\ sig.named \in BOOLEAN /\ sig.unwrap \in BOOLEAN
  BY <1>1, <1>2 DEF Signatures
<1>5. Len(sig.results) \in Nat
  BY <1>4, LenProperties
<1>6. PICK E : E = ErrorIndices(sig)
  OBVIOUS
<1>7. E \subseteq Nat
  BY <1>5, <1>6 DEF ErrorIndices
<1>8. PICK N : N = IF sig.named THEN {Obj(line, j) : j \in E} ELSE {}
  OBVIOUS
<1>9. N \in SUBSET (Nat \X Nat)
  BY <1>7, <1>8 DEF Obj
<1>10. N = NamedErrors(p, i)
  BY <1>2, <1>3, <1>6, <1>8 DEF NamedErrors
<1>11. CASE Traced(sig)
  <2>1. ~ (E = {} \/ (Cardinality(E) = 1 /\ sig.unwrap))
    BY <1>6, <1>11, <1>4 DEF Traced
  <2>2. FuncType(outer, sig, line) = [indices |-> E, objs |-> N, n |-> Len(sig.results), wrapped |-> {}]
    BY <1>6, <1>8, <2>1 DEF FuncType
  <2>3. FuncType(outer, sig, line) \in Visitors
    BY <1>5, <1>7, <1>9, <2>2 DEF Visitors
  <2>4. KnowsFunc(FuncType(outer, sig, line), p, i)
    BY <1>2, <1>6, <1>10, <1>11, <2>2 DEF KnowsFunc
  <2> QED BY <1>2, <1>3, <2>3, <2>4
<1>12. CASE ~ Traced(sig)
  <2>1. E = {} \/ (Cardinality(E) = 1 /\ sig.unwrap)
    BY <1>6, <1>12, <1>4 DEF Traced
  <2>2. FuncType(outer, sig, line)
          = [outer EXCEPT !.indices = {}, !.objs = {}, !.n = 0, !.wrapped = {}]
    BY <1>6, <2>1 DEF FuncType
  <2>3. FuncType(outer, sig, line) = [indices |-> {}, objs |-> {}, n |-> 0, wrapped |-> {}]
    BY <2>2 DEF Visitors
  <2>4. FuncType(outer, sig, line) \in Visitors
    BY <2>3 DEF Visitors
  <2>5. KnowsFunc(FuncType(outer, sig, line), p, i)
    BY <1>2, <1>12, <2>3 DEF KnowsFunc
  <2> QED BY <1>2, <1>3, <2>4, <2>5
<1> QED BY <1>11, <1>12

LEMMA StackPushed ==
  ASSUME NEW p, NEW o \in Seq(Nat), NEW s, StackInv(p, o, s), NEW i \in Nat,
         NEW v \in Visitors,
         \A f : IsInnermost(p, Append(o, i), Len(o) + 1, f) => KnowsFunc(v, p, f)
  PROVE  StackInv(p, Append(o, i), Append(s, v))
<1>1. PICK q : q = Append(o, i)
  OBVIOUS
<1>2. PICK t : t = Append(s, v)
  OBVIOUS
<1>3. s \in Seq(Visitors) /\ Len(s) = Len(o) + 1 /\ Len(o) \in Nat
  BY LenProperties DEF StackInv
<1>4. /\ q \in Seq(Nat) /\ Len(q) = Len(o) + 1
      /\ \A x \in 1 .. Len(o) : q[x] = o[x]
      /\ q[Len(o) + 1] = i
  BY <1>1, AppendProperties
<1>5. /\ t \in Seq(Visitors) /\ Len(t) = Len(s) + 1
      /\ \A x \in 1 .. Len(s) : t[x] = s[x]
      /\ t[Len(s) + 1] = v
  BY <1>2, <1>3, AppendProperties
<1>6. ASSUME NEW x \in 1 .. Len(q), NEW f, IsInnermost(p, q, x, f)
      PROVE  KnowsFunc(t[x + 1], p, f)
  <2>1. CASE x \in 1 .. Len(o)
    <3>1. \A y \in 1 .. x : y \in 1 .. Len(o)
      BY <1>3, <2>1
    <3>2. \A y \in 1 .. x : \A z \in y + 1 .. x : z \in 1 .. Len(o)
      BY <1>3, <2>1
    <3>3. IsInnermost(p, o, x, f)
      BY <1>4, <1>6, <3>1, <3>2 DEF IsInnermost
    <3>4. x + 1 \in 1 .. Len(s)
      BY <1>3, <2>1
    <3> QED BY <1>5, <2>1, <3>3, <3>4 DEF StackInv
  <2>2. CASE x = Len(o) + 1
    <3>1. t[x + 1] = v
      BY <1>3, <1>5, <2>2
    <3> QED BY <1>1, <1>6, <2>2, <3>1
  <2> QED BY <1>3, <1>4, <2>1, <2>2
<1>7. Len(t) = Len(q) + 1
  BY <1>3, <1>4, <1>5
<1>8. StackInv(p, q, t)
  BY <1>5, <1>6, <1>7 DEF StackInv
<1> QED BY <1>1, <1>2, <1>8

LEMMA StackPopped ==
  ASSUME NEW p, NEW o \in Seq(Nat), o # << >>, NEW s, StackInv(p, o, s)
  PROVE  StackInv(p, Front(o), Front(s))
<1>1. PICK q : q = Front(o)
  OBVIOUS
<1>2. PICK t : t = Front(s)
  OBVIOUS
<1>3. s \in Seq(Visitors) /\ Len(s) = Len(o) + 1 /\ Len(o) \in Nat /\ Len(o) >= 1
  BY LenProperties, EmptySeq DEF StackInv
<1>4. s # << >>
  BY <1>3, EmptySeq
<1>5. /\ q \in Seq(Nat) /\ Len(q) = Len(o) - 1
      /\ \A x \in 1 .. Len(q) : q[x] = o[x]
  BY <1>1, FrontOf
<1>6. /\ t \in Seq(Visitors) /\ Len(t) = Len(s) - 1
      /\ \A x \in 1 .. Len(t) : t[x] = s[x]
  BY <1>2, <1>3, <1>4, FrontOf
<1>7. ASSUME NEW x \in 1 .. Len(q), NEW f, IsInnermost(p, q, x, f)
      PROVE  KnowsFunc(t[x + 1], p, f)
  <2>1. \A y \in 1 .. x : y \in 1 .. Len(q)
    BY <1>3, <1>5
  <2>2. \A y \in 1 .. x : \A z \in y + 1 .. x : z \in 1 .. Len(q)
    BY <1>3, <1>5
  <2>3. IsInnermost(p, o, x, f)
    BY <1>5, <1>7, <2>1, <2>2 DEF IsInnermost
  <2>4. x \in 1 .. Len(o) /\ x + 1 \in 1 .. Len(t)
    BY <1>3, <1>5, <1>6
  <2>5. KnowsFunc(s[x + 1], p, f)
    BY <2>3, <2>4 DEF StackInv
  <2> QED BY <1>6, <2>4, <2>5
<1>8. Len(t) = Len(q) + 1
  BY <1>3, <1>5, <1>6
<1>9. StackInv(p, q, t)
  BY <1>6, <1>7, <1>8 DEF StackInv
<1> QED BY <1>1, <1>2, <1>9

LEMMA StackMarked ==
  ASSUME NEW p, NEW o \in Seq(Nat), NEW s, StackInv(p, o, s), NEW done,
         done \in SUBSET (Nat \X Nat)
  PROVE  StackInv(p, o, [s EXCEPT ![Len(s)].wrapped = @ \union done])
<1>1. PICK t : t = [s EXCEPT ![Len(s)].wrapped = @ \union done]
  OBVIOUS
<1>2. s \in Seq(Visitors) /\ Len(s) = Len(o) + 1 /\ Len(o) \in Nat
  BY LenProperties DEF StackInv
<1>3. PICK k : k = Len(s)
  OBVIOUS
<1>4. k \in 1 .. Len(s)
  BY <1>2, <1>3
<1>5. PICK v : v = [s[k] EXCEPT !.wrapped = @ \union done]
  OBVIOUS
<1>6. s[k] \in Visitors
  BY <1>2, <1>4, ElementOfSeq
<1>7. /\ v \in Visitors
      /\ v.indices = s[k].indices /\ v.objs = s[k].objs /\ v.n = s[k].n
  BY <1>5, <1>6 DEF Visitors
<1>8. t = [s EXCEPT ![k] = v]
  BY <1>1, <1>3, <1>5
<1>9. /\ t \in Seq(Visitors) /\ Len(t) = Len(s)
      /\ \A j \in 1 .. Len(s) : t[j] = IF j = k THEN v ELSE s[j]
  BY <1>2, <1>4, <1>7, <1>8, ExceptSeq
<1>10. ASSUME NEW x \in 1 .. Len(o), NEW f, IsInnermost(p, o, x, f)
       PROVE  KnowsFunc(t[x + 1], p, f)
  <2>1. x + 1 \in 1 .. Len(s)
    BY <1>2
  <2>2. KnowsFunc(s[x + 1], p, f)
    BY <1>10 DEF StackInv
  <2>3. /\ t[x + 1].indices = s[x + 1].indices /\ t[x + 1].objs = s[x + 1].objs
        /\ t[x + 1].n = s[x + 1].n
    BY <1>7, <1>9, <2>1
  <2> QED BY <2>2, <2>3 DEF KnowsFunc
<1>11. StackInv(p, o, t)
  BY <1>2, <1>9, <1>10 DEF StackInv
<1> QED BY <1>1, <1>11

LEMMA StackStep ==
  ASSUME NEW p, IsFile(p), NEW i \in 1 .. Len(p), NEW s, StackInv(p, Opened(p)[i - 1], s)
  PROVE  StackInv(p, Opened(p)[i], StackAfter(s, p, i))
<1>1. PICK o : o = Opened(p)[i - 1]
  OBVIOUS
<1>2. Len(p) \in Nat /\ p[i] \in SyntaxNodes
  BY OpenInFile
<1>3. i - 1 \in 0 .. Len(p)
  BY <1>2
<1>4. o \in Seq(Nat)
  BY <1>1, <1>2, <1>3, OpenAlways DEF OpenInv
<1>5. StackInv(p, o, s)
  BY <1>1
<1>6. Opened(p)[i] = IF Opens(p[i]) THEN Append(o, i) ELSE IF p[i].k = "end" THEN Front(o) ELSE o
  BY <1>1, <1>2, OpenedUnfold
<1>7. s \in Seq(Visitors) /\ Len(s) = Len(o) + 1 /\ Len(o) \in Nat
  BY <1>4, <1>5, LenProperties DEF StackInv
<1>8. Last(s) \in Visitors /\ Last(s) = s[Len(s)]
  <2>1. Len(s) \in 1 .. Len(s)
    BY <1>7
  <2> QED BY <1>7, <2>1, ElementOfSeq DEF Last
<1>9. CASE IsFunc(p[i])
  <2>1. PICK v : v = FuncType(Last(s), p[i].sig, p[i].line)
    OBVIOUS
  <2>2. v \in Visitors /\ KnowsFunc(v, p, i)
    BY <1>2, <1>8, <1>9, <2>1, FuncTypeKnows
  <2>3. ASSUME NEW f, IsInnermost(p, Append(o, i), Len(o) + 1, f) PROVE f = i
    <3>1. PICK y \in 1 .. Len(o) + 1 :
            f = Append(o, i)[y] /\ \A z \in y + 1 .. Len(o) + 1 : ~ IsFunc(p[Append(o, i)[z]])
      BY <2>3 DEF IsInnermost
    <3>2. Append(o, i)[Len(o) + 1] = i
      BY <1>4, AppendProperties
    <3>3. y # Len(o) + 1 => Len(o) + 1 \in y + 1 .. Len(o) + 1
      BY <1>7
    <3> QED BY <1>9, <3>1, <3>2, <3>3
  <2>4. StackInv(p, Append(o, i), Append(s, v))
    BY <1>4, <1>5, <2>2, <2>3, StackPushed
  <2> QED BY <1>6, <1>9, <2>1, <2>4 DEF StackAfter, IsFunc, Opens
<1>10. CASE p[i].k \in {"block", "switch"}
  <2>1. PICK v : v = BlockVisitor(Last(s))
    OBVIOUS
  <2>2. /\ v \in Visitors
        /\ v.indices = Last(s).indices /\ v.objs = Last(s).objs /\ v.n = Last(s).n
    BY <1>8, <2>1 DEF BlockVisitor, Visitors
  <2>3. ASSUME NEW f, IsInnermost(p, Append(o, i), Len(o) + 1, f) PROVE KnowsFunc(v, p, f)
    <3>1. PICK y \in 1 .. Len(o) + 1 :
            /\ f = Append(o, i)[y] /\ IsFunc(p[f])
            /\ \A z \in y + 1 .. Len(o) + 1 : ~ IsFunc(p[Append(o, i)[z]])
      BY <2>3 DEF IsInnermost
    <3>2. Append(o, i)[Len(o) + 1] = i /\ \A x \in 1 .. Len(o) : Append(o, i)[x] = o[x]
      BY <1>4, AppendProperties
    <3>3. ~ IsFunc(p[i])
      BY <1>10 DEF IsFunc
    <3>4. y \in 1 .. Len(o)
      <4>1. y # Len(o) + 1
        BY <3>1, <3>2, <3>3
      <4> QED BY <1>7, <4>1
    <3>5. \A z \in y + 1 .. Len(o) : z \in y + 1 .. Len(o) + 1 /\ z \in 1 .. Len(o)
      BY <1>7, <3>4
    <3>6. \A z \in y + 1 .. Len(o) : ~ IsFunc(p[o[z]])
      BY <3>1, <3>2, <3>5
    <3>7. IsInnermost(p, o, Len(o), f)
      BY <3>1, <3>2, <3>4, <3>6 DEF IsInnermost
    <3>8. Len(o) \in 1 .. Len(o) /\ Len(o) + 1 = Len(s)
      BY <1>7, <3>4
    <3>9. KnowsFunc(s[Len(o) + 1], p, f)
      BY <1>5, <3>7, <3>8 DEF StackInv
    <3>10. KnowsFunc(Last(s), p, f)
      BY <1>8, <3>8, <3>9
    <3> QED BY <2>2, <3>10 DEF KnowsFunc
  <2>4. StackInv(p, Append(o, i), Append(s, v))
    BY <1>4, <1>5, <2>2, <2>3, StackPushed
  <2> QED BY <1>6, <1>10, <2>1, <2>4 DEF StackAfter, IsFunc, Opens
<1>11. CASE p[i].k = "end"
  <2>1. o # << >>
    <3>1. i # 1
      BY <1>11 DEF IsFile
    <3> QED BY <1>1, <3>1 DEF IsFile, OpenAt
  <2>2. StackInv(p, Front(o), Front(s))
    BY <1>4, <1>5, <2>1, StackPopped
  <2> QED BY <1>6, <1>11, <2>2 DEF StackAfter, IsFunc, Opens
<1>12. CASE p[i].k = "assign"
  <2> DEFINE done == {p[i].lhs[j] : j \in {j \in 1 .. Len(p[i].lhs) :
                        /\ p[i].lhs[j] \in Last(s).objs
                        /\ j <= Len(p[i].rhs)
                        /\ p[i].rhs[j] = "wrap"}}
             only == [stack |-> s]
  <2>1. done \subseteq Last(s).objs
    OBVIOUS
  <2>2. Last(s).objs \in SUBSET (Nat \X Nat)
    BY <1>8 DEF Visitors
  <2>3. AssignStmt(only, p[i]) = [only EXCEPT !.stack[Len(s)].wrapped = @ \union done]
    BY DEF AssignStmt, Top
  <2> HIDE DEF done
  <2>4. AssignStmt(only, p[i]).stack = [s EXCEPT ![Len(s)].wrapped = @ \union done]
    BY <2>3
  <2>5. StackInv(p, o, [s EXCEPT ![Len(s)].wrapped = @ \union done])
    BY <1>4, <1>5, <2>1, <2>2, StackMarked
  <2>6. StackAfter(s, p, i) = AssignStmt([stack |-> s], p[i]).stack /\ Opened(p)[i] = o
    BY <1>6, <1>12 DEF StackAfter, IsFunc, Opens
  <2> QED BY <2>4, <2>5, <2>6
<1>13. CASE p[i].k \in {"case", "return"}
  <2>1. StackAfter(s, p, i) = s /\ Opened(p)[i] = o
    BY <1>6, <1>13 DEF StackAfter, IsFunc, Opens
  <2> QED BY <1>5, <2>1
<1> QED BY <1>2, <1>9, <1>10, <1>11, <1>12, <1>13, NodeKinds DEF IsFunc

LEMMA FilesArePrograms ==
  ASSUME NEW p, IsFile(p)
  PROVE  IsProgram(p)
BY OpenInFile DEF IsProgram

LEMMA StackKnows ==
  ASSUME NEW p, IsFile(p), NEW o, NEW u
  PROVE  \A i \in 0 .. Len(p) : StackInv(p, Opened(p)[i], Walkers(p, o, u)[i].stack)
<1> DEFINE W == Walkers(p, o, u)
           S == {i \in 0 .. Len(p) : StackInv(p, Opened(p)[i], W[i].stack)}
<1>1. Len(p) \in Nat /\ IsProgram(p)
  BY OpenInFile, FilesArePrograms
<1>2. 0 \in S
  <2>1. NoVisitor \in Visitors
    BY DEF NoVisitor, Visitors
  <2>2. PICK s : s = <<NoVisitor>>
    OBVIOUS
  <2>3. s \in Seq(Visitors) /\ Len(s) = 1
    BY <2>1, <2>2
  <2>4. Opened(p)[0] = << >> /\ W[0].stack = s /\ Len(<< >>) = 0
    BY <1>1, <2>2, OpenedUnfold, WalkBegins
  <2>5. StackInv(p, << >>, s)
    BY <2>3 DEF StackInv
  <2> QED BY <1>1, <2>4, <2>5
<1>3. ASSUME NEW i \in 1 .. Len(p), i - 1 \in S PROVE i \in S
  <2>1. W[i].stack = StackAfter(W[i - 1].stack, p, i)
    BY <1>1, WalkStep
  <2>2. StackInv(p, Opened(p)[i - 1], W[i - 1].stack)
    BY <1>3
  <2> HIDE DEF W
  <2>3. StackInv(p, Opened(p)[i], W[i].stack)
    BY <2>1, <2>2, StackStep
  <2> QED BY <2>3
<1> HIDE DEF S
<1>4. 0 .. Len(p) \subseteq S
  BY <1>1, <1>2, <1>3, UpTo
<1> QED BY <1>4 DEF S

LEMMA EnclosingIsInnermost ==
  ASSUME NEW p, IsFile(p), NEW i \in 1 .. Len(p) + 1, OpenAt(p, i) # << >>
  PROVE  /\ IsInnermost(p, OpenAt(p, i), Len(OpenAt(p, i)), EnclosingFunc(p, i))
         /\ EnclosingFunc(p, i) \in 1 .. i - 1
         /\ IsFunc(p[EnclosingFunc(p, i)])
<1>1. PICK o : o = OpenAt(p, i)
  OBVIOUS
<1>2. Len(p) \in Nat /\ Len(p) >= 1
  BY OpenInFile
<1>3. i - 1 \in 0 .. Len(p) /\ o = Opened(p)[i - 1]
  BY <1>1, <1>2 DEF OpenAt
<1>4. /\ o \in Seq(Nat)
      /\ \A x \in 1 .. Len(o) : o[x] \in 1 .. i - 1
      /\ \A x, y \in 1 .. Len(o) : x < y => o[x] < o[y]
  BY <1>2, <1>3, OpenAlways DEF OpenInv
<1>5. Len(o) \in Nat /\ Len(o) >= 1 /\ o[1] = 1 /\ DOMAIN o = 1 .. Len(o)
  <2>1. o # << >>
    BY <1>1
  <2>2. Len(o) >= 1 /\ o[1] = 1
    BY <1>3, <2>1, OpenInFile
  <2>3. Len(o) \in Nat /\ DOMAIN o = 1 .. Len(o)
    BY <1>4, LenProperties
  <2> QED BY <2>2, <2>3
<1> DEFINE F == {j \in ToSet(o) : IsFunc(p[j])}
<1>6. ToSet(o) = {o[x] : x \in 1 .. Len(o)}
  BY <1>5 DEF ToSet
<1>7. 1 \in F
  <2>1. IsFunc(p[1])
    BY DEF IsFile, IsFunc
  <2> QED BY <1>5, <1>6, <2>1
<1>8. F \subseteq 0 .. i - 1
  BY <1>4, <1>6
<1>9. Max(F) \in F /\ \A y \in F : y <= Max(F)
  <2> HIDE DEF F
  <2>1. i - 1 \in Nat
    BY <1>3
  <2> QED BY <1>7, <1>8, <2>1, GreatestNumber
<1>10. EnclosingFunc(p, i) = Max(F)
  BY <1>1 DEF EnclosingFunc
<1>11. PICK y \in 1 .. Len(o) : Max(F) = o[y] /\ IsFunc(p[Max(F)])
  BY <1>6, <1>9
<1>12. ASSUME NEW z \in y + 1 .. Len(o) PROVE ~ IsFunc(p[o[z]])
  <2>1. z \in 1 .. Len(o) /\ y < z
    BY <1>5
  <2>2. o[y] < o[z] /\ o[y] \in Nat /\ o[z] \in Nat
    BY <1>4, <2>1
  <2>3. IsFunc(p[o[z]]) => o[z] \in F
    BY <1>6, <2>1
  <2> HIDE DEF F
  <2> QED BY <1>9, <1>11, <2>2, <2>3
<1>13. IsInnermost(p, o, Len(o), Max(F))
  BY <1>11, <1>12 DEF IsInnermost
<1> HIDE DEF F
<1> QED BY <1>1, <1>4, <1>10, <1>11, <1>13

\* Wherever a node stands, the visitor on top knows the function around it.
LEMMA TopKnows ==
  ASSUME NEW p, IsFile(p), NEW o, NEW u, NEW i \in 2 .. Len(p)
  PROVE  /\ Top(Walkers(p, o, u)[i - 1]) \in Visitors
         /\ KnowsFunc(Top(Walkers(p, o, u)[i - 1]), p, EnclosingFunc(p, i))
<1>1. PICK s : s = Walkers(p, o, u)[i - 1].stack
  OBVIOUS
<1>2. PICK c : c = OpenAt(p, i)
  OBVIOUS
<1>3. Len(p) \in Nat
  BY OpenInFile
<1>4. i - 1 \in 0 .. Len(p) /\ i \in 1 .. Len(p) + 1 /\ c = Opened(p)[i - 1]
  BY <1>2, <1>3 DEF OpenAt
<1>5. c # << >>
  BY <1>2 DEF IsFile
<1>6. StackInv(p, c, s)
  BY <1>1, <1>4, StackKnows
<1>7. c \in Seq(Nat)
  BY <1>3, <1>4, OpenAlways DEF OpenInv
<1>8. Len(c) \in Nat /\ Len(c) >= 1 /\ s \in Seq(Visitors) /\ Len(s) = Len(c) + 1
  BY <1>5, <1>6, <1>7, EmptySeq DEF StackInv
<1>9. IsInnermost(p, c, Len(c), EnclosingFunc(p, i))
  BY <1>2, <1>4, <1>5, EnclosingIsInnermost
<1>10. Len(c) \in 1 .. Len(c) /\ Len(c) + 1 \in 1 .. Len(s)
  BY <1>8
<1>11. s[Len(c) + 1] \in Visitors /\ KnowsFunc(s[Len(c) + 1], p, EnclosingFunc(p, i))
  BY <1>6, <1>8, <1>9, <1>10, ElementOfSeq DEF StackInv
<1>12. Top(Walkers(p, o, u)[i - 1]) = s[Len(c) + 1]
  BY <1>1, <1>8 DEF Top, Last
<1> QED BY <1>11, <1>12

----------------------------------------------------------------------------
(***************************************************************************)
(* What the candidates are.                                                *)
(***************************************************************************)
\* The insert is of an error of the function around the defer at d.
FromDefer(p, d, ins) ==
  /\ p[d].k = "defer"
  /\ ins.k = "wrap" /\ p[ins.at].k = "assign"
  /\ ins.at \in 1 .. Len(p) /\ d \in ToSet(OpenAt(p, ins.at))
  /\ IF Len(p[ins.at].lhs) = Len(p[ins.at].rhs) THEN ins.n = 1
     ELSE ins.expr = 1 /\ ins.n = Len(p[ins.at].lhs)
  /\ ins = [k |-> "wrap", at |-> ins.at, expr |-> ins.expr, n |-> ins.n]
  /\ p[ins.at].lhs[IF ins.n = 1 THEN ins.expr ELSE ins.n] \in NamedErrors(p, EnclosingFunc(p, d))

LEMMA DeferCandidate ==
  ASSUME NEW p, IsFile(p), NEW o, NEW u, NEW i \in 1 .. Len(p), p[i].k # "return",
         NEW ins \in Candidates(Top(Walkers(p, o, u)[i - 1]), p, i, o)
  PROVE  FromDefer(p, i, ins)
<1>1. PICK v : v = Top(Walkers(p, o, u)[i - 1])
  OBVIOUS
<1>2. p[i].k = "defer" /\ ins \in Needed(p, DeferCandidates(v, p, i))
  BY <1>1 DEF Candidates
<1>3. PICK a \in Inside(p, i) : ins \in DeferredWraps(p[a], a, v.objs)
  BY <1>2 DEF Needed, DeferCandidates
<1>4. Len(p) \in Nat
  BY OpenInFile
<1>5. a \in 1 .. Len(p) /\ p[a].k = "assign" /\ i \in ToSet(OpenAt(p, a))
  BY <1>3, <1>4 DEF Inside
<1>6. i \in 2 .. Len(p)
  <2>1. p[1].k = "func"
    BY DEF IsFile
  <2> QED BY <1>2, <1>4, <2>1
<1>7. KnowsFunc(v, p, EnclosingFunc(p, i))
  BY <1>1, <1>6, TopKnows
<1>8. \A x \in v.objs : x \in NamedErrors(p, EnclosingFunc(p, i))
  BY <1>7 DEF KnowsFunc
<1>9. CASE Len(p[a].lhs) = Len(p[a].rhs)
  <2>1. PICK j \in 1 .. Len(p[a].lhs) : ins = WrapInsert(a, j, 1) /\ p[a].lhs[j] \in v.objs
    BY <1>3, <1>9 DEF DeferredWraps
  <2>2. ins.k = "wrap" /\ ins.at = a /\ ins.expr = j /\ ins.n = 1
    BY <2>1 DEF WrapInsert
  <2>3. ins = [k |-> "wrap", at |-> ins.at, expr |-> ins.expr, n |-> ins.n]
    BY <2>1, <2>2 DEF WrapInsert
  <2> QED BY <1>2, <1>5, <1>8, <1>9, <2>1, <2>2, <2>3 DEF FromDefer
<1>10. CASE Len(p[a].lhs) # Len(p[a].rhs)
  <2>1. /\ ins = WrapInsert(a, 1, Len(p[a].lhs))
        /\ Len(p[a].lhs) \in {j \in 1 .. Len(p[a].lhs) : p[a].lhs[j] \in v.objs}
    BY <1>3, <1>10 DEF DeferredWraps
  <2>2. ins.k = "wrap" /\ ins.at = a /\ ins.expr = 1 /\ ins.n = Len(p[a].lhs)
    BY <2>1 DEF WrapInsert
  <2>3. ins = [k |-> "wrap", at |-> ins.at, expr |-> ins.expr, n |-> ins.n]
    BY <2>1, <2>2 DEF WrapInsert
  <2>4. p[a].lhs[Len(p[a].lhs)] \in v.objs
    BY <2>1
  <2>5. p[a].lhs[IF ins.n = 1 THEN ins.expr ELSE ins.n] = p[a].lhs[Len(p[a].lhs)]
    BY <2>2
  <2> QED BY <1>2, <1>5, <1>8, <1>10, <2>2, <2>3, <2>4, <2>5 DEF FromDefer
<1> QED BY <1>9, <1>10

\* What may be inserted at a return of a function with this signature.
AtReturn(p, i, o, ins) ==
  LET f == EnclosingFunc(p, i)
      sig == p[f].sig
  IN  /\ Traced(sig)
      /\ \/ \E j \in ErrorIndices(sig) : ins = WrapInsert(i, j, 1)
         \/ /\ ErrorIndices(sig) = {Len(sig.results)} /\ Len(sig.results) > 1
            /\ \/ ins = [k |-> "block", at |-> i, n |-> Len(sig.results)]
               \/ ~ o.NoWrapN /\ ~ (Len(sig.results) > 6) /\ ins = WrapInsert(i, 1, Len(sig.results))
         \/ /\ ins = [k |-> "assign", at |-> i, names |-> ins.names]
            /\ ins.names \subseteq NamedErrors(p, f)

LEMMA ReturnCandidate ==
  ASSUME NEW p, IsFile(p), NEW o, NEW u, NEW i \in 1 .. Len(p), p[i].k = "return",
         NEW ins \in Candidates(Top(Walkers(p, o, u)[i - 1]), p, i, o)
  PROVE  AtReturn(p, i, o, ins)
<1>1. PICK v : v = Top(Walkers(p, o, u)[i - 1])
  OBVIOUS
<1>2. ins \in ReturnCandidates(v, p, i, o)
  BY <1>1 DEF Candidates, Needed
<1>3. v.indices # {}
  BY <1>2 DEF ReturnCandidates
<1>4. i \in 2 .. Len(p)
  <2>1. p[1].k = "func" /\ Len(p) \in Nat
    BY OpenInFile DEF IsFile
  <2> QED BY <2>1
<1>5. PICK f : f = EnclosingFunc(p, i)
  OBVIOUS
<1>6. KnowsFunc(v, p, f)
  BY <1>1, <1>4, <1>5, TopKnows
<1>7. /\ Traced(p[f].sig)
      /\ v.indices = ErrorIndices(p[f].sig)
      /\ v.objs = NamedErrors(p, f) /\ v.n = Len(p[f].sig.results)
  BY <1>3, <1>6 DEF KnowsFunc
<1>8. CASE p[i].results = << >>
  <2>1. ins \in NakedCandidates(v, i)
    BY <1>2, <1>3, <1>8 DEF ReturnCandidates
  <2>2. ins = [k |-> "assign", at |-> i, names |-> v.objs \ v.wrapped]
    BY <2>1 DEF NakedCandidates
  <2>3. ins = [k |-> "assign", at |-> i, names |-> ins.names] /\ ins.names \subseteq NamedErrors(p, f)
    BY <1>7, <2>2
  <2> QED BY <1>5, <1>7, <2>3 DEF AtReturn
<1>9. CASE p[i].results # << >> /\ Len(p[i].results) = 1 /\ v.n > 1
  <2>1. ins \in CallCandidates(v, p, i, o)
    BY <1>2, <1>3, <1>9 DEF ReturnCandidates
  <2>2. /\ v.indices = {v.n}
        /\ \/ ins = [k |-> "block", at |-> i, n |-> v.n]
           \/ ~ o.NoWrapN /\ ~ (v.n > 6) /\ ins = WrapInsert(i, 1, v.n)
    BY <2>1 DEF CallCandidates
  <2> QED BY <1>5, <1>7, <1>9, <2>2 DEF AtReturn
<1>10. CASE p[i].results # << >> /\ ~ (Len(p[i].results) = 1 /\ v.n > 1)
  <2>1. \E j \in v.indices : ins = WrapInsert(i, j, 1)
    BY <1>2, <1>3, <1>10 DEF ReturnCandidates
  <2> QED BY <1>5, <1>7, <2>1 DEF AtReturn
<1> QED BY <1>8, <1>9, <1>10

LEMMA ReturnInsertAt ==
  ASSUME NEW p, NEW i, NEW o, NEW ins, AtReturn(p, i, o, ins)
  PROVE  ins.at = i
<1>1. \A k, j, n : WrapInsert(k, j, n).at = k
  BY DEF WrapInsert
<1> QED BY <1>1 DEF AtReturn

\* Every insert of a walk is one at a return, or of a deferred literal.
LEMMA InsertKinds ==
  ASSUME NEW p, IsFile(p), NEW o, NEW u, NEW n \in 0 .. Len(p),
         NEW ins \in BagToSet(Walkers(p, o, u)[n].inserts)
  PROVE  \/ /\ ins.at \in 1 .. n /\ p[ins.at].k = "return"
            /\ AtReturn(p, ins.at, o, ins)
            /\ ins \in Candidates(Top(Walkers(p, o, u)[ins.at - 1]), p, ins.at, o)
         \/ \E d \in 1 .. n : p[d].k # "return" /\ FromDefer(p, d, ins)
<1>1. PICK i \in 1 .. n : ins \in Candidates(Top(Walkers(p, o, u)[i - 1]), p, i, o)
  BY FilesArePrograms, InsertsComeFrom
<1>2. i \in 1 .. Len(p)
  BY OpenInFile
<1>3. CASE p[i].k = "return"
  <2>1. AtReturn(p, i, o, ins)
    BY <1>1, <1>2, <1>3, ReturnCandidate
  <2>2. ins.at = i
    BY <2>1, ReturnInsertAt
  <2> QED BY <1>1, <1>3, <2>1, <2>2
<1>4. CASE p[i].k # "return"
  BY <1>1, <1>2, <1>4, DeferCandidate
<1> QED BY <1>3, <1>4

LEMMA SignatureOf ==
  ASSUME NEW p, IsFile(p), NEW i \in 1 .. Len(p) + 1, OpenAt(p, i) # << >>
  PROVE  /\ EnclosingFunc(p, i) \in 1 .. Len(p)
         /\ EnclosingFunc(p, i) < i
         /\ p[EnclosingFunc(p, i)].sig \in Signatures
         /\ Len(p[EnclosingFunc(p, i)].sig.results) \in Nat
         /\ ErrorIndices(p[EnclosingFunc(p, i)].sig) \subseteq Nat
<1>1. PICK f : f = EnclosingFunc(p, i)
  OBVIOUS
<1>2. f \in 1 .. i - 1 /\ IsFunc(p[f]) /\ Len(p) \in Nat
  BY <1>1, EnclosingIsInnermost, OpenInFile
<1>3. f \in 1 .. Len(p) /\ f < i
  BY <1>2
<1>4. p[f] \in SyntaxNodes
  BY <1>3, OpenInFile
<1>5. p[f].sig \in Signatures
  BY <1>2, <1>4 DEF SyntaxNodes, IsFunc
<1>6. Len(p[f].sig.results) \in Nat
  BY <1>5, LenProperties DEF Signatures
<1>7. ErrorIndices(p[f].sig) \subseteq Nat
  BY <1>6 DEF ErrorIndices
<1> QED BY <1>1, <1>3, <1>5, <1>6, <1>7

LEMMA WalkWrapsWithWrapN ==
  ASSUME NEW p, IsFile(p), NEW o, NEW u,
         NEW ins \in BagToSet(Walkers(p, o, u)[Len(p)].inserts),
         ins.k = "wrap", p[ins.at].k = "return"
  PROVE  ins.n <= 6 /\ (o.NoWrapN => ins.n = 1)
<1>1. Len(p) \in 0 .. Len(p)
  BY OpenInFile
<1>2. ins.at \in 1 .. Len(p) /\ AtReturn(p, ins.at, o, ins)
  BY <1>1, InsertKinds DEF FromDefer
<1>3. PICK i \in 1 .. Len(p) : i = ins.at
  BY <1>2
<1>4. OpenAt(p, i) # << >> /\ i \in 1 .. Len(p) + 1
  <2>1. i # 1 /\ Len(p) \in Nat
    BY <1>3, OpenInFile DEF IsFile
  <2> QED BY <2>1 DEF IsFile
<1>5. PICK m \in Nat : m = Len(p[EnclosingFunc(p, i)].sig.results)
  BY <1>4, SignatureOf
<1>6. \A j, n : WrapInsert(i, j, n).n = n
  BY DEF WrapInsert
<1>7. ins.n = 1 \/ (~ o.NoWrapN /\ ~ (m > 6) /\ ins.n = m)
  BY <1>2, <1>3, <1>5, <1>6 DEF AtReturn
<1> QED BY <1>5, <1>7

LEMMA WalkWrapsErrorsOnly ==
  ASSUME NEW p, IsFile(p), NEW o, NEW u,
         NEW ins \in BagToSet(Walkers(p, o, u)[Len(p)].inserts)
  PROVE  IF p[ins.at].k = "return" THEN ReturnsError(p, ins) ELSE AssignsDeferredError(p, ins)
<1>1. Len(p) \in 0 .. Len(p)
  BY OpenInFile
<1>2. CASE ins.at \in 1 .. Len(p) /\ p[ins.at].k = "return" /\ AtReturn(p, ins.at, o, ins)
  <2>1. PICK i \in 1 .. Len(p) : i = ins.at
    BY <1>2
  <2>2. OpenAt(p, i) # << >> /\ i \in 1 .. Len(p) + 1
    <3>1. i # 1 /\ Len(p) \in Nat
      BY <1>2, <2>1, OpenInFile DEF IsFile
    <3> QED BY <3>1 DEF IsFile
  <2>3. PICK f : f = EnclosingFunc(p, i)
    OBVIOUS
  <2>4. PICK sig : sig = p[f].sig
    OBVIOUS
  <2>5. PICK m \in Nat : m = Len(sig.results)
    BY <2>2, <2>3, <2>4, SignatureOf
  <2>6. \A j, n : WrapInsert(i, j, n).n = n /\ WrapInsert(i, j, n).k = "wrap" /\ WrapInsert(i, j, n).expr = j
    BY DEF WrapInsert
  <2>7. Traced(sig)
    BY <1>2, <2>1, <2>3, <2>4 DEF AtReturn
  <2>8. \/ ins.k = "wrap" /\ ins.n = 1 /\ ins.expr \in ErrorIndices(sig)
        \/ ErrorIndices(sig) = {m} /\ m > 1 /\ ins.n = m /\ ins.k # "assign"
        \/ ins.k = "assign" /\ ins.names \subseteq NamedErrors(p, f)
    <3>1. CASE \E j \in ErrorIndices(sig) : ins = WrapInsert(i, j, 1)
      BY <2>6, <3>1
    <3>2. CASE /\ ErrorIndices(sig) = {m} /\ m > 1
               /\ \/ ins = [k |-> "block", at |-> i, n |-> m]
                  \/ ~ o.NoWrapN /\ ~ (m > 6) /\ ins = WrapInsert(i, 1, m)
      <4>1. ins.n = m /\ ins.k # "assign"
        BY <2>6, <3>2
      <4> QED BY <3>2, <4>1
    <3>3. CASE /\ ins = [k |-> "assign", at |-> i, names |-> ins.names]
               /\ ins.names \subseteq NamedErrors(p, f)
      <4>1. ins.k = "assign"
        BY <3>3
      <4> QED BY <3>3, <4>1
    <3> QED BY <1>2, <2>1, <2>3, <2>4, <2>5, <3>1, <3>2, <3>3 DEF AtReturn
  <2>9. ReturnsError(p, ins)
    <3>1. ins.n = m /\ m > 1 => ins.n # 1
      OBVIOUS
    <3>2. CASE ins.k = "wrap" /\ ins.n = 1
      BY <2>1, <2>3, <2>4, <2>7, <2>8, <3>1, <3>2 DEF ReturnsError
    <3>3. CASE ~ (ins.k = "wrap" /\ ins.n = 1) /\ ins.k = "assign"
      <4>1. ins.names \subseteq NamedErrors(p, f)
        BY <2>8, <3>3
      <4> QED BY <2>1, <2>3, <2>4, <2>7, <3>3, <4>1 DEF ReturnsError
    <3>4. CASE ~ (ins.k = "wrap" /\ ins.n = 1) /\ ins.k # "assign"
      BY <2>1, <2>3, <2>4, <2>5, <2>7, <2>8, <3>4 DEF ReturnsError
    <3> QED BY <3>2, <3>3, <3>4
  <2> QED BY <1>2, <2>9
<1>3. CASE \E d \in 1 .. Len(p) : p[d].k # "return" /\ FromDefer(p, d, ins)
  <2>1. PICK d \in 1 .. Len(p) : FromDefer(p, d, ins)
    BY <1>3
  <2>2. p[ins.at].k = "assign"
    BY <2>1 DEF FromDefer
  <2>3. AssignsDeferredError(p, ins)
    BY <2>1 DEF FromDefer, AssignsDeferredError
  <2> QED BY <2>2, <2>3
<1> QED BY <1>1, <1>2, <1>3, InsertKinds

----------------------------------------------------------------------------
(***************************************************************************)
(* Optouts: two walks of a file, with them and without, keep the same      *)
(* stack, and so have the same candidates.                                 *)
(***************************************************************************)
OptoutInv(p, o, u, i) ==
  LET w == Walkers(p, o, u)[i]
      x == Walkers(p, o, {})[i]
  IN  /\ w.stack = x.stack
      /\ BagToSet(w.inserts) = NotIn(p, BagToSet(x.inserts), u)
      /\ \A ins \in BagToSet(x.inserts) : LineOf(p, ins) \in u => LineOf(p, ins) \in w.used

LEMMA OptoutsLeaveOut ==
  ASSUME NEW p, IsProgram(p), NEW o, NEW u
  PROVE  \A i \in 0 .. Len(p) : OptoutInv(p, o, u, i)
<1> DEFINE W == Walkers(p, o, u)
           X == Walkers(p, o, {})
           S == {i \in 0 .. Len(p) : OptoutInv(p, o, u, i)}
<1>0. Len(p) \in Nat
  BY DEF IsProgram
<1>1. 0 \in S
  <2>1. W[0].stack = X[0].stack /\ BagToSet(W[0].inserts) = {} /\ BagToSet(X[0].inserts) = {}
    BY WalkBegins
  <2>2. OptoutInv(p, o, u, 0)
    BY <2>1 DEF OptoutInv, NotIn
  <2> QED BY <1>0, <2>2
<1>2. ASSUME NEW i \in 1 .. Len(p), i - 1 \in S PROVE i \in S
  <2>1. PICK C : C = Candidates(Top(W[i - 1]), p, i, o)
    OBVIOUS
  <2>2. /\ W[i - 1].stack = X[i - 1].stack
        /\ BagToSet(W[i - 1].inserts) = NotIn(p, BagToSet(X[i - 1].inserts), u)
        /\ \A ins \in BagToSet(X[i - 1].inserts) :
             LineOf(p, ins) \in u => LineOf(p, ins) \in W[i - 1].used
    BY <1>2 DEF OptoutInv
  <2>3. C = Candidates(Top(X[i - 1]), p, i, o)
    BY <2>1, <2>2 DEF Top
  <2>4. /\ W[i].stack = StackAfter(W[i - 1].stack, p, i)
        /\ BagToSet(W[i].inserts) = BagToSet(W[i - 1].inserts) \union NotIn(p, C, u)
        /\ W[i - 1].used \subseteq W[i].used
        /\ \A ins \in In(p, C, u) : LineOf(p, ins) \in W[i].used
    <3>1. LET w == W[i - 1]
              x == W[i]
              D == Candidates(Top(w), p, i, o)
          IN  /\ IsABag(w.inserts)
              /\ x.stack = StackAfter(w.stack, p, i)
              /\ x.inserts = w.inserts (+) SetToBag(NotIn(p, D, u))
              /\ BagToSet(x.inserts) = BagToSet(w.inserts) \union NotIn(p, D, u)
              /\ w.used \subseteq x.used
              /\ \A ins \in In(p, D, u) : LineOf(p, ins) \in x.used
      BY WalkStep
    <3> HIDE DEF W
    <3> QED BY <2>1, <3>1
  <2>5. /\ X[i].stack = StackAfter(X[i - 1].stack, p, i)
        /\ BagToSet(X[i].inserts) = BagToSet(X[i - 1].inserts) \union NotIn(p, C, {})
    BY <2>3, WalkStep
  <2>6. NotIn(p, C, {}) = C
    BY DEF NotIn
  <2> HIDE DEF W, X
  <2>7. BagToSet(W[i].inserts) = NotIn(p, BagToSet(X[i].inserts), u)
    BY <2>2, <2>4, <2>5, <2>6 DEF NotIn
  <2>8. \A ins \in BagToSet(X[i].inserts) : LineOf(p, ins) \in u => LineOf(p, ins) \in W[i].used
    BY <2>2, <2>4, <2>5, <2>6 DEF In
  <2>9. W[i].stack = X[i].stack
    BY <2>2, <2>4, <2>5
  <2>10. OptoutInv(p, o, u, i)
    BY <2>7, <2>8, <2>9 DEF OptoutInv, W, X
  <2> QED BY <2>10
<1> HIDE DEF S
<1>3. 0 .. Len(p) \subseteq S
  BY <1>0, <1>1, <1>2, UpTo
<1> QED BY <1>3 DEF S
----------------------------------------------------------------------------
(***************************************************************************)
(* Nothing is a candidate twice.  Deferred literals in one another defer   *)
(* assignments to the errors of different functions.                       *)
(***************************************************************************)
\* What is open around a node that is open is open too, and further out.
LEMMA OpenNested ==
  ASSUME NEW p, IsFile(p), NEW a \in 1 .. Len(p),
         NEW d \in ToSet(OpenAt(p, a)), NEW e \in ToSet(OpenAt(p, a)), d < e
  PROVE  d \in ToSet(OpenAt(p, e)) /\ e \in 1 .. Len(p) /\ d \in 1 .. Len(p)
<1>1. PICK c : c = OpenAt(p, a)
  OBVIOUS
<1>2. Len(p) \in Nat
  BY OpenInFile
<1>3. a - 1 \in 0 .. Len(p) /\ c = Opened(p)[a - 1]
  BY <1>1, <1>2 DEF OpenAt
<1>4. /\ c \in Seq(Nat)
      /\ \A x \in 1 .. Len(c) : c[x] \in 1 .. a - 1 /\ Opens(p[c[x]])
      /\ \A x, y \in 1 .. Len(c) : x < y => c[x] < c[y]
      /\ \A x \in 1 .. Len(c) :
           /\ Len(Opened(p)[c[x]]) = x
           /\ \A y \in 1 .. x : Opened(p)[c[x]][y] = c[y]
  <2>1. OpenInv(p, a - 1)
    BY <1>2, <1>3, OpenAlways
  <2> QED BY <1>3, <2>1 DEF OpenInv
<1>5. Len(c) \in Nat /\ DOMAIN c = 1 .. Len(c)
  BY <1>4, LenProperties
<1>6. PICK x \in 1 .. Len(c) : d = c[x]
  BY <1>1, <1>5 DEF ToSet
<1>7. PICK y \in 1 .. Len(c) : e = c[y]
  BY <1>1, <1>5 DEF ToSet
<1>8. x < y
  <2>1. y < x => e < d
    BY <1>4, <1>6, <1>7
  <2>2. y = x => e = d
    BY <1>6, <1>7
  <2>3. d \in 1 .. a - 1 /\ e \in 1 .. a - 1
    BY <1>4, <1>6, <1>7
  <2> QED BY <1>5, <2>1, <2>2, <2>3
<1>9. e \in 1 .. Len(p) /\ d \in 1 .. Len(p) /\ Opens(p[e])
  <2>1. d \in 1 .. a - 1 /\ e \in 1 .. a - 1 /\ Opens(p[e])
    BY <1>4, <1>6, <1>7
  <2> QED BY <1>2, <2>1
<1>10. PICK s : s = Opened(p)[e - 1]
  OBVIOUS
<1>11. e - 1 \in 0 .. Len(p)
  BY <1>9
<1>12. s \in Seq(Nat)
  BY <1>2, <1>10, <1>11, OpenAlways DEF OpenInv
<1>13. Opened(p)[e] = Append(s, e)
  BY <1>2, <1>9, <1>10, OpenedUnfold
<1>14. Len(s) + 1 = y /\ Len(s) \in Nat /\ DOMAIN s = 1 .. Len(s)
  <2>1. Len(Append(s, e)) = Len(s) + 1
    BY <1>9, <1>12, AppendProperties
  <2>2. Len(Opened(p)[e]) = y
    BY <1>4, <1>7
  <2> QED BY <1>12, <1>13, <2>1, <2>2, LenProperties
<1>15. x \in 1 .. Len(s)
  BY <1>8, <1>14
<1>16. Append(s, e)[x] = s[x]
  BY <1>9, <1>12, <1>15, AppendProperties
<1>17. x \in 1 .. y
  BY <1>8
<1>18. s[x] = d
  BY <1>4, <1>6, <1>7, <1>13, <1>16, <1>17
<1>19. OpenAt(p, e) = s
  BY <1>10 DEF OpenAt
<1>20. d \in ToSet(s)
  BY <1>14, <1>15, <1>18 DEF ToSet
<1> QED BY <1>9, <1>19, <1>20

\* A named error is one of the function opened at its line.
LEMMA NamedErrorsOf ==
  ASSUME NEW p, NEW f, NEW x \in NamedErrors(p, f)
  PROVE  x[1] = p[f].line
BY DEF NamedErrors, Obj

LEMMA DefersApart ==
  ASSUME NEW p, IsFile(p), NEW d \in 1 .. Len(p), NEW e \in 1 .. Len(p), NEW ins,
         FromDefer(p, d, ins), FromDefer(p, e, ins)
  PROVE  ~ (d < e)
<1> SUFFICES ASSUME d < e PROVE FALSE
  OBVIOUS
<1>1. PICK a \in 1 .. Len(p) : a = ins.at
  BY DEF FromDefer
<1>2. d \in ToSet(OpenAt(p, a)) /\ e \in ToSet(OpenAt(p, a)) /\ IsFunc(p[d]) /\ IsFunc(p[e])
  BY <1>1 DEF FromDefer, IsFunc
<1>3. d \in ToSet(OpenAt(p, e))
  BY <1>2, OpenNested
<1>4. PICK x : x \in NamedErrors(p, EnclosingFunc(p, d)) /\ x \in NamedErrors(p, EnclosingFunc(p, e))
  BY DEF FromDefer
<1>5. p[1].k = "func" /\ p[d].k = "defer" /\ p[e].k = "defer" /\ Len(p) \in Nat
  BY OpenInFile DEF FromDefer, IsFile
<1>6. d \in 2 .. Len(p) /\ e \in 2 .. Len(p)
  BY <1>5
<1>7. OpenAt(p, d) # << >> /\ OpenAt(p, e) # << >>
  BY <1>6 DEF IsFile
<1>8. d \in 1 .. Len(p) + 1 /\ e \in 1 .. Len(p) + 1
  BY <1>5
<1>9. EnclosingFunc(p, d) \in 1 .. Len(p) /\ EnclosingFunc(p, d) < d /\ EnclosingFunc(p, e) \in 1 .. Len(p)
  BY <1>7, <1>8, SignatureOf
<1>10. p[EnclosingFunc(p, d)].line = EnclosingFunc(p, d) /\ p[EnclosingFunc(p, e)].line = EnclosingFunc(p, e)
  BY <1>9, OpenInFile
<1>11. EnclosingFunc(p, d) = EnclosingFunc(p, e)
  BY <1>4, <1>10, NamedErrorsOf
<1>12. d <= EnclosingFunc(p, e)
  <2> DEFINE F == {j \in ToSet(OpenAt(p, e)) : IsFunc(p[j])}
  <2>1. d \in F
    BY <1>2, <1>3
  <2>2. F \subseteq 0 .. e
    <3>1. e - 1 \in 0 .. Len(p) /\ OpenAt(p, e) = Opened(p)[e - 1]
      BY <1>5, <1>6 DEF OpenAt
    <3>2. OpenInv(p, e - 1)
      BY <1>5, <3>1, OpenAlways
    <3>3. OpenAt(p, e) \in Seq(Nat) /\ \A y \in 1 .. Len(OpenAt(p, e)) : OpenAt(p, e)[y] \in 1 .. e - 1
      BY <3>1, <3>2 DEF OpenInv
    <3>4. DOMAIN OpenAt(p, e) = 1 .. Len(OpenAt(p, e))
      BY <3>3, LenProperties
    <3>5. \A j \in ToSet(OpenAt(p, e)) : j \in 1 .. e - 1
      BY <3>3, <3>4 DEF ToSet
    <3> QED BY <3>5
  <2>3. EnclosingFunc(p, e) = Max(F)
    BY DEF EnclosingFunc
  <2> HIDE DEF F
  <2>4. \A y \in F : y <= Max(F)
    <3>1. e \in Nat
      BY <1>5
    <3> QED BY <2>1, <2>2, <3>1, GreatestNumber
  <2> QED BY <2>1, <2>3, <2>4
<1> QED BY <1>9, <1>11, <1>12

\* The candidates of two nodes are apart.
LEMMA CandidatesApart ==
  ASSUME NEW p, IsFile(p), NEW o, NEW u, NEW i \in 1 .. Len(p), NEW j \in 1 .. Len(p), NEW ins,
         ins \in Candidates(Top(Walkers(p, o, u)[i - 1]), p, i, o),
         ins \in Candidates(Top(Walkers(p, o, u)[j - 1]), p, j, o)
  PROVE  i = j
<1> DEFINE Cand(k) == Candidates(Top(Walkers(p, o, u)[k - 1]), p, k, o)
<1>0. ASSUME NEW k \in 1 .. Len(p), ins \in Cand(k)
      PROVE  IF p[k].k = "return" THEN ins.at = k ELSE FromDefer(p, k, ins)
  <2>1. CASE p[k].k = "return"
    <3>1. AtReturn(p, k, o, ins)
      BY <1>0, <2>1, ReturnCandidate
    <3>2. ins.at = k
      BY <3>1, ReturnInsertAt
    <3> QED BY <2>1, <3>2
  <2>2. CASE p[k].k # "return"
    BY <1>0, <2>2, DeferCandidate
  <2> QED BY <2>1, <2>2
<1>1. CASE p[i].k = "return" /\ p[j].k = "return"
  <2>1. ins.at = i /\ ins.at = j
    BY <1>0, <1>1
  <2> QED BY <2>1
<1>2. CASE p[i].k = "return" /\ p[j].k # "return"
  <2>1. ins.at = i /\ FromDefer(p, j, ins)
    BY <1>0, <1>2
  <2> QED BY <1>2, <2>1 DEF FromDefer
<1>3. CASE p[i].k # "return" /\ p[j].k = "return"
  <2>1. ins.at = j /\ FromDefer(p, i, ins)
    BY <1>0, <1>3
  <2> QED BY <1>3, <2>1 DEF FromDefer
<1>4. CASE p[i].k # "return" /\ p[j].k # "return"
  <2>1. FromDefer(p, i, ins) /\ FromDefer(p, j, ins)
    BY <1>4, DeferCandidate
  <2>2. ~ (i < j) /\ ~ (j < i)
    BY <2>1, DefersApart
  <2> QED BY <2>2
<1> QED BY <1>1, <1>2, <1>3, <1>4

LEMMA WalkInsertsOnce ==
  ASSUME NEW p, IsFile(p), NEW o, NEW u
  PROVE  LET b == Walkers(p, o, u)[Len(p)].inserts IN \A ins \in BagToSet(b) : b[ins] = 1
<1> DEFINE B(i) == Walkers(p, o, u)[i].inserts
           S == {i \in 0 .. Len(p) : \A ins \in BagToSet(B(i)) : B(i)[ins] = 1}
<1>1. Len(p) \in Nat /\ IsProgram(p)
  BY OpenInFile, FilesArePrograms
<1>2. 0 \in S
  <2>1. BagToSet(B(0)) = {}
    BY <1>1, WalkBegins
  <2> QED BY <1>1, <2>1
<1>3. ASSUME NEW i \in 1 .. Len(p), i - 1 \in S PROVE i \in S
  <2>1. PICK C : C = NotIn(p, Candidates(Top(Walkers(p, o, u)[i - 1]), p, i, o), u)
    OBVIOUS
  <2>2. PICK b : b = B(i - 1)
    OBVIOUS
  <2>3. IsABag(b) /\ B(i) = b (+) SetToBag(C)
    <3>1. LET w == Walkers(p, o, u)[i - 1]
              D == Candidates(Top(w), p, i, o)
          IN  IsABag(w.inserts) /\ B(i) = w.inserts (+) SetToBag(NotIn(p, D, u))
      BY <1>1, WalkStep
    <3> QED BY <2>1, <2>2, <3>1
  <2>4. /\ BagToSet(B(i)) = BagToSet(b) \union C
        /\ \A x \in BagToSet(b) \union C :
             B(i)[x] = (IF x \in BagToSet(b) THEN b[x] ELSE 0) + (IF x \in C THEN 1 ELSE 0)
    BY <2>3, InsertsAdded
  <2>5. ASSUME NEW x, x \in BagToSet(b), x \in C PROVE FALSE
    <3>1. i - 1 \in 0 .. Len(p) /\ x \in BagToSet(Walkers(p, o, u)[i - 1].inserts)
      BY <1>1, <2>2, <2>5
    <3>2. PICK j \in 1 .. i - 1 : x \in Candidates(Top(Walkers(p, o, u)[j - 1]), p, j, o)
      BY <1>1, <3>1, InsertsComeFrom
    <3>3. x \in Candidates(Top(Walkers(p, o, u)[i - 1]), p, i, o)
      BY <2>1, <2>5 DEF NotIn
    <3>4. j \in 1 .. Len(p) /\ j # i
      BY <1>1
    <3> QED BY <3>2, <3>3, <3>4, CandidatesApart
  <2>6. \A x \in BagToSet(b) : b[x] = 1
    BY <1>3, <2>2
  <2> HIDE DEF B
  <2>7. \A x \in BagToSet(B(i)) : B(i)[x] = 1
    BY <2>4, <2>5, <2>6
  <2> QED BY <2>7
<1> HIDE DEF S
<1>4. 0 .. Len(p) \subseteq S
  BY <1>1, <1>2, <1>3, UpTo
<1>5. Len(p) \in S
  BY <1>1, <1>4
<1> QED BY <1>5 DEF S

LEMMA WalkWrapsApart ==
  ASSUME NEW p, IsFile(p), NEW o, NEW u,
         NEW a \in BagToSet(Walkers(p, o, u)[Len(p)].inserts),
         NEW b \in BagToSet(Walkers(p, o, u)[Len(p)].inserts),
         a # b, a.at = b.at
  PROVE  a.k = "wrap" /\ b.k = "wrap" /\ a.expr # b.expr
<1>1. Len(p) \in 0 .. Len(p)
  BY OpenInFile
<1>2. CASE p[a.at].k = "return"
  <2>1. PICK i \in 1 .. Len(p) : i = a.at
    BY <1>1, <1>2, InsertKinds DEF FromDefer
  <2>2. PICK v : v = Top(Walkers(p, o, u)[i - 1])
    OBVIOUS
  <2>3. a \in Candidates(v, p, i, o) /\ b \in Candidates(v, p, i, o)
    <3>1. a \in Candidates(Top(Walkers(p, o, u)[a.at - 1]), p, a.at, o)
      BY <1>1, <1>2, InsertKinds DEF FromDefer
    <3>2. b \in Candidates(Top(Walkers(p, o, u)[b.at - 1]), p, b.at, o)
      BY <1>1, <1>2, InsertKinds DEF FromDefer
    <3> QED BY <2>1, <2>2, <3>1, <3>2
  <2>4. a \in ReturnCandidates(v, p, i, o) /\ b \in ReturnCandidates(v, p, i, o)
    BY <1>2, <2>1, <2>3 DEF Candidates, Needed
  <2>5. \A j, n : WrapInsert(i, j, n).k = "wrap" /\ WrapInsert(i, j, n).expr = j
    BY DEF WrapInsert
  <2>6. ReturnCandidates(v, p, i, o) = {WrapInsert(i, j, 1) : j \in v.indices}
    <3>1. ASSUME NEW S, \E x : S \subseteq {x} PROVE ~ (a \in S /\ b \in S)
      BY <3>1
    <3>2. \E x : NakedCandidates(v, i) \subseteq {x}
      BY DEF NakedCandidates
    <3>3. \E x : CallCandidates(v, p, i, o) \subseteq {x}
      BY DEF CallCandidates
    <3>4. \E x : {} \subseteq {x}
      OBVIOUS
    <3> QED BY <2>4, <3>1, <3>2, <3>3, <3>4 DEF ReturnCandidates
  <2>7. PICK j, k : a = WrapInsert(i, j, 1) /\ b = WrapInsert(i, k, 1)
    BY <2>4, <2>6
  <2> QED BY <2>5, <2>7
<1>3. CASE p[a.at].k # "return"
  <2>1. PICK d : FromDefer(p, d, a)
    BY <1>1, <1>3, InsertKinds
  <2>2. PICK e : FromDefer(p, e, b)
    BY <1>1, <1>3, InsertKinds
  <2>3. a.k = "wrap" /\ b.k = "wrap"
    BY <2>1, <2>2 DEF FromDefer
  <2>4. a.n = b.n
    BY <2>1, <2>2 DEF FromDefer
  <2>5. /\ a = [k |-> "wrap", at |-> a.at, expr |-> a.expr, n |-> a.n]
        /\ b = [k |-> "wrap", at |-> b.at, expr |-> b.expr, n |-> b.n]
    BY <2>1, <2>2 DEF FromDefer
  <2>6. a.expr # b.expr
    BY <2>4, <2>5
  <2> QED BY <2>3, <2>6
<1> QED BY <1>2, <1>3
----------------------------------------------------------------------------
(***************************************************************************)
(* What is written is a file.                                              *)
(***************************************************************************)
LEMMA OpenedAppend ==
  ASSUME NEW p \in Seq(SyntaxNodes), NEW node \in SyntaxNodes
  PROVE  \A i \in 0 .. Len(p) : Opened(Append(p, node))[i] = Opened(p)[i]
<1>1. PICK q : q = Append(p, node)
  OBVIOUS
<1>2. q \in Seq(SyntaxNodes) /\ Len(q) = Len(p) + 1 /\ \A i \in 1 .. Len(p) : q[i] = p[i]
  BY <1>1, AppendProperties
<1>3. Len(p) \in Nat /\ Len(q) \in Nat
  BY <1>2, LenProperties
<1> DEFINE S == {i \in 0 .. Len(p) : Opened(q)[i] = Opened(p)[i]}
<1>4. 0 \in S
  BY <1>3, OpenedUnfold
<1>5. ASSUME NEW i \in 1 .. Len(p), i - 1 \in S PROVE i \in S
  <2>1. i \in 1 .. Len(q) /\ q[i] = p[i] /\ Opened(q)[i - 1] = Opened(p)[i - 1]
    BY <1>2, <1>3, <1>5
  <2>2. Opened(q)[i] = IF Opens(q[i]) THEN Append(Opened(q)[i - 1], i)
                       ELSE IF q[i].k = "end" THEN Front(Opened(q)[i - 1])
                       ELSE Opened(q)[i - 1]
    BY <1>3, <2>1, OpenedUnfold
  <2>3. Opened(p)[i] = IF Opens(p[i]) THEN Append(Opened(p)[i - 1], i)
                       ELSE IF p[i].k = "end" THEN Front(Opened(p)[i - 1])
                       ELSE Opened(p)[i - 1]
    BY <1>3, OpenedUnfold
  <2>4. Opened(q)[i] = Opened(p)[i]
    BY <2>1, <2>2, <2>3
  <2> QED BY <2>4
<1> HIDE DEF S
<1>6. 0 .. Len(p) \subseteq S
  BY <1>3, <1>4, <1>5, UpTo
<1> QED BY <1>1, <1>6 DEF S

LEMMA FileGrows ==
  ASSUME NEW p, IsFile(p), OpenAt(p, Len(p) + 1) # << >>,
         NEW node \in SyntaxNodes, node.line = Len(p) + 1, node.k # "func"
  PROVE  IsFile(Append(p, node))
<1>1. PICK q : q = Append(p, node)
  OBVIOUS
<1>2. p \in Seq(SyntaxNodes) /\ Len(p) \in Nat /\ Len(p) >= 1
  BY OpenInFile DEF IsFile
<1>3. /\ q \in Seq(SyntaxNodes) /\ Len(q) = Len(p) + 1 /\ q # << >>
      /\ \A i \in 1 .. Len(p) : q[i] = p[i]
      /\ q[Len(p) + 1] = node
  BY <1>1, <1>2, AppendProperties
<1>4. \A i \in 1 .. Len(q) : i \in 1 .. Len(p) \/ i = Len(p) + 1
  BY <1>2, <1>3
<1>5. \A i \in 1 .. Len(q) : q[i].line = i
  BY <1>3, <1>4 DEF IsFile
<1>6. q[1].k = "func"
  BY <1>2, <1>3 DEF IsFile
<1>7. \A i \in 1 .. Len(q) : OpenAt(q, i) = OpenAt(p, i)
  <2>1. \A i \in 0 .. Len(p) : Opened(q)[i] = Opened(p)[i]
    BY <1>1, <1>2, OpenedAppend
  <2>2. \A i \in 1 .. Len(q) : i - 1 \in 0 .. Len(p)
    BY <1>2, <1>3
  <2> QED BY <2>1, <2>2 DEF OpenAt
<1>8. ASSUME NEW i \in 2 .. Len(q) PROVE OpenAt(q, i) # << >> /\ q[i].k # "func"
  <2>1. i \in 1 .. Len(q)
    OBVIOUS
  <2>2. CASE i \in 1 .. Len(p)
    <3>1. i \in 2 .. Len(p)
      BY <2>2
    <3> QED BY <1>3, <1>7, <2>1, <3>1 DEF IsFile
  <2>3. CASE i = Len(p) + 1
    BY <1>3, <1>7, <2>1, <2>3
  <2> QED BY <1>4, <2>1, <2>2, <2>3
<1> QED BY <1>1, <1>3, <1>5, <1>6, <1>8 DEF IsFile

LEMMA SomeExprs ==
  /\ <<"call">> \in Seq(Exprs) /\ <<"wrap">> \in Seq(Exprs) /\ <<"ident">> \in Seq(Exprs)
  /\ <<"ident", "call">> \in Seq(Exprs)
<1>1. "call" \in Exprs /\ "wrap" \in Exprs /\ "ident" \in Exprs
  BY DEF Exprs
<1>2. \A S : \A x, y \in S : <<x>> \in Seq(S) /\ <<x, y>> \in Seq(S)
  OBVIOUS
<1> QED BY <1>1, <1>2

LEMMA ReturnsType ==
  ASSUME NEW sig \in Signatures, NEW r \in Returns(sig)
  PROVE  r \in Seq(Exprs)
<1>1. Len(sig.results) \in Nat
  BY LenProperties DEF Signatures
<1>2. CASE r = << >>
  BY <1>2
<1>3. CASE r \in [1 .. Len(sig.results) -> Exprs]
  BY <1>1, <1>3, SeqDef
<1>4. CASE r \in {<<"call">>, <<"wrap">>, <<"ident">>}
  BY <1>4, SomeExprs
<1> QED BY <1>2, <1>3, <1>4 DEF Returns

LEMMA NamedErrorsType ==
  ASSUME NEW p, IsFile(p), NEW f \in 1 .. Len(p), IsFunc(p[f])
  PROVE  NamedErrors(p, f) \subseteq Nat \X Nat
<1>1. p[f].sig \in Signatures /\ p[f].line \in Nat
  <2>1. p[f] \in SyntaxNodes
    BY OpenInFile
  <2> QED BY <2>1 DEF SyntaxNodes, IsFunc
<1>2. ErrorIndices(p[f].sig) \subseteq Nat
  <2>1. Len(p[f].sig.results) \in Nat
    BY <1>1, LenProperties DEF Signatures
  <2> QED BY <2>1 DEF ErrorIndices
<1> QED BY <1>1, <1>2 DEF NamedErrors, Obj

LEMMA OpenIn ==
  ASSUME NEW p, IsFile(p), NEW i \in 1 .. Len(p) + 1
  PROVE  ToSet(OpenAt(p, i)) \subseteq 1 .. Len(p)
<1>1. Len(p) \in Nat
  BY OpenInFile
<1>2. i - 1 \in 0 .. Len(p)
  BY <1>1
<1>3. PICK c : c = OpenAt(p, i)
  OBVIOUS
<1>4. c \in Seq(Nat) /\ \A x \in 1 .. Len(c) : c[x] \in 1 .. i - 1
  BY <1>1, <1>2, <1>3, OpenAlways DEF OpenInv, OpenAt
<1>5. DOMAIN c = 1 .. Len(c)
  BY <1>4, LenProperties
<1>6. \A x \in 1 .. i - 1 : x \in 1 .. Len(p)
  BY <1>1
<1> QED BY <1>3, <1>4, <1>5, <1>6 DEF ToSet

LEMMA AssignmentsType ==
  ASSUME NEW p, IsFile(p), NEW a \in Assignments(p)
  PROVE  a.lhs \in Seq(Nat \X Nat) /\ a.rhs \in Seq(Exprs)
<1> DEFINE names == UNION {NamedErrors(p, f) : f \in {j \in ToSet(OpenAt(p, Len(p) + 1)) : IsFunc(p[j])}}
<1>1. names \subseteq Nat \X Nat
  <2>1. Len(p) + 1 \in 1 .. Len(p) + 1
    BY OpenInFile
  <2>2. ToSet(OpenAt(p, Len(p) + 1)) \subseteq 1 .. Len(p)
    BY <2>1, OpenIn
  <2> QED BY <2>2, NamedErrorsType
<1>2. Other \in Nat \X Nat
  BY DEF Other
<1>3. \/ /\ a.lhs \in {<<x>> : x \in names}
         /\ a.rhs \in {<<"call">>, <<"wrap">>}
      \/ /\ a.lhs \in {<<Other, x>> : x \in names}
         /\ a.rhs \in {<<"call">>, <<"wrap">>, <<"ident", "call">>}
      \/ /\ a.lhs \in {<<x, Other>> : x \in names}
         /\ a.rhs \in {<<"call">>}
  BY DEF Assignments
<1> HIDE DEF names
<1>4. a.lhs \in Seq(Nat \X Nat)
  <2>1. \A x \in Nat \X Nat : /\ <<x>> \in Seq(Nat \X Nat)
                             /\ <<Other, x>> \in Seq(Nat \X Nat) /\ <<x, Other>> \in Seq(Nat \X Nat)
    BY <1>2
  <2> QED BY <1>1, <1>3, <2>1
<1>5. a.rhs \in Seq(Exprs)
  BY <1>3, SomeExprs
<1> QED BY <1>4, <1>5

----------------------------------------------------------------------------
(***************************************************************************)
(* The inductive invariant: what has been written is a file, and after the *)
(* run walked and output are what the tool makes of it.                    *)
(***************************************************************************)
FileInv ==
  /\ IsFile(prog)
  /\ opts \in [NoWrapN : BOOLEAN]
  /\ ReturnsFit(prog)
  /\ optouts \subseteq 1 .. Len(prog)
  /\ \/ phase = "write" /\ walked = NoRun
     \/ /\ phase = "rewritten"
        /\ OpenAt(prog, Len(prog) + 1) = << >>
        /\ walked = Walk(prog, opts, optouts)
        /\ output = Rewritten(prog, walked.inserts)

LEMMA WrittenIsFile ==
  ASSUME NEW p, IsFile(p), OpenAt(p, Len(p) + 1) # << >>,
         NEW sig, sig = p[EnclosingFunc(p, Len(p) + 1)].sig,
         NEW node,
         \/ node = [k |-> "end", line |-> Len(p) + 1]
         \/ node = [k |-> "case", line |-> Len(p) + 1]
         \/ node \in [k : {"lit", "defer"}, line : {Len(p) + 1}, sig : LitSignatures]
         \/ node \in [k : {"block", "switch"}, line : {Len(p) + 1}]
         \/ \E a \in Assignments(p) :
              node = [k |-> "assign", line |-> Len(p) + 1, lhs |-> a.lhs, rhs |-> a.rhs]
         \/ node \in [k : {"return"}, line : {Len(p) + 1}, results : Returns(sig)]
  PROVE  IsFile(Append(p, node))
<1>1. PICK line \in Nat : line = Len(p) + 1
  BY OpenInFile
<1>2. node \in SyntaxNodes /\ node.line = line /\ node.k # "func"
  <2>1. CASE node = [k |-> "end", line |-> line]
    BY <2>1 DEF SyntaxNodes
  <2>2. CASE node = [k |-> "case", line |-> line]
    BY <2>2 DEF SyntaxNodes
  <2>3. CASE node \in [k : {"lit", "defer"}, line : {line}, sig : LitSignatures]
    BY <2>3, FileAssumption DEF SyntaxNodes
  <2>4. CASE node \in [k : {"block", "switch"}, line : {line}]
    BY <2>4 DEF SyntaxNodes
  <2>5. CASE \E a \in Assignments(p) : node = [k |-> "assign", line |-> line, lhs |-> a.lhs, rhs |-> a.rhs]
    <3>1. PICK a \in Assignments(p) : node = [k |-> "assign", line |-> line, lhs |-> a.lhs, rhs |-> a.rhs]
      BY <2>5
    <3>2. a.lhs \in Seq(Nat \X Nat) /\ a.rhs \in Seq(Exprs)
      BY AssignmentsType
    <3> QED BY <3>1, <3>2 DEF SyntaxNodes
  <2>6. CASE node \in [k : {"return"}, line : {line}, results : Returns(sig)]
    <3>1. Len(p) + 1 \in 1 .. Len(p) + 1
      BY OpenInFile
    <3>2. sig \in Signatures
      BY <3>1, SignatureOf
    <3>3. Returns(sig) \subseteq Seq(Exprs)
      BY <3>2, ReturnsType
    <3> QED BY <2>6, <3>3 DEF SyntaxNodes
  <2> QED BY <1>1, <2>1, <2>2, <2>3, <2>4, <2>5, <2>6
<1> QED BY <1>1, <1>2, FileGrows

\* What is written later does not change where a node stands.
LEMMA SameEnclosing ==
  ASSUME NEW p, IsFile(p), NEW node \in SyntaxNodes, NEW i \in 1 .. Len(p) + 1
  PROVE  EnclosingFunc(Append(p, node), i) = EnclosingFunc(p, i)
<1>1. p \in Seq(SyntaxNodes) /\ Len(p) \in Nat
  BY OpenInFile DEF IsFile
<1>2. i - 1 \in 0 .. Len(p)
  BY <1>1
<1>3. OpenAt(Append(p, node), i) = OpenAt(p, i)
  BY <1>1, <1>2, OpenedAppend DEF OpenAt
<1>4. \A j \in ToSet(OpenAt(p, i)) : Append(p, node)[j] = p[j]
  <2>1. ToSet(OpenAt(p, i)) \subseteq 1 .. Len(p)
    BY OpenIn
  <2>2. \A j \in 1 .. Len(p) : Append(p, node)[j] = p[j]
    BY <1>1
  <2> QED BY <2>1, <2>2
<1>5. {j \in ToSet(OpenAt(Append(p, node), i)) : IsFunc(Append(p, node)[j])}
      = {j \in ToSet(OpenAt(p, i)) : IsFunc(p[j])}
  BY <1>3, <1>4
<1> QED BY <1>5 DEF EnclosingFunc

LEMMA ReturnsStayFit ==
  ASSUME NEW p, IsFile(p), OpenAt(p, Len(p) + 1) # << >>, ReturnsFit(p),
         NEW node \in SyntaxNodes, IsFile(Append(p, node)),
         node.k = "return" =>
           Len(node.results) \in {0, 1, Len(p[EnclosingFunc(p, Len(p) + 1)].sig.results)}
  PROVE  ReturnsFit(Append(p, node))
<1>1. p \in Seq(SyntaxNodes) /\ Len(p) \in Nat /\ Len(p) >= 1
  BY OpenInFile DEF IsFile
<1>2. PICK n \in Nat : n = Len(p)
  BY <1>1
<1>3. PICK q : q = Append(p, node)
  OBVIOUS
<1>4. Len(q) = n + 1 /\ q[n + 1] = node /\ \A i \in 1 .. n : q[i] = p[i]
  BY <1>1, <1>2, <1>3
<1> SUFFICES ASSUME NEW i \in 2 .. Len(q), q[i].k = "return"
             PROVE  Len(q[i].results) \in {0, 1, Len(q[EnclosingFunc(q, i)].sig.results)}
  BY <1>3 DEF ReturnsFit
<1>5. i \in 1 .. n + 1 /\ i \in Nat /\ i >= 2
  BY <1>4
<1>6. EnclosingFunc(q, i) = EnclosingFunc(p, i)
  BY <1>2, <1>3, <1>5, SameEnclosing
<1>7. OpenAt(p, i) # << >>
  <2>1. CASE i = n + 1
    BY <1>2, <2>1
  <2>2. CASE i \in 2 .. n
    BY <1>2, <2>2 DEF IsFile
  <2> QED BY <1>5, <2>1, <2>2
<1>8. EnclosingFunc(p, i) \in 1 .. n
  BY <1>2, <1>5, <1>7, SignatureOf
<1>9. q[EnclosingFunc(q, i)] = p[EnclosingFunc(p, i)]
  BY <1>4, <1>6, <1>8
<1>10. CASE i = n + 1
  BY <1>2, <1>4, <1>9, <1>10
<1>11. CASE i \in 2 .. n
  BY <1>2, <1>4, <1>5, <1>9, <1>11 DEF ReturnsFit
<1> QED BY <1>5, <1>10, <1>11

LEMMA ReturnsLength ==
  ASSUME NEW sig \in Signatures, NEW r \in Returns(sig)
  PROVE  Len(r) \in {0, 1, Len(sig.results)}
<1>1. CASE r = << >>
  BY <1>1
<1>2. CASE r \in [1 .. Len(sig.results) -> Exprs]
  <2>1. Len(sig.results) \in Nat
    BY DEF Signatures
  <2>2. Len(r) = Len(sig.results)
    BY <1>2, <2>1
  <2> QED BY <2>2
<1>3. CASE r \in {<<"call">>, <<"wrap">>, <<"ident">>}
  BY <1>3
<1> QED BY <1>1, <1>2, <1>3 DEF Returns

LEMMA FileHolds == Spec => []FileInv
<1>1. Init => FileInv
  <2> SUFFICES ASSUME Init PROVE FileInv
    OBVIOUS
  <2>1. IsFile(prog)
    BY FileAssumption DEF Init
  <2>3. ReturnsFit(prog)
    BY ReturnsAssumption DEF Init
  <2>2. opts \in [NoWrapN : BOOLEAN]
    BY DEF Init
  <2> QED BY <2>1, <2>2, <2>3 DEF FileInv, Init
<1>2. FileInv /\ [Next]_vars => FileInv'
  <2> SUFFICES ASSUME FileInv, [Next]_vars PROVE FileInv'
    OBVIOUS
  <2>1. CASE Write
    <3>1. PICK line : line = Len(prog) + 1
      OBVIOUS
    <3>2. PICK node :
            /\ \/ node = [k |-> "end", line |-> line]
               \/ node \in Clauses(line)
               \/ node \in Statements(line)
            /\ prog' = Append(prog, node)
            /\ \/ UNCHANGED optouts
               \/ optouts' = optouts \union {line}
      BY <2>1, <3>1 DEF Write
    <3>3. phase = "write" /\ OpenAt(prog, line) # << >> /\ UNCHANGED <<phase, opts, walked, output>>
      BY <2>1, <3>1 DEF Write
    <3>4. PICK sig : sig = prog[EnclosingFunc(prog, line)].sig
      OBVIOUS
    <3>5. \/ node = [k |-> "end", line |-> line]
          \/ node = [k |-> "case", line |-> line]
          \/ node \in [k : {"lit", "defer"}, line : {line}, sig : LitSignatures]
          \/ node \in [k : {"block", "switch"}, line : {line}]
          \/ \E a \in Assignments(prog) :
               node = [k |-> "assign", line |-> line, lhs |-> a.lhs, rhs |-> a.rhs]
          \/ node \in [k : {"return"}, line : {line}, results : Returns(sig)]
      BY <3>2, <3>4 DEF Clauses, Statements
    <3>6. IsFile(prog)
      BY DEF FileInv
    <3>7. IsFile(Append(prog, node))
      BY <3>1, <3>3, <3>4, <3>5, <3>6, WrittenIsFile
    <3>8. Len(prog) \in Nat /\ prog' = Append(prog, node) /\ prog \in Seq(SyntaxNodes)
      BY <3>2, <3>6, OpenInFile DEF IsFile
    <3>9. Len(prog') = Len(prog) + 1
      <4>1. PICK q : q = Append(prog, node)
        OBVIOUS
      <4>2. q \in Seq(SyntaxNodes)
        BY <3>7, <4>1 DEF IsFile
      <4>3. Len(q) = Len(prog) + 1
        BY <3>8, <4>1, <4>2
      <4> QED BY <3>8, <4>1, <4>3
    <3>10. optouts' \subseteq 1 .. Len(prog')
      <4>1. PICK n \in Nat : n = Len(prog)
        BY <3>8
      <4>2. line = n + 1 /\ Len(prog') = n + 1 /\ optouts \subseteq 1 .. n
        BY <3>1, <3>9, <4>1 DEF FileInv
      <4>3. optouts' \subseteq optouts \union {line}
        BY <3>2
      <4> QED BY <4>2, <4>3
    <3>11. IsFile(prog')
      BY <3>7, <3>8
    <3>12. ReturnsFit(prog')
      <4>1. PICK p : p = prog
        OBVIOUS
      <4>2. IsFile(p) /\ ReturnsFit(p) /\ IsFile(Append(p, node)) /\ OpenAt(p, Len(p) + 1) # << >>
        BY <3>1, <3>3, <3>6, <3>7, <4>1 DEF FileInv
      <4>3. sig \in Signatures
        BY <3>1, <3>4, <4>1, <4>2, SignatureOf, OpenInFile
      <4>4. node.k = "return" => node.results \in Returns(sig)
        BY <3>5
      <4>5. node \in SyntaxNodes
        <5>1. Append(p, node) \in Seq(SyntaxNodes) /\ p \in Seq(SyntaxNodes)
          BY <4>2 DEF IsFile
        <5>2. Append(p, node)[Len(p) + 1] = node /\ Len(Append(p, node)) = Len(p) + 1
          BY <5>1
        <5> QED BY <5>1, <5>2
      <4>6. ReturnsFit(Append(p, node))
        BY <3>1, <3>4, <4>1, <4>2, <4>3, <4>4, <4>5, ReturnsLength, ReturnsStayFit
      <4> QED BY <3>8, <4>1, <4>6
    <3> QED BY <3>3, <3>10, <3>11, <3>12 DEF FileInv
  <2>2. CASE RunTool
    BY <2>2 DEF RunTool, FileInv
  <2>3. CASE UNCHANGED vars
    BY <2>3 DEF vars, FileInv
  <2> QED BY <2>1, <2>2, <2>3 DEF Next
<1> QED BY <1>1, <1>2, PTL DEF Spec

LEMMA WalkedIs ==
  ASSUME FileInv, NEW ins \in BagToSet(walked.inserts)
  PROVE  /\ phase = "rewritten" /\ IsFile(prog)
         /\ walked.inserts = Walkers(prog, opts, optouts)[Len(prog)].inserts
<1>1. CASE walked = NoRun
  BY <1>1 DEF NoRun, EmptyBag, BagToSet, SetToBag
<1>2. CASE phase = "rewritten" /\ walked = Walk(prog, opts, optouts)
  BY <1>2 DEF Walk, FileInv
<1> QED BY <1>1, <1>2 DEF FileInv

(***************************************************************************)
(* No return of any file is rewritten to a WrapN that errtrace does not    *)
(* have (wrapReturnCall asks for n > 6), and with -no-wrapn to none.       *)
(***************************************************************************)
THEOREM OnlyWrapNThatExist == Spec => []WrapNExists
<1>1. FileInv => WrapNExists
  <2> SUFFICES ASSUME FileInv, NEW ins \in BagToSet(walked.inserts),
                      ins.k = "wrap", prog[ins.at].k = "return"
               PROVE  ins.n <= 6 /\ (opts.NoWrapN => ins.n = 1)
    BY DEF WrapNExists
  <2> QED BY WalkedIs, WalkWrapsWithWrapN
<1> QED BY <1>1, FileHolds, PTL

(***************************************************************************)
(* Only errors of the right function are wrapped, however functions,       *)
(* literals and deferred literals are nested: the visitors on the walker's *)
(* stack know the functions around the node being visited (funcType).      *)
(***************************************************************************)
THEOREM WrapsErrorsOnly == Spec => []ErrorsOnly
<1>1. FileInv => ErrorsOnly
  <2> SUFFICES ASSUME FileInv, NEW ins \in BagToSet(walked.inserts)
               PROVE  IF prog[ins.at].k = "return" THEN ReturnsError(prog, ins)
                      ELSE AssignsDeferredError(prog, ins)
    BY DEF ErrorsOnly
  <2> QED BY WalkedIs, WalkWrapsErrorsOnly
<1> QED BY <1>1, FileHolds, PTL

(***************************************************************************)
(* Nothing is wrapped twice by one run, although the walker visits the     *)
(* body of a deferred literal for the errors of the function around it     *)
(* (deferStmt) and again as a function: literals deferred in one another   *)
(* assign to the errors of different functions.                            *)
(***************************************************************************)
THEOREM WrapsOnce == Spec => []WrappedOnce
<1>1. FileInv => WrappedOnce
  <2> SUFFICES ASSUME FileInv PROVE WrappedOnce
    OBVIOUS
  <2>1. ASSUME NEW ins \in BagToSet(walked.inserts) PROVE walked.inserts[ins] = 1
    <3>1. IsFile(prog) /\ walked.inserts = Walkers(prog, opts, optouts)[Len(prog)].inserts
      BY WalkedIs
    <3>2. LET b == Walkers(prog, opts, optouts)[Len(prog)].inserts IN \A x \in BagToSet(b) : b[x] = 1
      BY <3>1, WalkInsertsOnce
    <3> QED BY <3>1, <3>2
  <2>2. ASSUME NEW a \in BagToSet(walked.inserts), NEW b \in BagToSet(walked.inserts),
               a # b, a.at = b.at
        PROVE  a.k = "wrap" /\ b.k = "wrap" /\ a.expr # b.expr
    BY <2>2, WalkedIs, WalkWrapsApart
  <2> QED BY <2>1, <2>2 DEF WrappedOnce
<1> QED BY <1>1, FileHolds, PTL

(***************************************************************************)
(* //errtrace:skip takes exactly its line out, and an optout reported as   *)
(* unused changes nothing: a walk without optouts keeps the same stack and *)
(* so has the same candidates at every node.                               *)
(***************************************************************************)
THEOREM OptoutsAreExact == Spec => []OptoutExact
<1>1. FileInv => OptoutExact
  <2> SUFFICES ASSUME FileInv, phase # "write"
               PROVE  LET plain == BagToSet(Walk(prog, opts, {}).inserts)
                          Line(ins) == prog[ins.at].line
                      IN  /\ BagToSet(walked.inserts) = {ins \in plain : Line(ins) \notin optouts}
                          /\ \A ins \in plain : Line(ins) \notin walked.unused
    BY DEF OptoutExact
  <2>1. IsFile(prog) /\ walked = Walk(prog, opts, optouts)
    BY DEF FileInv
  <2>2. Len(prog) \in 0 .. Len(prog) /\ IsProgram(prog)
    BY <2>1, OpenInFile, FilesArePrograms
  <2>3. PICK w : w = Walkers(prog, opts, optouts)[Len(prog)]
    OBVIOUS
  <2>4. PICK x : x = Walkers(prog, opts, {})[Len(prog)]
    OBVIOUS
  <2>5. /\ BagToSet(w.inserts) = NotIn(prog, BagToSet(x.inserts), optouts)
        /\ \A ins \in BagToSet(x.inserts) : LineOf(prog, ins) \in optouts => LineOf(prog, ins) \in w.used
    BY <2>2, <2>3, <2>4, OptoutsLeaveOut DEF OptoutInv
  <2>6. /\ walked.inserts = w.inserts /\ walked.unused = optouts \ w.used
        /\ Walk(prog, opts, {}).inserts = x.inserts
    BY <2>1, <2>3, <2>4 DEF Walk
  <2>7. BagToSet(walked.inserts) = {ins \in BagToSet(x.inserts) : prog[ins.at].line \notin optouts}
    BY <2>5, <2>6 DEF NotIn, LineOf
  <2>8. \A ins \in BagToSet(x.inserts) : prog[ins.at].line \notin walked.unused
    BY <2>5, <2>6 DEF LineOf
  <2> QED BY <2>6, <2>7, <2>8
<1> QED BY <1>1, FileHolds, PTL
=============================================================================
