-------------------------- MODULE TraceTreeProofs ---------------------------
(***************************************************************************)
(* What UnwrapFrame and buildTraceTree report, for any number of errors    *)
(* and multi-errors of any size.                                           *)
(***************************************************************************)
EXTENDS TraceTree, SequenceTheorems, WellFoundedInduction, TLAPS

\* What Init says of the errors, and no step changes.
ErrsInv == \A e \in Errs : errs[e] \in ErrorsWrapping(1 .. e - 1)

Nodes == [path : Seq(Nat), err : Errs, trace : Seq(Errs)]
Activations ==
  [path : Seq(Nat), given : Errs, err : 0 .. N, trace : Seq(Errs), kids : Seq(Errs), i : Nat]

\* The loop of one call: what is appended and what is still to come make up
\* the frames of the error given.
LoopInv(c) ==
  /\ c.err <= c.given
  /\ c.i <= Len(c.kids) + 1
  /\ \A j \in 1 .. Len(c.kids) : c.kids[j] < c.given
  /\ c.i = 0 => c.kids = << >> /\ c.trace \o Frames[c.err] = Frames[c.given]
  /\ c.i > 0 => c.trace = Frames[c.given]

\* Each call but the last waits for the child before its i-th.
StackInv ==
  /\ \A k \in 1 .. Len(calls) - 1 :
       /\ calls[k].i > 1
       /\ calls[k + 1].given = calls[k].kids[calls[k].i - 1]
       /\ calls[k + 1].path = Append(calls[k].path, calls[k].i - 1)
  /\ \A k \in 1 .. Len(calls) : calls[k].given + k <= N + 1
  /\ calls # << >> => calls[1].given = N /\ calls[1].path = << >>

WalkInv ==
  /\ ErrsInv
  /\ calls \in Seq(Activations)
  /\ \A k \in 1 .. Len(calls) : LoopInv(calls[k])
  /\ StackInv
  /\ tree \subseteq Nodes
  /\ \A n \in tree : n.trace = Reverse(Frames[n.err])

\* The children of a call are those of the error given.
KidsInv(c) ==
  /\ c.i = 0 => IF c.err = Nil THEN KidsOf(c.given) = << >> ELSE End[c.err] = End[c.given]
  /\ c.i > 0 => c.kids = KidsOf(c.given)

\* The children of the k-th call that have returned.
Returned(k) == 1 .. (IF k = Len(calls) THEN calls[k].i - 1 ELSE calls[k].i - 2)

Collected(k) ==
  UNION {Under(Append(calls[k].path, j), NodesBelow[calls[k].kids[j]]) : j \in Returned(k)}

\* What the first n calls have collected.
CollectedBy(n) == UNION {Collected(k) : k \in 1 .. n}

\* The tree is what these have returned.
TreeInv == calls # << >> => tree = CollectedBy(Len(calls))

ReportInv ==
  /\ \A k \in 1 .. Len(calls) : KidsInv(calls[k])
  /\ TreeInv
  /\ EachErrorReported
----------------------------------------------------------------------------
(***************************************************************************)
(* Three traces, three paths end to end.                                   *)
(***************************************************************************)
LEMMA TracesAssociate ==
  \A t, u, v \in Seq(Errs) : (t \o u) \o v = t \o (u \o v)
OBVIOUS

LEMMA PathsAssociate ==
  \A p, q, x \in Seq(Nat) : (p \o q) \o x = p \o (q \o x)
OBVIOUS
----------------------------------------------------------------------------
(***************************************************************************)
(* Recursion over errors.  An error wraps only smaller ones, so what is    *)
(* defined for e from the values for smaller errors is well defined.       *)
(***************************************************************************)
\* A set of numbers that is not empty has a least element.
LEMMA LeastError ==
  ASSUME NEW S, S \subseteq Nat, S # {}
  PROVE  \E x \in S : \A y \in S : x <= y
<1>1. PICK x \in S : \A y \in S : ~ (<<y, x>> \in OpToRel(<, Nat))
  BY NatLessThanWellFounded, WFMin
<1>2. \A y \in S : <<y, x>> \in OpToRel(<, Nat) <=> y < x
  BY DEF OpToRel
<1>3. \A y \in S : ~ (y < x)
  BY <1>1, <1>2, Zenon
<1> QED BY <1>3

\* Step[e][f] is the value for e, computed from the values f has for
\* smaller errors.
FromSmaller(lo, V, Step) ==
  /\ Step \in [lo .. N -> [[lo .. N -> V] -> V]]
  /\ \A e \in lo .. N : \A f, g \in [lo .. N -> V] :
       (\A x \in lo .. e - 1 : f[x] = g[x]) => Step[e][f] = Step[e][g]

Defined(lo, V, Step) ==
  \E f \in [lo .. N -> V] : \A e \in lo .. N : f[e] = Step[e][f]

\* There is a function that satisfies the equation.
LEMMA RecursionOnErrors ==
  \A lo \in Nat : \A V, Step : V # {} /\ FromSmaller(lo, V, Step) => Defined(lo, V, Step)
<1> USE DEF Defined
<1> SUFFICES ASSUME NEW lo \in Nat, NEW V, NEW Step, V # {}, FromSmaller(lo, V, Step)
             PROVE  \E f \in [lo .. N -> V] : \A e \in lo .. N : f[e] = Step[e][f]
  OBVIOUS
<1> DEFINE S == lo .. N
           Good(n) == \E f \in [S -> V] : \A e \in lo .. n - 1 : f[e] = Step[e][f]
           Bad == {n \in lo .. N + 1 : ~ Good(n)}
<1> USE DEF FromSmaller
<1>1. N \in Nat
  BY TraceTreeAssumption
<1>2. Bad = {}
  <2> SUFFICES ASSUME Bad # {} PROVE FALSE
    OBVIOUS
  <2>1. Bad \subseteq Nat
    BY <1>1
  <2> HIDE DEF Bad
  <2>2. PICK n \in Bad : \A y \in Bad : n <= y
    BY <2>1, LeastError
  <2>3. n \in lo .. N + 1 /\ ~ Good(n)
    BY <2>2 DEF Bad
  <2>4. n # lo
    <3> SUFFICES Good(lo)
      BY <2>3
    <3>1. PICK v \in V : TRUE
      OBVIOUS
    <3>2. [x \in S |-> v] \in [S -> V] /\ \A e \in lo .. lo - 1 : FALSE
      BY <1>1
    <3> QED BY <3>2
  <2>5. n - 1 \in lo .. N /\ n - 1 \in Nat /\ n - 1 < n /\ n - 1 \in lo .. N + 1
    BY <1>1, <2>3, <2>4
  <2>6. Good(n - 1)
    <3>1. n - 1 \notin Bad
      BY <2>1, <2>2, <2>5
    <3> HIDE DEF Good
    <3> QED BY <2>5, <3>1 DEF Bad
  <2>7. PICK f \in [S -> V] : \A e \in lo .. (n - 1) - 1 : f[e] = Step[e][f]
    BY <2>6
  <2> DEFINE g == [x \in S |-> IF x = n - 1 THEN Step[n - 1][f] ELSE f[x]]
  <2>8. g \in [S -> V]
    BY <2>5, <2>7
  <2>9. \A x \in S : x # n - 1 => g[x] = f[x]
    OBVIOUS
  <2>10. g[n - 1] = Step[n - 1][f]
    BY <2>5
  <2> HIDE DEF g
  <2>11. \A e \in lo .. n - 1 : g[e] = Step[e][g]
    <3> TAKE e \in lo .. n - 1
    <3>1. e \in S /\ \A x \in lo .. e - 1 : x \in S /\ x # n - 1
      BY <1>1, <2>3
    <3>2. Step[e][g] = Step[e][f]
      BY <2>7, <2>8, <2>9, <3>1
    <3>3. CASE e = n - 1
      BY <2>10, <3>2, <3>3
    <3>4. CASE e # n - 1
      <4>1. e \in lo .. (n - 1) - 1
        BY <1>1, <2>3, <3>4
      <4> QED BY <2>7, <2>9, <3>1, <3>2, <3>4, <4>1
    <3> QED BY <3>3, <3>4
  <2> QED BY <2>3, <2>8, <2>11
<1>3. Good(N + 1)
  <2>1. CASE lo <= N + 1
    <3> HIDE DEF Good, Bad
    <3>1. N + 1 \in lo .. N + 1 /\ N + 1 \notin Bad
      BY <1>1, <1>2, <2>1
    <3> QED BY <3>1 DEF Bad
  <2>2. CASE lo > N + 1
    <3>1. PICK v \in V : TRUE
      OBVIOUS
    <3>2. [x \in S |-> v] \in [S -> V] /\ \A e \in lo .. (N + 1) - 1 : FALSE
      BY <1>1, <2>2
    <3> QED BY <3>2
  <2> QED BY <1>1, <2>1, <2>2
<1>4. (N + 1) - 1 = N
  BY <1>1
<1> QED BY <1>3, <1>4

\* What is known of an error and of what it wraps.
LEMMA Wrapped ==
  ASSUME ErrsInv, NEW e \in Errs
  PROVE  /\ errs[e].frame \in {"none", "known", "unknown"}
         /\ errs[e].unwrap \in {"none", "one", "many"}
         /\ errs[e].next \in 0 .. e - 1
         /\ errs[e].kids \in Seq(1 .. e - 1)
         /\ errs[e].unwrap # "one" => errs[e].next = Nil
         /\ errs[e].unwrap # "many" => errs[e].kids = << >>
         /\ ~ PCMulti /\ errs[e].unwrap = "many" => errs[e].frame # "known"
<1>1. e \in Nat /\ errs[e] \in ErrorsWrapping(1 .. e - 1)
  BY TraceTreeAssumption DEF ErrsInv, Errs
<1>2. << >> \in Seq(1 .. e - 1)
  BY EmptySeq
<1>3. \A k \in 0 .. MaxKids : \A s \in [1 .. k -> 1 .. e - 1] : s \in Seq(1 .. e - 1)
  <2> SUFFICES ASSUME NEW k \in Nat, NEW s \in [1 .. k -> 1 .. e - 1] PROVE s \in Seq(1 .. e - 1)
    BY TraceTreeAssumption
  <2> QED BY SeqDef
<1>4. CASE errs[e] \in [frame : {"none", "known", "unknown"}, unwrap : {"none"},
                        next : {Nil}, kids : {<< >>}]
  <2>1. /\ errs[e].frame \in {"none", "known", "unknown"}
        /\ errs[e].unwrap = "none" /\ errs[e].next = Nil /\ errs[e].kids = << >>
    BY <1>4
  <2>2. Nil \in 0 .. e - 1
    BY <1>1 DEF Nil, Errs
  <2> QED BY <1>2, <2>1, <2>2
<1>5. CASE errs[e] \in [frame : {"none", "known", "unknown"}, unwrap : {"one"},
                        next : (1 .. e - 1) \union {Nil}, kids : {<< >>}]
  <2>1. /\ errs[e].frame \in {"none", "known", "unknown"}
        /\ errs[e].unwrap = "one" /\ errs[e].kids = << >>
        /\ errs[e].next \in (1 .. e - 1) \union {Nil}
    BY <1>5
  <2>2. (1 .. e - 1) \union {Nil} \subseteq 0 .. e - 1
    BY <1>1 DEF Nil, Errs
  <2> QED BY <1>2, <2>1, <2>2
<1>6. CASE errs[e] \in [frame : IF PCMulti THEN {"none", "known", "unknown"} ELSE {"none", "unknown"},
                        unwrap : {"many"}, next : {Nil},
                        kids : UNION {[1 .. k -> 1 .. e - 1] : k \in 0 .. MaxKids}]
  BY <1>1, <1>3, <1>6 DEF Nil, Errs
<1> QED BY <1>1, <1>4, <1>5, <1>6 DEF ErrorsWrapping

\* Frames, unfolded.
LEMMA FramesUnfold ==
  ASSUME ErrsInv
  PROVE  /\ Frames[Nil] = << >>
         /\ \A e \in Errs :
              Frames[e] = (IF errs[e].frame = "known" THEN <<e>> ELSE << >>) \o Frames[errs[e].next]
<1> DEFINE V == Seq(Errs)
           Body(f, e) ==
             IF e = Nil THEN << >>
             ELSE (IF errs[e].frame = "known" THEN <<e>> ELSE << >>) \o f[errs[e].next]
           Step == [e \in 0 .. N |-> [f \in [0 .. N -> V] |-> Body(f, e)]]
<1>1. N \in Nat /\ \A e \in 0 .. N : e = Nil \/ e \in Errs
  BY TraceTreeAssumption DEF Errs, Nil
<1>2. \A e \in Errs : errs[e].next \in 0 .. N /\ errs[e].next \in 0 .. e - 1
  BY <1>1, Wrapped DEF Errs
<1>3. ASSUME NEW f \in [0 .. N -> V], NEW e \in 0 .. N
      PROVE  Body(f, e) \in V
  <2>1. CASE e = Nil
    BY <2>1, EmptySeq
  <2>2. CASE e # Nil
    <3>1. f[errs[e].next] \in V /\ e \in Errs
      BY <1>1, <1>2, <2>2
    <3>2. (IF errs[e].frame = "known" THEN <<e>> ELSE << >>) \in V
      BY <3>1, EmptySeq
    <3> QED BY <2>2, <3>1, <3>2, ConcatProperties
  <2> QED BY <2>1, <2>2
<1>4. ASSUME NEW e \in 0 .. N, NEW f \in [0 .. N -> V], NEW g \in [0 .. N -> V],
             \A x \in 0 .. e - 1 : f[x] = g[x]
      PROVE  Body(f, e) = Body(g, e)
  BY <1>1, <1>2, <1>4
<1> HIDE DEF V, Body
<1>5. Step \in [0 .. N -> [[0 .. N -> V] -> V]]
  BY <1>3
<1>6. V # {}
  BY EmptySeq DEF V
<1>7. PICK f \in [0 .. N -> V] : \A e \in 0 .. N : f[e] = Step[e][f]
  <2>1. \A e \in 0 .. N : \A f, g \in [0 .. N -> V] :
          (\A x \in 0 .. e - 1 : f[x] = g[x]) => Step[e][f] = Step[e][g]
    BY <1>4
  <2>3. PICK D : D = Step
    OBVIOUS
  <2>4. FromSmaller(0, V, D)
    <3> HIDE DEF Step
    <3> QED BY <1>5, <2>1, <2>3 DEF FromSmaller
  <2> HIDE DEF Step
  <2>5. \E f \in [0 .. N -> V] : \A e \in 0 .. N : f[e] = D[e][f]
    <3>1. 0 \in Nat
      OBVIOUS
    <3>2. Defined(0, V, D)
      BY <1>6, <2>4, <3>1, RecursionOnErrors, Zenon
    <3> QED BY <3>2 DEF Defined
  <2> QED BY <2>3, <2>5
<1>8. f = [e \in 0 .. N |-> Body(f, e)]
  BY <1>7
<1>9. Frames = [e \in 0 .. N |-> Body(Frames, e)]
  BY <1>8 DEF Frames, Body
<1> HIDE DEF Step
<1>10. \A e \in 0 .. N : Frames[e] = Body(Frames, e)
  BY <1>9
<1> QED BY <1>1, <1>10 DEF Body, Nil, Errs

LEMMA FramesTyped ==
  ASSUME ErrsInv
  PROVE  \A e \in 0 .. N : Frames[e] \in Seq(Errs)
<1> DEFINE Bad == {e \in 0 .. N : Frames[e] \notin Seq(Errs)}
<1> SUFFICES ASSUME Bad # {} PROVE FALSE
  OBVIOUS
<1>1. Bad \subseteq Nat
  BY TraceTreeAssumption
<1>2. PICK e \in Bad : \A y \in Bad : e <= y
  <2> HIDE DEF Bad
  <2> QED BY <1>1, LeastError
<1>3. e # Nil
  BY FramesUnfold, EmptySeq DEF Nil
<1>4. e \in Errs
  BY <1>3, TraceTreeAssumption DEF Errs, Nil
<1>5. errs[e].next \in 0 .. e - 1
  BY <1>4, Wrapped
<1>6. Frames[errs[e].next] \in Seq(Errs)
  <2>1. errs[e].next \in 0 .. N /\ ~ (e <= errs[e].next)
    BY <1>4, <1>5, TraceTreeAssumption DEF Errs
  <2> QED BY <1>2, <2>1
<1>7. (IF errs[e].frame = "known" THEN <<e>> ELSE << >>) \in Seq(Errs)
  BY <1>4, EmptySeq
<1>8. Frames[e] \in Seq(Errs)
  BY <1>4, <1>6, <1>7, FramesUnfold, ConcatProperties
<1> QED BY <1>8

\* End, unfolded.
LEMMA EndUnfold ==
  ASSUME ErrsInv
  PROVE  \A e \in Errs : End[e] = IF errs[e].next = Nil THEN e ELSE End[errs[e].next]
<1> DEFINE Body(f, e) == IF errs[e].next = Nil THEN e ELSE f[errs[e].next]
           Step == [e \in 1 .. N |-> [f \in [1 .. N -> 1 .. N] |-> Body(f, e)]]
<1>1. \A e \in 1 .. N : errs[e].next \in 0 .. e - 1
  BY Wrapped DEF Errs
<1>2. \A e \in 1 .. N : errs[e].next # Nil => errs[e].next \in 1 .. N /\ errs[e].next \in 1 .. e - 1
  BY <1>1, TraceTreeAssumption DEF Nil
<1>3. PICK f \in [1 .. N -> 1 .. N] : \A e \in 1 .. N : f[e] = Step[e][f]
  <2>1. ASSUME NEW f \in [1 .. N -> 1 .. N], NEW e \in 1 .. N
        PROVE  Body(f, e) \in 1 .. N
    BY <1>2
  <2>2. ASSUME NEW e \in 1 .. N, NEW f \in [1 .. N -> 1 .. N], NEW g \in [1 .. N -> 1 .. N],
               \A x \in 1 .. e - 1 : f[x] = g[x]
        PROVE  Body(f, e) = Body(g, e)
    BY <1>2, <2>2
  <2> HIDE DEF Body
  <2>3. Step \in [1 .. N -> [[1 .. N -> 1 .. N] -> 1 .. N]]
    BY <2>1
  <2>4. \A e \in 1 .. N : \A f, g \in [1 .. N -> 1 .. N] :
          (\A x \in 1 .. e - 1 : f[x] = g[x]) => Step[e][f] = Step[e][g]
    BY <2>2
  <2>5. PICK D : D = Step
    OBVIOUS
  <2> HIDE DEF Step
  <2>6. PICK V : V = 1 .. N
    OBVIOUS
  <2>7. FromSmaller(1, V, D)
    BY <2>3, <2>4, <2>5, <2>6 DEF FromSmaller
  <2>8. V # {}
    BY <2>6, TraceTreeAssumption
  <2>9. \E f \in [1 .. N -> V] : \A e \in 1 .. N : f[e] = D[e][f]
    <3>1. 1 \in Nat
      OBVIOUS
    <3>2. Defined(1, V, D)
      BY <2>7, <2>8, <3>1, RecursionOnErrors, Zenon
    <3> QED BY <3>2 DEF Defined
  <2> QED BY <2>5, <2>6, <2>9
<1>4. f = [e \in Errs |-> Body(f, e)]
  BY <1>3 DEF Errs
<1>5. End = [e \in Errs |-> Body(End, e)]
  BY <1>4 DEF End
<1> HIDE DEF Step, Body
<1>6. \A e \in Errs : End[e] = Body(End, e)
  BY <1>5
<1> QED BY <1>6 DEF Body

LEMMA EndTyped ==
  ASSUME ErrsInv
  PROVE  \A e \in Errs : End[e] \in 1 .. e
<1> DEFINE Bad == {e \in Errs : End[e] \notin 1 .. e}
<1> SUFFICES ASSUME Bad # {} PROVE FALSE
  OBVIOUS
<1>1. Bad \subseteq Nat
  BY TraceTreeAssumption DEF Errs
<1>2. PICK e \in Bad : \A y \in Bad : e <= y
  <2> HIDE DEF Bad
  <2> QED BY <1>1, LeastError
<1>3. e \in Errs /\ errs[e].next \in 0 .. e - 1
  BY <1>2, Wrapped
<1>4. CASE errs[e].next = Nil
  BY <1>3, <1>4, EndUnfold DEF Errs
<1>5. CASE errs[e].next # Nil
  <2>1. errs[e].next \in Errs /\ errs[e].next < e
    BY <1>3, <1>5, TraceTreeAssumption DEF Errs, Nil
  <2>2. End[errs[e].next] \in 1 .. errs[e].next
    BY <1>1, <1>2, <2>1
  <2> QED BY <1>3, <1>5, <2>1, <2>2, EndUnfold DEF Errs
<1> QED BY <1>4, <1>5

LEMMA KidsTyped ==
  ASSUME ErrsInv, NEW e \in Errs
  PROVE  KidsOf(e) \in Seq(1 .. e - 1)
<1>1. End[e] \in 1 .. e /\ End[e] \in Errs
  BY EndTyped, TraceTreeAssumption DEF Errs
<1>2. errs[End[e]].kids \in Seq(1 .. End[e] - 1)
  BY <1>1, Wrapped
<1>3. 1 .. End[e] - 1 \subseteq 1 .. e - 1
  BY <1>1 DEF Errs
<1>4. errs[End[e]].kids \in Seq(1 .. e - 1)
  <2>1. PICK S, T, q : S = 1 .. End[e] - 1 /\ T = 1 .. e - 1 /\ q = errs[End[e]].kids
    OBVIOUS
  <2>2. q \in Seq(S) /\ S \subseteq T
    BY <1>2, <1>3, <2>1
  <2>3. q \in Seq(T)
    BY <2>2, SeqMonotonic
  <2> QED BY <2>1, <2>3
<1> QED BY <1>4 DEF KidsOf

\* UnwrapLoop, unfolded.
LEMMA UnwrapUnfold ==
  ASSUME ErrsInv
  PROVE  /\ UnwrapLoop[Nil] = << >>
         /\ \A e \in Errs :
              UnwrapLoop[e] =
                IF errs[e].frame = "known" THEN <<e>> \o UnwrapLoop[errs[e].next] ELSE << >>
<1> DEFINE V == Seq(Errs)
           Body(f, e) == IF UnwrapFrame(e).ok THEN <<e>> \o f[UnwrapFrame(e).inner] ELSE << >>
           Step == [e \in 0 .. N |-> [f \in [0 .. N -> V] |-> Body(f, e)]]
<1>1. N \in Nat /\ \A e \in 0 .. N : e = Nil \/ e \in Errs
  BY TraceTreeAssumption DEF Errs, Nil
<1>2. ~ UnwrapFrame(Nil).ok
  BY DEF UnwrapFrame
<1>3. ASSUME NEW e \in Errs
      PROVE  /\ UnwrapFrame(e).ok <=> errs[e].frame = "known"
             /\ UnwrapFrame(e).ok => UnwrapFrame(e).inner = errs[e].next
             /\ errs[e].next \in 0 .. N /\ errs[e].next \in 0 .. e - 1
  <2>1. e # Nil
    BY DEF Errs, Nil
  <2>2. errs[e].next \in 0 .. e - 1 /\ (errs[e].unwrap # "one" => errs[e].next = Nil)
    BY Wrapped
  <2>3. UnwrapFrame(e).ok <=> errs[e].frame = "known"
    BY <2>1 DEF UnwrapFrame
  <2>4. UnwrapFrame(e).ok => UnwrapFrame(e).inner = errs[e].next
    BY <2>1, <2>2 DEF UnwrapFrame
  <2>5. errs[e].next \in 0 .. N
    BY <1>1, <2>2 DEF Errs
  <2> QED BY <2>2, <2>3, <2>4, <2>5
<1>4. ASSUME NEW f \in [0 .. N -> V], NEW e \in 0 .. N
      PROVE  Body(f, e) \in V
  <2>1. CASE ~ UnwrapFrame(e).ok
    BY <2>1, EmptySeq
  <2>2. CASE UnwrapFrame(e).ok
    <3>1. e \in Errs
      BY <1>1, <1>2, <2>2
    <3>2. f[UnwrapFrame(e).inner] \in V /\ <<e>> \in V
      BY <1>3, <2>2, <3>1
    <3> QED BY <2>2, <3>2, ConcatProperties
  <2> QED BY <2>1, <2>2
<1>5. ASSUME NEW e \in 0 .. N, NEW f \in [0 .. N -> V], NEW g \in [0 .. N -> V],
             \A x \in 0 .. e - 1 : f[x] = g[x]
      PROVE  Body(f, e) = Body(g, e)
  <2>1. CASE ~ UnwrapFrame(e).ok
    BY <2>1
  <2>2. CASE UnwrapFrame(e).ok
    <3>1. e \in Errs
      BY <1>1, <1>2, <2>2
    <3>2. f[UnwrapFrame(e).inner] = g[UnwrapFrame(e).inner]
      BY <1>3, <1>5, <2>2, <3>1
    <3> QED BY <3>2
  <2> QED BY <2>1, <2>2
<1> HIDE DEF V, Body
<1>6. PICK f \in [0 .. N -> V] : \A e \in 0 .. N : f[e] = Step[e][f]
  <2>1. Step \in [0 .. N -> [[0 .. N -> V] -> V]]
    BY <1>4
  <2>2. \A e \in 0 .. N : \A f, g \in [0 .. N -> V] :
          (\A x \in 0 .. e - 1 : f[x] = g[x]) => Step[e][f] = Step[e][g]
    BY <1>5
  <2>3. PICK D : D = Step
    OBVIOUS
  <2> HIDE DEF Step
  <2>4. FromSmaller(0, V, D)
    BY <2>1, <2>2, <2>3 DEF FromSmaller
  <2>5. V # {}
    BY EmptySeq DEF V
  <2>6. \E f \in [0 .. N -> V] : \A e \in 0 .. N : f[e] = D[e][f]
    <3>1. 0 \in Nat
      OBVIOUS
    <3>2. Defined(0, V, D)
      BY <2>4, <2>5, <3>1, RecursionOnErrors, Zenon
    <3> QED BY <3>2 DEF Defined
  <2> QED BY <2>3, <2>6
<1>7. f = [e \in 0 .. N |-> Body(f, e)]
  BY <1>6
<1>8. UnwrapLoop = [e \in 0 .. N |-> Body(UnwrapLoop, e)]
  BY <1>7 DEF UnwrapLoop, Body
<1> HIDE DEF Step
<1>9. \A e \in 0 .. N : UnwrapLoop[e] = Body(UnwrapLoop, e)
  BY <1>8
<1>10. UnwrapLoop[Nil] = << >>
  <2>1. Nil \in 0 .. N
    BY <1>1 DEF Nil
  <2>2. UnwrapLoop[Nil] = Body(UnwrapLoop, Nil)
    BY <1>9, <2>1
  <2> QED BY <1>2, <2>2 DEF Body
<1>11. ASSUME NEW e \in Errs
       PROVE  UnwrapLoop[e] =
                IF errs[e].frame = "known" THEN <<e>> \o UnwrapLoop[errs[e].next] ELSE << >>
  <2>1. e \in 0 .. N
    BY <1>1 DEF Errs
  <2>2. UnwrapLoop[e] = Body(UnwrapLoop, e)
    BY <1>9, <2>1
  <2> QED BY <1>3, <2>2 DEF Body
<1> QED BY <1>10, <1>11

\* The caller's loop stops where the chain has no frame; until then it sees
\* what buildTraceTree does.
LEMMA UnwrapSeesFrames ==
  ASSUME ErrsInv
  PROVE  \A e \in 0 .. N :
           /\ UnwrapLoop[e] \in Seq(Errs)
           /\ \E s \in Seq(Errs) : Frames[e] = UnwrapLoop[e] \o s
<1> DEFINE Good(e) == /\ UnwrapLoop[e] \in Seq(Errs)
                      /\ \E s \in Seq(Errs) : Frames[e] = UnwrapLoop[e] \o s
           Bad == {e \in 0 .. N : ~ Good(e)}
<1> SUFFICES ASSUME Bad # {} PROVE FALSE
  OBVIOUS
<1>1. Bad \subseteq Nat
  BY TraceTreeAssumption
<1>2. PICK e \in Bad : \A y \in Bad : e <= y
  <2> HIDE DEF Bad
  <2> QED BY <1>1, LeastError
<1>3. e \in 0 .. N /\ ~ Good(e)
  BY <1>2
<1>4. Frames[e] \in Seq(Errs) /\ << >> \in Seq(Errs) /\ Frames[e] = << >> \o Frames[e]
  BY <1>3, FramesTyped, EmptySeq, ConcatEmptySeq
<1>5. UnwrapLoop[e] # << >>
  BY <1>3, <1>4
<1>6. e # Nil
  BY <1>5, UnwrapUnfold
<1>7. e \in Errs
  BY <1>3, <1>6, TraceTreeAssumption DEF Errs, Nil
<1>8. errs[e].next \in 0 .. e - 1 /\ errs[e].frame = "known"
  BY <1>5, <1>7, Wrapped, UnwrapUnfold
<1>9. /\ UnwrapLoop[e] = <<e>> \o UnwrapLoop[errs[e].next]
      /\ Frames[e] = <<e>> \o Frames[errs[e].next]
  BY <1>7, <1>8, UnwrapUnfold, FramesUnfold
<1>10. Good(errs[e].next)
  <2>1. errs[e].next \in 0 .. N /\ ~ (e <= errs[e].next)
    <3> HIDE DEF Good, Bad
    <3>1. e \in 0 .. N /\ errs[e].next \in 0 .. e - 1
      BY <1>3, <1>8
    <3> QED BY <3>1, TraceTreeAssumption
  <2> HIDE DEF Good
  <2> QED BY <1>2, <2>1
<1>11. PICK s \in Seq(Errs) : Frames[errs[e].next] = UnwrapLoop[errs[e].next] \o s
  BY <1>10
<1>12. <<e>> \in Seq(Errs) /\ UnwrapLoop[errs[e].next] \in Seq(Errs)
  BY <1>7, <1>10
<1>13. Frames[e] = UnwrapLoop[e] \o s
  <2>1. (<<e>> \o UnwrapLoop[errs[e].next]) \o s = <<e>> \o (UnwrapLoop[errs[e].next] \o s)
    <3> HIDE DEF Good, Bad
    <3>1. PICK u \in Seq(Errs) : u = UnwrapLoop[errs[e].next]
      BY <1>12
    <3>2. (<<e>> \o u) \o s = <<e>> \o (u \o s)
      BY <1>12, TracesAssociate
    <3> QED BY <3>1, <3>2
  <2> QED BY <1>9, <1>11, <2>1
<1>14. UnwrapLoop[e] \in Seq(Errs)
  BY <1>9, <1>12, ConcatProperties
<1> QED BY <1>3, <1>13, <1>14
----------------------------------------------------------------------------
(***************************************************************************)
(* Nodes of the reference tree.                                            *)
(***************************************************************************)
LEMMA ReverseTwice ==
  ASSUME NEW S, NEW s \in Seq(S)
  PROVE  Reverse(s) \in Seq(S) /\ Reverse(Reverse(s)) = s
<1>1. Len(s) \in Nat /\ \A k \in 1 .. Len(s) : s[k] \in S
  BY LenProperties, ElementOfSeq
<1> DEFINE r == [k \in 1 .. Len(s) |-> s[(Len(s) - k) + 1]]
<1>2. r = Reverse(s)
  BY DEF Reverse
<1>3. \A k \in 1 .. Len(s) : (Len(s) - k) + 1 \in 1 .. Len(s) /\ (Len(s) - ((Len(s) - k) + 1)) + 1 = k
  BY <1>1
<1>4. r \in [1 .. Len(s) -> S]
  BY <1>1, <1>3
<1>5. r \in Seq(S)
  BY <1>1, <1>4, SeqDef
<1>6. Len(r) = Len(s)
  BY <1>1, <1>4, <1>5, LenProperties
<1>7. \A k \in 1 .. Len(s) : r[(Len(s) - k) + 1] = s[k]
  BY <1>3
<1>8. s \in [1 .. Len(s) -> S]
  BY LenProperties
<1>9. s = [k \in 1 .. Len(s) |-> s[k]]
  BY <1>8
<1> HIDE DEF r
<1>10. Reverse(r) = [k \in 1 .. Len(s) |-> r[(Len(s) - k) + 1]]
  BY <1>6 DEF Reverse
<1>11. Reverse(r) = [k \in 1 .. Len(s) |-> s[k]]
  BY <1>7, <1>10
<1> QED BY <1>2, <1>5, <1>9, <1>11

\* The node n, moved below p.
Move(p, n) == [path |-> p \o n.path, err |-> n.err, trace |-> n.trace]

LEMMA UnderNodes ==
  ASSUME NEW p \in Seq(Nat), NEW S, S \subseteq Nodes
  PROVE  /\ Under(p, S) = {Move(p, n) : n \in S}
         /\ Under(p, S) \subseteq Nodes
<1>1. ASSUME NEW n \in Nodes
      PROVE  /\ [n EXCEPT !.path = p \o @] = Move(p, n)
             /\ Move(p, n) \in Nodes
  <2>1. n.path \in Seq(Nat) /\ n.err \in Errs /\ n.trace \in Seq(Errs)
    BY DEF Nodes
  <2>2. p \o n.path \in Seq(Nat)
    BY <2>1, ConcatProperties
  <2>3. n = [path |-> n.path, err |-> n.err, trace |-> n.trace]
    BY DEF Nodes
  <2>4. [n EXCEPT !.path = p \o @] = Move(p, n)
    <3>1. PICK a, b, c : n = [path |-> a, err |-> b, trace |-> c]
      BY <2>3
    <3>2. PICK y : y = p \o a
      OBVIOUS
    <3>3. n.path = a /\ n.err = b /\ n.trace = c
      BY <3>1
    <3>4. [n EXCEPT !.path = y] = [path |-> y, err |-> b, trace |-> c]
      <4>1. [[path |-> a, err |-> b, trace |-> c] EXCEPT !.path = y] =
              [path |-> y, err |-> b, trace |-> c]
        OBVIOUS
      <4> QED BY <3>1, <4>1, Zenon
    <3>5. [n EXCEPT !.path = p \o @] = [n EXCEPT !.path = y]
      BY <3>2, <3>3
    <3> QED BY <3>2, <3>3, <3>4, <3>5 DEF Move
  <2> QED BY <2>1, <2>2, <2>4 DEF Nodes, Move
<1>2. \A n \in S : [n EXCEPT !.path = p \o @] = Move(p, n) /\ Move(p, n) \in Nodes
  BY <1>1
<1> QED BY <1>2 DEF Under

\* A subtree of a subtree.
LEMMA UnderUnder ==
  \A p, q \in Seq(Nat) : \A S \in SUBSET Nodes : Under(p, Under(q, S)) = Under(p \o q, S)
<1> SUFFICES ASSUME NEW p \in Seq(Nat), NEW q \in Seq(Nat), NEW S \in SUBSET Nodes
             PROVE  Under(p, Under(q, S)) = Under(p \o q, S)
  OBVIOUS
<1>1. p \o q \in Seq(Nat)
  BY ConcatProperties
<1>2. ASSUME NEW n \in Nodes
      PROVE  Move(p, Move(q, n)) = Move(p \o q, n)
  <2>1. PICK x \in Seq(Nat) : x = n.path
    BY DEF Nodes
  <2>2. (p \o q) \o x = p \o (q \o x)
    BY PathsAssociate
  <2> QED BY <2>1, <2>2 DEF Move
<1>3. Under(q, S) = {Move(q, n) : n \in S} /\ Under(q, S) \subseteq Nodes
  BY UnderNodes
<1>4. Under(p, Under(q, S)) = {Move(p, m) : m \in Under(q, S)}
  BY <1>3, UnderNodes
<1>5. Under(p \o q, S) = {Move(p \o q, n) : n \in S}
  BY <1>1, UnderNodes
<1>6. {Move(p, m) : m \in {Move(q, n) : n \in S}} = {Move(p, Move(q, n)) : n \in S}
  OBVIOUS
<1>7. {Move(p, Move(q, n)) : n \in S} = {Move(p \o q, n) : n \in S}
  BY <1>2
<1> QED BY <1>3, <1>4, <1>5, <1>6, <1>7

\* NodesBelow, unfolded.
LEMMA NodesUnfold ==
  ASSUME ErrsInv
  PROVE  \A e \in Errs :
           /\ NodesBelow[e] \subseteq Nodes
           /\ NodesBelow[e] =
                {[path |-> << >>, err |-> e, trace |-> TraceOf(e)]}
                  \union
                UNION {Under(<<i>>, NodesBelow[KidsOf(e)[i]]) : i \in 1 .. Len(KidsOf(e))}
<1> DEFINE V == SUBSET Nodes
           Body(f, e) ==
             {[path |-> << >>, err |-> e, trace |-> TraceOf(e)]}
               \union
             UNION {Under(<<i>>, f[KidsOf(e)[i]]) : i \in 1 .. Len(KidsOf(e))}
           Step == [e \in 1 .. N |-> [f \in [1 .. N -> V] |-> Body(f, e)]]
<1>1. N \in Nat /\ Errs = 1 .. N
  BY TraceTreeAssumption DEF Errs
<1>2. ASSUME NEW e \in 1 .. N, NEW i \in 1 .. Len(KidsOf(e))
      PROVE  /\ KidsOf(e)[i] \in 1 .. N /\ KidsOf(e)[i] \in 1 .. e - 1
             /\ <<i>> \in Seq(Nat)
  <2>1. KidsOf(e) \in Seq(1 .. e - 1)
    BY <1>1, KidsTyped
  <2>2. KidsOf(e)[i] \in 1 .. e - 1
    BY <2>1, ElementOfSeq
  <2>3. Len(KidsOf(e)) \in Nat
    BY <2>1, LenProperties
  <2> QED BY <1>1, <2>2, <2>3
<1>3. ASSUME NEW f \in [1 .. N -> V], NEW e \in 1 .. N
      PROVE  Body(f, e) \in V
  <2>1. Frames[e] \in Seq(Errs)
    BY <1>1, FramesTyped
  <2>2. TraceOf(e) \in Seq(Errs)
    BY <2>1, ReverseTwice DEF TraceOf
  <2>3. [path |-> << >>, err |-> e, trace |-> TraceOf(e)] \in Nodes
    BY <1>1, <2>2, EmptySeq DEF Nodes
  <2>4. \A i \in 1 .. Len(KidsOf(e)) : Under(<<i>>, f[KidsOf(e)[i]]) \subseteq Nodes
    <3> TAKE i \in 1 .. Len(KidsOf(e))
    <3>1. f[KidsOf(e)[i]] \subseteq Nodes
      BY <1>2
    <3> QED BY <1>2, <3>1, UnderNodes
  <2> QED BY <2>3, <2>4
<1>4. ASSUME NEW e \in 1 .. N, NEW f \in [1 .. N -> V], NEW g \in [1 .. N -> V],
             \A x \in 1 .. e - 1 : f[x] = g[x]
      PROVE  Body(f, e) = Body(g, e)
  <2>1. \A i \in 1 .. Len(KidsOf(e)) : f[KidsOf(e)[i]] = g[KidsOf(e)[i]]
    BY <1>2, <1>4
  <2> QED BY <2>1
<1> HIDE DEF V, Body
<1>5. PICK f \in [1 .. N -> V] : \A e \in 1 .. N : f[e] = Step[e][f]
  <2>1. Step \in [1 .. N -> [[1 .. N -> V] -> V]]
    BY <1>3
  <2>2. \A e \in 1 .. N : \A f, g \in [1 .. N -> V] :
          (\A x \in 1 .. e - 1 : f[x] = g[x]) => Step[e][f] = Step[e][g]
    BY <1>4
  <2>3. PICK D : D = Step
    OBVIOUS
  <2> HIDE DEF Step
  <2>4. FromSmaller(1, V, D)
    <3>1. FromSmaller(1, V, Step)
      BY <2>1, <2>2, Zenon DEF FromSmaller
    <3> QED BY <2>3, <3>1
  <2>5. PICK W : W = V
    OBVIOUS
  <2>6. W # {} /\ FromSmaller(1, W, D)
    BY <2>4, <2>5 DEF V
  <2>7. \E f \in [1 .. N -> W] : \A e \in 1 .. N : f[e] = D[e][f]
    <3>1. 1 \in Nat
      OBVIOUS
    <3>2. Defined(1, W, D)
      BY <2>6, <3>1, RecursionOnErrors, Zenon
    <3> QED BY <3>2 DEF Defined
  <2> QED BY <2>3, <2>5, <2>7
<1>6. f = [e \in Errs |-> Body(f, e)]
  BY <1>1, <1>5
<1>7. NodesBelow = [e \in Errs |-> Body(NodesBelow, e)]
  BY <1>6 DEF NodesBelow, Body
<1> HIDE DEF Step
<1>8. \A e \in Errs : NodesBelow[e] = Body(NodesBelow, e)
  BY <1>7
<1> DEFINE Bad == {e \in Errs : ~ (NodesBelow[e] \subseteq Nodes)}
<1>9. Bad = {}
  <2> SUFFICES ASSUME Bad # {} PROVE FALSE
    OBVIOUS
  <2>1. Bad \subseteq Nat
    BY <1>1
  <2>2. PICK e \in Bad : \A y \in Bad : e <= y
    <3> HIDE DEF Bad
    <3> QED BY <2>1, LeastError
  <2>3. \A x \in 1 .. e - 1 : x \in Errs /\ NodesBelow[x] \subseteq Nodes
    <3> TAKE x \in 1 .. e - 1
    <3>1. x \in Errs /\ ~ (e <= x)
      BY <1>1, <2>2
    <3> QED BY <2>2, <3>1
  <2> DEFINE g == [x \in 1 .. N |-> IF x < e THEN NodesBelow[x] ELSE {}]
  <2>4. g \in [1 .. N -> V]
    <3>1. \A x \in 1 .. N : (IF x < e THEN NodesBelow[x] ELSE {}) \in V
      BY <1>1, <2>1, <2>3 DEF V
    <3> QED BY <3>1
  <2>5. e \in 1 .. N /\ \A x \in 1 .. e - 1 : g[x] = NodesBelow[x]
    BY <1>1, <2>2
  <2> HIDE DEF g, Bad
  <2>6. Body(g, e) \in V
    BY <1>3, <2>4, <2>5
  <2>7. Body(NodesBelow, e) = Body(g, e)
    <3>1. \A i \in 1 .. Len(KidsOf(e)) : NodesBelow[KidsOf(e)[i]] = g[KidsOf(e)[i]]
      BY <1>2, <2>5
    <3> QED BY <3>1 DEF Body
  <2>8. NodesBelow[e] \in V
    BY <1>1, <1>8, <2>5, <2>6, <2>7
  <2> QED BY <2>2, <2>8 DEF Bad, V
<1> QED BY <1>8, <1>9 DEF Body

\* The nodes a call returns: its own and those of its children.
LEMMA NodesOfCall ==
  ASSUME ErrsInv, NEW e \in Errs, NEW p \in Seq(Nat)
  PROVE  Under(p, NodesBelow[e]) =
           {[path |-> p, err |-> e, trace |-> TraceOf(e)]}
             \union
           UNION {Under(Append(p, i), NodesBelow[KidsOf(e)[i]]) : i \in 1 .. Len(KidsOf(e))}
<1> DEFINE root == [path |-> << >>, err |-> e, trace |-> TraceOf(e)]
           Sub(i) == NodesBelow[KidsOf(e)[i]]
           I == 1 .. Len(KidsOf(e))
<1>1. NodesBelow[e] = {root} \union UNION {Under(<<i>>, Sub(i)) : i \in I}
  BY NodesUnfold
<1>2. Under(p, {root}) = {[path |-> p, err |-> e, trace |-> TraceOf(e)]}
  <2>1. p \o << >> = p
    BY ConcatEmptySeq
  <2>2. [root EXCEPT !.path = p \o @] = [path |-> p, err |-> e, trace |-> TraceOf(e)]
    BY <2>1
  <2> HIDE DEF root
  <2> QED BY <2>2 DEF Under
<1>3. ASSUME NEW i \in I
      PROVE  Under(p, Under(<<i>>, Sub(i))) = Under(Append(p, i), Sub(i))
  <2>1. KidsOf(e) \in Seq(1 .. e - 1) /\ e \in Nat
    BY KidsTyped, TraceTreeAssumption DEF Errs
  <2>2. i \in Nat
    BY <2>1, LenProperties
  <2>3. KidsOf(e)[i] \in Errs
    <3>1. KidsOf(e)[i] \in 1 .. e - 1
      BY <2>1, ElementOfSeq
    <3>2. 1 .. e - 1 \subseteq Errs
      BY TraceTreeAssumption DEF Errs
    <3> QED BY <3>1, <3>2
  <2>4. PICK S \in SUBSET Nodes : S = Sub(i)
    BY <2>3, NodesUnfold
  <2>5. <<i>> \in Seq(Nat) /\ Append(p, i) = p \o <<i>>
    BY <2>2, AppendIsConcat
  <2>6. Under(p, Under(<<i>>, S)) = Under(p \o <<i>>, S)
    BY <2>5, UnderUnder
  <2> QED BY <2>4, <2>5, <2>6
<1> HIDE DEF Sub, I, root
<1>4. Under(p, {root} \union UNION {Under(<<i>>, Sub(i)) : i \in I}) =
        Under(p, {root}) \union UNION {Under(p, Under(<<i>>, Sub(i))) : i \in I}
  <2> DEFINE F(n) == [n EXCEPT !.path = p \o @]
             G(i) == Under(<<i>>, Sub(i))
  <2>1. \A S : Under(p, S) = {F(n) : n \in S}
    BY DEF Under
  <2> HIDE DEF F, G
  <2>2. {F(n) : n \in {root} \union UNION {G(i) : i \in I}} =
          {F(n) : n \in {root}} \union UNION {{F(n) : n \in G(i)} : i \in I}
    OBVIOUS
  <2>3. Under(p, {root} \union UNION {G(i) : i \in I}) =
          Under(p, {root}) \union UNION {Under(p, G(i)) : i \in I}
    BY <2>1, <2>2
  <2> QED BY <2>3 DEF G
<1>5. Under(p, NodesBelow[e]) =
        {[path |-> p, err |-> e, trace |-> TraceOf(e)]}
          \union UNION {Under(Append(p, i), Sub(i)) : i \in I}
  BY <1>1, <1>2, <1>3, <1>4
<1> QED BY <1>5 DEF Sub, I
----------------------------------------------------------------------------
(***************************************************************************)
(* The walk.  Each call collects the frames of the error it was given.     *)
(***************************************************************************)
\* The last element of a sequence, replaced.
LEMMA UpdatedLast ==
  \A S : \A s \in Seq(S) : \A c \in S : s # << >> =>
    /\ Len(s) \in Nat \ {0}
    /\ [s EXCEPT ![Len(s)] = c] \in Seq(S)
    /\ Len([s EXCEPT ![Len(s)] = c]) = Len(s)
    /\ [s EXCEPT ![Len(s)] = c][Len(s)] = c
    /\ \A k \in 1 .. Len(s) - 1 : [s EXCEPT ![Len(s)] = c][k] = s[k]
<1> SUFFICES ASSUME NEW S, NEW s \in Seq(S), NEW c \in S, s # << >>
             PROVE  /\ Len(s) \in Nat \ {0}
                    /\ [s EXCEPT ![Len(s)] = c] \in Seq(S)
                    /\ Len([s EXCEPT ![Len(s)] = c]) = Len(s)
                    /\ [s EXCEPT ![Len(s)] = c][Len(s)] = c
                    /\ \A k \in 1 .. Len(s) - 1 : [s EXCEPT ![Len(s)] = c][k] = s[k]
  OBVIOUS
<1>1. Len(s) \in Nat /\ Len(s) # 0 /\ s \in [1 .. Len(s) -> S]
  BY LenProperties, EmptySeq
<1>2. PICK n \in Nat \ {0} : n = Len(s)
  BY <1>1
<1>3. [s EXCEPT ![n] = c] \in [1 .. n -> S]
  BY <1>1, <1>2
<1>4. [s EXCEPT ![n] = c] \in Seq(S) /\ Len([s EXCEPT ![n] = c]) = n
  BY <1>3, SeqDef, LenProperties
<1>5. [s EXCEPT ![n] = c][n] = c /\ \A k \in 1 .. n - 1 : [s EXCEPT ![n] = c][k] = s[k]
  <2>1. n \in 1 .. n /\ \A k \in 1 .. n - 1 : k \in 1 .. n /\ k # n
    BY <1>2
  <2> QED BY <1>1, <1>2, <2>1
<1> QED BY <1>2, <1>4, <1>5

\* The definitions about the errors stay as they are.
LEMMA SameErrs ==
  ASSUME errs' = errs
  PROVE  /\ Frames' = Frames /\ End' = End
         /\ NodesBelow' = NodesBelow /\ UnwrapLoop' = UnwrapLoop
         /\ ErrsInv => ErrsInv'
<1>1. Frames' = Frames
  BY DEF Frames
<1>2. End' = End
  BY DEF End
<1>3. UnwrapLoop' = UnwrapLoop
  BY DEF UnwrapLoop, UnwrapFrame
<1>4. NodesBelow' = NodesBelow
  BY <1>1, <1>2 DEF NodesBelow, TraceOf, KidsOf
<1>5. ErrsInv => ErrsInv'
  BY DEF ErrsInv
<1> QED BY <1>1, <1>2, <1>3, <1>4, <1>5

\* A call has an innermost one.
LEMMA Current ==
  ASSUME WalkInv, calls # << >>
  PROVE  /\ Len(calls) \in Nat \ {0}
         /\ cur \in Activations
         /\ LoopInv(cur)
<1>1. Len(calls) \in Nat \ {0} /\ Len(calls) \in 1 .. Len(calls)
  BY LenProperties, EmptySeq DEF WalkInv
<1> QED BY <1>1, ElementOfSeq DEF WalkInv, cur

\* A step of the loop: the innermost call goes on with c.
LEMMA LoopKeepsInv ==
  ASSUME WalkInv, calls # << >>, NEW c \in Activations, LoopInv(c),
         c.path = cur.path, c.given = cur.given,
         Update(c), errs' = errs, tree' = tree
  PROVE  WalkInv'
<1>1. Len(calls) \in Nat \ {0} /\ cur \in Activations /\ LoopInv(cur)
  BY Current
<1>2. /\ calls' \in Seq(Activations)
      /\ Len(calls') = Len(calls)
      /\ calls'[Len(calls)] = c
      /\ \A k \in 1 .. Len(calls) - 1 : calls'[k] = calls[k]
  BY UpdatedLast DEF WalkInv, Update
<1>3. Frames' = Frames /\ ErrsInv'
  BY SameErrs DEF WalkInv
<1>4. \A k \in 1 .. Len(calls) : k \in 1 .. Len(calls) - 1 \/ k = Len(calls)
  BY <1>1
<1>5. \A k \in 1 .. Len(calls') : LoopInv(calls[k])'
  <2> SUFFICES ASSUME NEW k \in 1 .. Len(calls) PROVE LoopInv(calls[k])'
    BY <1>2
  <2>1. CASE k = Len(calls)
    BY <1>2, <1>3, <2>1 DEF LoopInv
  <2>2. CASE k \in 1 .. Len(calls) - 1
    BY <1>2, <1>3, <2>2 DEF LoopInv, WalkInv
  <2> QED BY <1>4, <2>1, <2>2
<1>6. \A k \in 1 .. Len(calls) : calls'[k].given = calls[k].given /\ calls'[k].path = calls[k].path
  BY <1>2, <1>4 DEF cur
<1>7. StackInv'
  <2>1. ASSUME NEW k \in 1 .. Len(calls) - 1
        PROVE  /\ calls'[k].i > 1
               /\ calls'[k + 1].given = calls'[k].kids[calls'[k].i - 1]
               /\ calls'[k + 1].path = Append(calls'[k].path, calls'[k].i - 1)
    <3>1. k + 1 \in 1 .. Len(calls)
      BY <1>1
    <3> QED BY <1>2, <1>6, <2>1, <3>1 DEF StackInv, WalkInv
  <2>2. \A k \in 1 .. Len(calls) : calls'[k].given + k <= N + 1
    BY <1>6 DEF StackInv, WalkInv
  <2>3. calls'[1].given = N /\ calls'[1].path = << >>
    BY <1>1, <1>6 DEF StackInv, WalkInv
  <2> QED BY <1>2, <2>1, <2>2, <2>3 DEF StackInv
<1>8. tree' \subseteq Nodes /\ \A n \in tree' : n.trace = Reverse(Frames'[n.err])
  BY <1>3 DEF WalkInv
<1> QED BY <1>2, <1>3, <1>5, <1>7, <1>8 DEF WalkInv

LEMMA UnwrapFrameOf ==
  ASSUME ErrsInv, NEW e \in 0 .. N
  PROVE  /\ UnwrapFrame(e).ok <=> e # Nil /\ errs[e].frame = "known"
         /\ UnwrapFrame(e).ok => UnwrapFrame(e).inner = errs[e].next
<1>1. e # Nil /\ errs[e].unwrap # "one" => errs[e].next = Nil
  BY Wrapped, TraceTreeAssumption DEF Errs, Nil
<1>2. CASE e = Nil
  BY <1>2 DEF UnwrapFrame
<1>3. CASE e # Nil
  BY <1>1, <1>3 DEF UnwrapFrame
<1> QED BY <1>2, <1>3

\* What the loop of the innermost call is at.
LEMMA InLoop ==
  ASSUME WalkInv, Looping
  PROVE  /\ calls # << >>
         /\ cur \in Activations
         /\ cur.err \in 0 .. N
         /\ cur.err <= cur.given
         /\ cur.i = 0 /\ cur.kids = << >>
         /\ cur.trace \o Frames[cur.err] = Frames[cur.given]
         /\ cur.err # Nil => cur.err \in Errs
  BY Current, TraceTreeAssumption DEF Looping, LoopInv, Activations, Errs, Nil

\* The next error is closer to the innermost one.
LEMMA NextError ==
  ASSUME ErrsInv, NEW e \in Errs
  PROVE  errs[e].next \in 0 .. N /\ errs[e].next < e
<1>1. errs[e].next \in 0 .. e - 1
  BY Wrapped
<1> QED BY <1>1, TraceTreeAssumption DEF Errs

LEMMA TakeFrameKeepsInv ==
  ASSUME WalkInv, TakeFrame
  PROVE  WalkInv'
<1> USE DEF TakeFrame
<1>1. PICK b \in Activations : b = cur
  BY InLoop
<1>2. /\ b.err \in 0 .. N /\ b.err <= b.given /\ b.i = 0 /\ b.kids = << >>
      /\ b.trace \o Frames[b.err] = Frames[b.given]
  BY <1>1, InLoop
<1>3. /\ b.err \in Errs /\ errs[b.err].frame = "known"
      /\ UnwrapFrame(b.err).inner = errs[b.err].next
  BY <1>1, <1>2, InLoop, UnwrapFrameOf DEF WalkInv
<1>4. PICK x \in 0 .. N : x = errs[b.err].next /\ x < b.err
  BY <1>3, NextError DEF WalkInv
<1>5. PICK c : c = [b EXCEPT !.trace = Append(@, b.err), !.err = x]
  OBVIOUS
<1>6. c \in Activations /\ c.path = b.path /\ c.given = b.given /\ c.err = x /\ c.i = b.i
      /\ c.kids = b.kids /\ c.trace = Append(b.trace, b.err)
  <2>1. Append(b.trace, b.err) \in Seq(Errs)
    BY <1>1, <1>3, AppendProperties DEF Activations
  <2> QED BY <1>1, <1>5, <2>1 DEF Activations
<1>7. c.trace \o Frames[x] = b.trace \o Frames[b.err]
  <2>1. PICK t \in Seq(Errs), u \in Seq(Errs) : t = b.trace /\ u = Frames[x]
    BY <1>1, <1>4, FramesTyped DEF Activations, WalkInv
  <2>2. <<b.err>> \in Seq(Errs) /\ Append(t, b.err) = t \o <<b.err>>
    BY <1>3, AppendIsConcat
  <2>3. Frames[b.err] = <<b.err>> \o u
    BY <1>3, <1>4, <2>1, FramesUnfold DEF WalkInv
  <2>4. (t \o <<b.err>>) \o u = t \o (<<b.err>> \o u)
    BY <2>2, TracesAssociate
  <2> QED BY <1>6, <2>1, <2>2, <2>3, <2>4
<1>8. LoopInv(c)
  <2>1. c.err <= c.given
    BY <1>1, <1>2, <1>3, <1>4, <1>6 DEF Activations, Errs
  <2>2. Len(c.kids) = 0
    BY <1>2, <1>6, EmptySeq
  <2> QED BY <1>2, <1>6, <1>7, <2>1, <2>2 DEF LoopInv
<1>9. Update(c)
  BY <1>1, <1>3, <1>4, <1>5
<1> QED BY <1>1, <1>6, <1>8, <1>9, LoopKeepsInv DEF Looping

LEMMA UnwrapOneKeepsInv ==
  ASSUME WalkInv, UnwrapOne
  PROVE  WalkInv'
<1> USE DEF UnwrapOne
<1>1. PICK b \in Activations : b = cur
  BY InLoop
<1>2. /\ b.err \in 0 .. N /\ b.err <= b.given /\ b.i = 0 /\ b.kids = << >>
      /\ b.trace \o Frames[b.err] = Frames[b.given]
  BY <1>1, InLoop
<1>3. b.err \in Errs /\ errs[b.err].frame # "known"
  BY <1>1, <1>2, InLoop, UnwrapFrameOf DEF WalkInv, HasUnwrap
<1>4. PICK x \in 0 .. N : x = errs[b.err].next /\ x < b.err
  BY <1>3, NextError DEF WalkInv
<1>5. PICK c : c = [b EXCEPT !.err = x]
  OBVIOUS
<1>6. c \in Activations /\ c.path = b.path /\ c.given = b.given /\ c.err = x /\ c.i = b.i
      /\ c.kids = b.kids /\ c.trace = b.trace
  BY <1>1, <1>5 DEF Activations
<1>7. Frames[b.err] = Frames[x]
  <2>1. Frames[b.err] = << >> \o Frames[x] /\ Frames[x] \in Seq(Errs)
    BY <1>3, <1>4, FramesUnfold, FramesTyped DEF WalkInv
  <2> QED BY <2>1, ConcatEmptySeq
<1>8. LoopInv(c)
  <2>1. c.err <= c.given
    BY <1>1, <1>2, <1>3, <1>4, <1>6 DEF Activations, Errs
  <2>2. Len(c.kids) = 0
    BY <1>2, <1>6, EmptySeq
  <2>3. c.trace \o Frames[c.err] = Frames[c.given]
    BY <1>2, <1>6, <1>7
  <2> QED BY <1>2, <1>6, <2>1, <2>2, <2>3 DEF LoopInv
<1>9. Update(c)
  BY <1>1, <1>4, <1>5
<1> QED BY <1>1, <1>6, <1>8, <1>9, LoopKeepsInv DEF Looping

LEMMA UnwrapManyKeepsInv ==
  ASSUME WalkInv, UnwrapMany
  PROVE  WalkInv'
<1> USE DEF UnwrapMany
<1>1. PICK b \in Activations : b = cur
  BY InLoop
<1>2. /\ b.err \in 0 .. N /\ b.err <= b.given /\ b.i = 0
      /\ b.trace \o Frames[b.err] = Frames[b.given]
  BY <1>1, InLoop
<1>3. b.err \in Errs /\ errs[b.err].frame # "known" /\ errs[b.err].unwrap = "many"
  BY <1>1, <1>2, InLoop, UnwrapFrameOf DEF WalkInv, HasUnwrap
<1>4. PICK q : q = errs[b.err].kids /\ q \in Seq(1 .. b.err - 1)
  BY <1>3, Wrapped DEF WalkInv
<1>5. PICK c : c = [b EXCEPT !.kids = q, !.i = 1]
  OBVIOUS
<1>6. Len(q) \in Nat /\ \A j \in 1 .. Len(q) : q[j] \in 1 .. b.err - 1
  BY <1>4, LenProperties, ElementOfSeq
<1>7. q \in Seq(Errs)
  <2>1. 1 .. b.err - 1 \subseteq Errs
    BY <1>3, TraceTreeAssumption DEF Errs
  <2>2. PICK S : S = 1 .. b.err - 1
    OBVIOUS
  <2> QED BY <1>4, <2>1, <2>2, SeqMonotonic
<1>8. c \in Activations /\ c.path = b.path /\ c.given = b.given /\ c.err = b.err /\ c.i = 1
      /\ c.kids = q /\ c.trace = b.trace
  BY <1>1, <1>5, <1>7 DEF Activations
<1>9. b.trace = Frames[b.given]
  <2>1. errs[b.err].next = Nil
    BY <1>3, Wrapped DEF WalkInv
  <2>2. Frames[b.err] = << >> \o << >>
    BY <1>3, <2>1, FramesUnfold DEF WalkInv
  <2>3. Frames[b.err] = << >>
    BY <2>2
  <2>4. b.trace \in Seq(Errs)
    BY <1>1 DEF Activations
  <2> QED BY <1>2, <2>3, <2>4, ConcatEmptySeq
<1>10. LoopInv(c)
  <2>1. \A j \in 1 .. Len(q) : q[j] < b.given
    BY <1>1, <1>2, <1>3, <1>6 DEF Activations, Errs
  <2> QED BY <1>2, <1>6, <1>8, <1>9, <2>1 DEF LoopInv
<1>11. Update(c)
  BY <1>1, <1>4, <1>5
<1> QED BY <1>1, <1>8, <1>10, <1>11, LoopKeepsInv DEF Looping

\* What Child does to the calls: the innermost one, b, becomes c, which waits
\* for its j-th child, a.
Starts(b, c, a, j) ==
  /\ b = cur /\ j = b.i /\ j <= Len(b.kids) /\ b.kids[j] < b.given
  /\ c.path = b.path /\ c.given = b.given /\ c.trace = b.trace /\ c.kids = b.kids
  /\ c.err = b.err /\ c.i = j + 1
  /\ a.path = Append(b.path, j) /\ a.given = b.kids[j] /\ a.err = b.kids[j]
  /\ a.trace = << >> /\ a.kids = << >> /\ a.i = 0
  /\ Len(calls) \in Nat \ {0}
  /\ calls' \in Seq(Activations) /\ Len(calls') = Len(calls) + 1
  /\ calls'[Len(calls)] = c /\ calls'[Len(calls) + 1] = a
  /\ \A k \in 1 .. Len(calls) - 1 : calls'[k] = calls[k]

LEMMA ChildStarts ==
  ASSUME WalkInv, Child
  PROVE  \E b, c, a \in Activations : \E j \in Nat \ {0} : Starts(b, c, a, j)
<1>1. calls # << >> /\ Len(calls) \in Nat \ {0} /\ LoopInv(cur)
  BY Current DEF Child
<1>2. PICK b \in Activations : b = cur
  BY <1>1, Current
<1>3. b.path \in Seq(Nat) /\ b.kids \in Seq(Errs) /\ b.i \in Nat /\ b.trace \in Seq(Errs)
      /\ b.err \in 0 .. N /\ b.given \in Errs
  BY DEF Activations
<1>4. PICK j \in Nat \ {0} : j = b.i /\ j <= Len(b.kids) /\ j \in 1 .. Len(b.kids)
  BY <1>2, <1>3, LenProperties DEF Child
<1>5. b.kids[j] \in Errs /\ b.kids[j] < b.given
  BY <1>1, <1>2, <1>3, <1>4, ElementOfSeq DEF LoopInv
<1>6. b.kids[j] \in 0 .. N /\ << >> \in Seq(Errs) /\ 0 \in Nat
  BY <1>5, EmptySeq, TraceTreeAssumption DEF Errs
<1>a. PICK m \in Nat : m = j + 1
  OBVIOUS
<1>7. PICK c : c = [b EXCEPT !.i = m]
  OBVIOUS
<1>8. /\ c \in Activations /\ c.path = b.path /\ c.given = b.given /\ c.trace = b.trace
      /\ c.kids = b.kids /\ c.err = b.err /\ c.i = j + 1
  BY <1>a, <1>7 DEF Activations
<1>9. Append(b.path, j) \in Seq(Nat)
  BY <1>3, AppendProperties
<1>10. PICK a : a = Activation(Append(b.path, j), b.kids[j])
  OBVIOUS
<1>11. /\ a \in Activations /\ a.path = Append(b.path, j)
       /\ a.given = b.kids[j] /\ a.err = b.kids[j]
       /\ a.trace = << >> /\ a.kids = << >> /\ a.i = 0
  BY <1>5, <1>6, <1>9, <1>10 DEF Activation, Activations
<1>12. PICK t : t = [calls EXCEPT ![Len(calls)] = c]
  OBVIOUS
<1>13. /\ t \in Seq(Activations) /\ Len(t) = Len(calls) /\ t[Len(calls)] = c
       /\ \A k \in 1 .. Len(calls) - 1 : t[k] = calls[k]
  BY <1>1, <1>8, <1>12, UpdatedLast DEF WalkInv
<1>14. calls' = Append(t, a)
  BY <1>2, <1>4, <1>7, <1>a, <1>10, <1>12 DEF Child, cur
<1>15. PICK n \in Nat \ {0} : n = Len(calls)
  BY <1>1
<1>16. /\ Append(t, a) \in Seq(Activations) /\ Len(Append(t, a)) = n + 1
       /\ Append(t, a)[n + 1] = a /\ \A k \in 1 .. n : Append(t, a)[k] = t[k]
  BY <1>11, <1>13, <1>15, AppendProperties
<1>17. n \in 1 .. n /\ \A k \in 1 .. n - 1 : k \in 1 .. n
  BY <1>15
<1>18. /\ calls' \in Seq(Activations) /\ Len(calls') = Len(calls) + 1
       /\ calls'[Len(calls)] = c /\ calls'[Len(calls) + 1] = a
       /\ \A k \in 1 .. Len(calls) - 1 : calls'[k] = calls[k]
  BY <1>13, <1>14, <1>15, <1>16, <1>17
<1>19. /\ b = cur /\ j = b.i /\ j <= Len(b.kids) /\ b.kids[j] < b.given
       /\ c.path = b.path /\ c.given = b.given /\ c.trace = b.trace /\ c.kids = b.kids
       /\ c.err = b.err /\ c.i = j + 1
       /\ a.path = Append(b.path, j) /\ a.given = b.kids[j] /\ a.err = b.kids[j]
       /\ a.trace = << >> /\ a.kids = << >> /\ a.i = 0
  BY <1>2, <1>4, <1>5, <1>8, <1>11
<1>20. Starts(b, c, a, j)
  BY <1>1, <1>18, <1>19 DEF Starts
<1> QED BY <1>8, <1>11, <1>20

LEMMA ChildKeepsInv ==
  ASSUME WalkInv, Child
  PROVE  WalkInv'
<1>1. errs' = errs /\ tree' = tree /\ calls # << >>
  BY DEF Child
<1>a. PICK n \in Nat \ {0} : n = Len(calls)
  BY <1>1, Current
<1>2. PICK b, c, a \in Activations, j \in Nat \ {0} :
        /\ b = cur /\ j = b.i /\ j <= Len(b.kids) /\ b.kids[j] < b.given
        /\ c.path = b.path /\ c.given = b.given /\ c.trace = b.trace /\ c.kids = b.kids
        /\ c.err = b.err /\ c.i = j + 1
        /\ a.path = Append(b.path, j) /\ a.given = b.kids[j] /\ a.err = b.kids[j]
        /\ a.trace = << >> /\ a.kids = << >> /\ a.i = 0
        /\ calls' \in Seq(Activations) /\ Len(calls') = n + 1
        /\ calls'[n] = c /\ calls'[n + 1] = a
        /\ \A k \in 1 .. n - 1 : calls'[k] = calls[k]
  <2>1. PICK b, c, a \in Activations, j \in Nat \ {0} : Starts(b, c, a, j)
    BY ChildStarts
  <2> QED BY <1>a, <2>1 DEF Starts
<1>3. calls[n] = b /\ LoopInv(b)
  BY <1>1, <1>2, <1>a, Current DEF cur
<1>4. Frames' = Frames /\ ErrsInv'
  BY <1>1, SameErrs DEF WalkInv
<1>5. a.given \in Nat /\ a.given \in Errs /\ b.given \in Nat /\ a.err = a.given
  <2>1. Errs \subseteq Nat
    BY TraceTreeAssumption DEF Errs
  <2>2. a.given \in Errs /\ b.given \in Errs
    BY DEF Activations
  <2> QED BY <1>2, <2>1, <2>2
<1>6. \A k \in 1 .. n + 1 : k \in 1 .. n - 1 \/ k = n \/ k = n + 1
  OBVIOUS
<1>b. \A k \in 1 .. n - 1 : k \in 1 .. Len(calls) - 1 /\ k \in 1 .. Len(calls)
  BY <1>a
<1>7. ASSUME NEW k \in 1 .. n + 1
      PROVE  LoopInv(calls[k])'
  <2>1. CASE k \in 1 .. n - 1
    <3>1. LoopInv(calls[k]) /\ calls'[k] = calls[k]
      BY <1>2, <1>b, <2>1 DEF WalkInv
    <3> QED BY <1>4, <3>1 DEF LoopInv
  <2>2. CASE k = n
    <3>1. LoopInv(c)
      <4>1. b.kids \in Seq(Errs) /\ Len(b.kids) \in Nat
        BY LenProperties DEF Activations
      <4>2. c.i <= Len(c.kids) + 1 /\ c.i > 0 /\ c.i # 0
        BY <1>2, <4>1
      <4>3. b.i > 0
        BY <1>2
      <4>4. c.err <= c.given /\ c.trace = Frames[c.given]
        BY <1>2, <1>3, <4>3 DEF LoopInv
      <4>5. \A i \in 1 .. Len(c.kids) : c.kids[i] < c.given
        BY <1>2, <1>3 DEF LoopInv
      <4> QED BY <4>2, <4>4, <4>5 DEF LoopInv
    <3> QED BY <1>2, <1>4, <2>2, <3>1 DEF LoopInv
  <2>3. CASE k = n + 1
    <3>1. Len(a.kids) = 0
      BY <1>2, EmptySeq
    <3>2. a.trace \o Frames[a.err] = Frames[a.given]
      <4>1. Frames[a.err] \in Seq(Errs)
        BY <1>5, FramesTyped DEF WalkInv, Errs
      <4> QED BY <1>2, <1>5, <4>1, ConcatEmptySeq
    <3>3. LoopInv(a)
      BY <1>2, <1>5, <3>1, <3>2 DEF LoopInv
    <3> QED BY <1>2, <1>4, <2>3, <3>3 DEF LoopInv
  <2> QED BY <1>6, <2>1, <2>2, <2>3
<1>8. StackInv'
  <2>1. ASSUME NEW k \in 1 .. (n + 1) - 1
        PROVE  /\ calls'[k].i > 1
               /\ calls'[k + 1].given = calls'[k].kids[calls'[k].i - 1]
               /\ calls'[k + 1].path = Append(calls'[k].path, calls'[k].i - 1)
    <3>1. CASE k \in 1 .. n - 1
      <4>1. k + 1 \in 1 .. n - 1 \/ k + 1 = n
        BY <3>1
      <4>2. calls'[k + 1].given = calls[k + 1].given /\ calls'[k + 1].path = calls[k + 1].path
        BY <1>2, <1>3, <4>1
      <4>3. /\ calls[k].i > 1
            /\ calls[k + 1].given = calls[k].kids[calls[k].i - 1]
            /\ calls[k + 1].path = Append(calls[k].path, calls[k].i - 1)
        BY <1>b, <3>1 DEF WalkInv, StackInv
      <4> QED BY <1>2, <3>1, <4>2, <4>3
    <3>2. CASE k = n
      <4>1. c.i - 1 = j /\ c.i > 1
        BY <1>2
      <4> QED BY <1>2, <3>2, <4>1
    <3> QED BY <1>6, <2>1, <3>1, <3>2
  <2>2. ASSUME NEW k \in 1 .. n + 1
        PROVE  calls'[k].given + k <= N + 1
    <3>1. CASE k \in 1 .. n - 1
      BY <1>2, <1>b, <3>1 DEF WalkInv, StackInv
    <3>2. n \in 1 .. n /\ b.given + n <= N + 1
      BY <1>2, <1>3, <1>a DEF WalkInv, StackInv
    <3>3. CASE k = n
      BY <1>2, <3>2, <3>3
    <3>4. CASE k = n + 1
      BY <1>2, <1>5, <3>2, <3>4, TraceTreeAssumption
    <3>5. k \in 1 .. n - 1 \/ k = n \/ k = n + 1
      BY <3>2
    <3> QED BY <3>1, <3>3, <3>4, <3>5
  <2>3. calls'[1].given = N /\ calls'[1].path = << >>
    <3>1. 1 \in 1 .. n - 1 \/ 1 = n
      OBVIOUS
    <3>2. calls[1].given = N /\ calls[1].path = << >>
      BY <1>1 DEF WalkInv, StackInv
    <3> QED BY <1>2, <1>3, <3>1, <3>2
  <2> QED BY <1>2, <2>1, <2>2, <2>3 DEF StackInv
<1>9. tree' \subseteq Nodes /\ \A m \in tree' : m.trace = Reverse(Frames'[m.err])
  BY <1>1, <1>4 DEF WalkInv
<1> QED BY <1>2, <1>4, <1>7, <1>8, <1>9 DEF WalkInv

\* All but the last.
LEMMA AllButLast ==
  \A S : \A s \in Seq(S) : s # << >> =>
    /\ Front(s) \in Seq(S)
    /\ Len(Front(s)) = Len(s) - 1
    /\ \A k \in 1 .. Len(s) - 1 : Front(s)[k] = s[k]
<1> SUFFICES ASSUME NEW S, NEW s \in Seq(S), s # << >>
             PROVE  /\ Front(s) \in Seq(S)
                    /\ Len(Front(s)) = Len(s) - 1
                    /\ \A k \in 1 .. Len(s) - 1 : Front(s)[k] = s[k]
  OBVIOUS
<1>1. Len(s) \in Nat \ {0}
  BY EmptySeq, LenProperties
<1>2. PICK m \in Int : m = Len(s) - 1
  BY <1>1
<1>3. \A k \in 1 .. m : s[k] \in S
  BY <1>1, <1>2, ElementOfSeq
<1>4. Front(s) = SubSeq(s, 1, m)
  BY <1>2 DEF Front
<1>5. /\ SubSeq(s, 1, m) \in Seq(S)
      /\ Len(SubSeq(s, 1, m)) = IF 1 <= m THEN m - 1 + 1 ELSE 0
      /\ \A k \in 1 .. m - 1 + 1 : SubSeq(s, 1, m)[k] = s[1 + k - 1]
  BY <1>3, SubSeqProperties
<1> QED BY <1>1, <1>2, <1>4, <1>5

\* What Finish does: the innermost call, c, the n-th, returns.
Returns(c, n) ==
  /\ n = Len(calls) /\ calls[n] = c /\ LoopInv(c)
  /\ c.trace = Frames[c.given]
  /\ c.i > Len(c.kids) \/ (c.i = 0 /\ (c.err = Nil \/ errs[c.err].unwrap = "none"))
  /\ tree' = tree \union {[path |-> c.path, err |-> c.given, trace |-> TraceOf(c.given)]}
  /\ calls' \in Seq(Activations) /\ Len(calls') = n - 1
  /\ \A k \in 1 .. n - 1 : calls'[k] = calls[k]

LEMMA FinishReturns ==
  ASSUME WalkInv, Finish
  PROVE  \E c \in Activations : \E n \in Nat \ {0} : Returns(c, n)
<1>1. calls # << >> /\ Len(calls) \in Nat \ {0} /\ LoopInv(cur)
  BY Current DEF Finish
<1>2. PICK c \in Activations, n \in Nat \ {0} : c = cur /\ n = Len(calls) /\ calls[n] = c /\ LoopInv(c)
  BY <1>1, Current DEF cur
<1>3. c.trace \in Seq(Errs) /\ c.err \in 0 .. N /\ c.kids \in Seq(Errs) /\ c.i \in Nat
  BY DEF Activations
<1>4. Len(c.kids) \in Nat
  BY <1>3, LenProperties
<1>5. /\ c.trace = Frames[c.given]
      /\ c.i > Len(c.kids) \/ (c.i = 0 /\ (c.err = Nil \/ errs[c.err].unwrap = "none"))
  <2>1. CASE c.i > Len(c.kids)
    <3>1. c.i > 0
      BY <1>3, <1>4, <2>1
    <3> QED BY <1>2, <2>1, <3>1 DEF LoopInv
  <2>2. CASE ~ (c.i > Len(c.kids))
    <3>1. Looping /\ ~ UnwrapFrame(c.err).ok /\ ~ HasUnwrap("one") /\ ~ HasUnwrap("many")
      BY <1>2, <2>2 DEF Finish
    <3>2. c.i = 0 /\ c.trace \o Frames[c.err] = Frames[c.given]
      BY <1>2, <3>1, InLoop
    <3>3. c.err # Nil => c.err \in Errs
      BY <1>2, <3>1, InLoop
    <3>4. c.err # Nil => errs[c.err].unwrap = "none" /\ errs[c.err].next = Nil
      BY <1>2, <3>1, <3>3, Wrapped DEF HasUnwrap, WalkInv
    <3>5. Frames[c.err] = << >>
      <4>1. CASE c.err = Nil
        BY <4>1, FramesUnfold DEF WalkInv
      <4>2. CASE c.err # Nil
        <5>1. errs[c.err].frame # "known"
          BY <1>3, <3>1, <4>2, UnwrapFrameOf DEF WalkInv
        <5>2. Frames[c.err] = << >> \o << >>
          BY <3>3, <3>4, <4>2, <5>1, FramesUnfold DEF WalkInv
        <5> QED BY <5>2
      <4> QED BY <4>1, <4>2
    <3>6. c.trace \o << >> = c.trace
      BY <1>3, ConcatEmptySeq
    <3> QED BY <3>2, <3>4, <3>5, <3>6
  <2> QED BY <2>1, <2>2
<1>6. tree' = tree \union {[path |-> c.path, err |-> c.given, trace |-> TraceOf(c.given)]}
  BY <1>2, <1>5 DEF Finish, TraceOf
<1>7. /\ calls' \in Seq(Activations) /\ Len(calls') = n - 1
      /\ \A k \in 1 .. n - 1 : calls'[k] = calls[k]
  <2>1. /\ Front(calls) \in Seq(Activations) /\ Len(Front(calls)) = Len(calls) - 1
        /\ \A k \in 1 .. Len(calls) - 1 : Front(calls)[k] = calls[k]
    BY <1>1, AllButLast DEF WalkInv
  <2> QED BY <1>2, <2>1 DEF Finish
<1>8. Returns(c, n)
  BY <1>2, <1>5, <1>6, <1>7 DEF Returns
<1> QED BY <1>8

LEMMA FinishKeepsInv ==
  ASSUME WalkInv, Finish
  PROVE  WalkInv'
<1>1. PICK c \in Activations, n \in Nat \ {0} : Returns(c, n)
  BY FinishReturns
<1>2. /\ n = Len(calls) /\ calls[n] = c
      /\ tree' = tree \union {[path |-> c.path, err |-> c.given, trace |-> TraceOf(c.given)]}
      /\ calls' \in Seq(Activations) /\ Len(calls') = n - 1
      /\ \A k \in 1 .. n - 1 : calls'[k] = calls[k]
  BY <1>1 DEF Returns
<1>3. errs' = errs
  BY DEF Finish
<1>4. Frames' = Frames /\ ErrsInv'
  BY <1>3, SameErrs DEF WalkInv
<1>5. \A k \in 1 .. n - 1 : LoopInv(calls[k])'
  <2> TAKE k \in 1 .. n - 1
  <2>1. LoopInv(calls[k]) /\ calls'[k] = calls[k]
    BY <1>2 DEF WalkInv
  <2> QED BY <1>4, <2>1 DEF LoopInv
<1>6. StackInv'
  <2>1. ASSUME NEW k \in 1 .. (n - 1) - 1
        PROVE  /\ calls'[k].i > 1
               /\ calls'[k + 1].given = calls'[k].kids[calls'[k].i - 1]
               /\ calls'[k + 1].path = Append(calls'[k].path, calls'[k].i - 1)
    <3>1. k \in 1 .. n - 1 /\ k + 1 \in 1 .. n - 1
      OBVIOUS
    <3>2. calls'[k] = calls[k] /\ calls'[k + 1] = calls[k + 1]
      BY <1>2, <3>1
    <3>3. /\ calls[k].i > 1
          /\ calls[k + 1].given = calls[k].kids[calls[k].i - 1]
          /\ calls[k + 1].path = Append(calls[k].path, calls[k].i - 1)
      BY <1>2, <3>1 DEF WalkInv, StackInv
    <3> QED BY <3>2, <3>3
  <2>2. ASSUME NEW k \in 1 .. n - 1
        PROVE  calls'[k].given + k <= N + 1
    BY <1>2 DEF WalkInv, StackInv
  <2>3. calls' # << >> => calls'[1].given = N /\ calls'[1].path = << >>
    <3>1. CASE n = 1
      BY <1>2, <3>1, EmptySeq
    <3>2. CASE n # 1
      <4>1. 1 \in 1 .. n - 1 /\ calls # << >>
        BY <1>2, <3>2, EmptySeq
      <4> QED BY <1>2, <4>1 DEF WalkInv, StackInv
    <3> QED BY <3>1, <3>2
  <2> QED BY <1>2, <2>1, <2>2, <2>3 DEF StackInv
<1>7. ASSUME NEW m \in tree'
      PROVE  m \in Nodes /\ m.trace = Reverse(Frames'[m.err])
  <2>1. CASE m \in tree
    BY <1>4, <2>1 DEF WalkInv
  <2>2. CASE m = [path |-> c.path, err |-> c.given, trace |-> TraceOf(c.given)]
    <3>1. c.path \in Seq(Nat) /\ c.given \in Errs /\ c.given \in 0 .. N
      BY TraceTreeAssumption DEF Activations, Errs
    <3>2. Frames[c.given] \in Seq(Errs)
      BY <3>1, FramesTyped DEF WalkInv
    <3>3. TraceOf(c.given) \in Seq(Errs)
      BY <3>2, ReverseTwice DEF TraceOf
    <3> QED BY <1>4, <2>2, <3>1, <3>3 DEF Nodes, TraceOf
  <2> QED BY <1>2, <1>7, <2>1, <2>2
<1>8. tree' \subseteq Nodes /\ \A m \in tree' : m.trace = Reverse(Frames'[m.err])
  BY <1>7
<1> QED BY <1>2, <1>4, <1>5, <1>6, <1>8 DEF WalkInv

LEMMA InitWalk == Init => WalkInv
<1> SUFFICES ASSUME Init PROVE WalkInv
  OBVIOUS
<1>1. ErrsInv
  BY DEF Init, ErrsInv
<1>2. N \in Errs /\ N \in 0 .. N /\ << >> \in Seq(Nat) /\ << >> \in Seq(Errs) /\ 0 \in Nat
  BY TraceTreeAssumption, EmptySeq DEF Errs
<1>3. PICK a : a = Activation(<< >>, N)
  OBVIOUS
<1>4. a \in Activations /\ a.path = << >> /\ a.given = N /\ a.err = N /\ a.i = 0
      /\ a.kids = << >> /\ a.trace = << >>
  BY <1>2, <1>3 DEF Activation, Activations
<1>5. calls = <<a>> /\ Len(calls) = 1 /\ calls[1] = a /\ tree = {}
  BY <1>3 DEF Init
<1>6. LoopInv(a)
  <2>1. << >> \o Frames[N] = Frames[N]
    BY <1>1, <1>2, FramesTyped, ConcatEmptySeq
  <2>2. Len(a.kids) = 0
    BY <1>4, EmptySeq
  <2> QED BY <1>2, <1>4, <2>1, <2>2, TraceTreeAssumption DEF LoopInv
<1>7. StackInv
  BY <1>4, <1>5, TraceTreeAssumption DEF StackInv
<1> QED BY <1>1, <1>4, <1>5, <1>6, <1>7 DEF WalkInv

LEMMA StutterKeepsInv == WalkInv /\ UNCHANGED vars => WalkInv'
<1> SUFFICES ASSUME WalkInv, UNCHANGED vars PROVE WalkInv'
  OBVIOUS
<1>1. errs' = errs /\ calls' = calls /\ tree' = tree
  BY DEF vars
<1>2. Frames' = Frames /\ ErrsInv'
  BY <1>1, SameErrs DEF WalkInv
<1> QED BY <1>1, <1>2 DEF WalkInv, StackInv, LoopInv

LEMMA WalkInvariant == Spec => []WalkInv
<1>1. WalkInv /\ [Next]_vars => WalkInv'
  BY TakeFrameKeepsInv, UnwrapOneKeepsInv, UnwrapManyKeepsInv, ChildKeepsInv, FinishKeepsInv,
     StutterKeepsInv DEF Next
<1> QED BY InitWalk, <1>1, PTL DEF Spec
----------------------------------------------------------------------------
(***************************************************************************)
(* TypeOK: the recursion of buildTraceTree is never deeper than the        *)
(* number of errors, as each call is given a smaller error than its        *)
(* caller's.                                                               *)
(***************************************************************************)
THEOREM TypeCorrect == Spec => []TypeOK
<1>1. WalkInv => TypeOK
  <2> SUFFICES ASSUME WalkInv PROVE TypeOK
    OBVIOUS
  <2>1. Len(calls) \in Nat
    BY LenProperties DEF WalkInv
  <2>2. ASSUME NEW k \in 1 .. Len(calls)
        PROVE  /\ calls[k].err \in 0 .. N /\ calls[k].given \in Errs
               /\ calls[k].i \in 0 .. Len(calls[k].kids) + 1
    <3>1. PICK c \in Activations : c = calls[k]
      BY ElementOfSeq DEF WalkInv
    <3>2. c.err \in 0 .. N /\ c.given \in Errs /\ c.i \in Nat /\ c.kids \in Seq(Errs)
      BY DEF Activations
    <3>3. c.i <= Len(c.kids) + 1 /\ Len(c.kids) \in Nat
      BY <3>1, <3>2, LenProperties DEF WalkInv, LoopInv
    <3> QED BY <3>1, <3>2, <3>3
  <2>3. Len(calls) <= N
    <3>1. CASE Len(calls) = 0
      BY <3>1, TraceTreeAssumption
    <3>2. CASE Len(calls) # 0
      <4>1. Len(calls) \in 1 .. Len(calls)
        BY <2>1, <3>2
      <4>2. calls[Len(calls)].given + Len(calls) <= N + 1
        BY <4>1 DEF WalkInv, StackInv
      <4>3. PICK g : g = calls[Len(calls)].given /\ g \in 1 .. N
        BY <2>2, <4>1 DEF Errs
      <4> QED BY <2>1, <4>2, <4>3, TraceTreeAssumption
    <3> QED BY <3>1, <3>2
  <2> QED BY <2>2, <2>3 DEF TypeOK
<1> QED BY WalkInvariant, <1>1, PTL

(***************************************************************************)
(* UnwrapLoopAgrees: a caller that loops over UnwrapFrame as the package   *)
(* comment shows sees the outermost frames that buildTraceTree reports for *)
(* the same error, in the opposite order.                                  *)
(***************************************************************************)
THEOREM CallersLoopAgrees == Spec => []UnwrapLoopAgrees
<1>1. WalkInv => UnwrapLoopAgrees
  <2> SUFFICES ASSUME WalkInv, NEW n \in tree
               PROVE  IsPrefix(UnwrapLoop[n.err], Reverse(n.trace))
    BY DEF UnwrapLoopAgrees
  <2>1. PICK e \in Errs : e = n.err
    BY DEF WalkInv, Nodes
  <2>2. e \in 0 .. N
    BY TraceTreeAssumption DEF Errs
  <2>3. PICK t \in Seq(Errs) : t = Frames[e]
    BY <2>2, FramesTyped DEF WalkInv
  <2>4. Reverse(n.trace) = t
    <3>1. n.trace = Reverse(t)
      BY <2>1, <2>3 DEF WalkInv
    <3> QED BY <3>1, ReverseTwice
  <2>5. PICK u \in Seq(Errs), v \in Seq(Errs) : u = UnwrapLoop[e] /\ t = u \o v
    BY <2>2, <2>3, UnwrapSeesFrames DEF WalkInv
  <2>6. IsPrefix(u, t)
    <3>1. /\ Len(u) \in Nat /\ Len(v) \in Nat /\ Len(t) = Len(u) + Len(v)
          /\ \A k \in 1 .. Len(u) : t[k] = u[k] /\ u[k] \in Errs
      BY <2>5, LenProperties, ConcatProperties, ElementOfSeq
    <3>2. PICK m \in Nat : m = Len(u)
      BY <3>1
    <3>3. /\ SubSeq(u, 1, m) \in Seq(Errs) /\ SubSeq(t, 1, m) \in Seq(Errs)
          /\ Len(SubSeq(u, 1, m)) = Len(SubSeq(t, 1, m))
          /\ \A k \in 1 .. m : SubSeq(u, 1, m)[k] = u[k] /\ SubSeq(t, 1, m)[k] = t[k]
          /\ Len(SubSeq(u, 1, m)) = m
      <4>1. \A k \in 1 .. m : u[k] \in Errs /\ t[k] \in Errs
        BY <3>1, <3>2
      <4>2. \A s \in {u, t} :
              /\ SubSeq(s, 1, m) \in Seq(Errs)
              /\ Len(SubSeq(s, 1, m)) = IF 1 <= m THEN m - 1 + 1 ELSE 0
              /\ \A k \in 1 .. m - 1 + 1 : SubSeq(s, 1, m)[k] = s[1 + k - 1]
        BY <4>1, SubSeqProperties
      <4> QED BY <4>2
    <3>4. SubSeq(u, 1, m) = SubSeq(t, 1, m)
      BY <3>1, <3>2, <3>3, SeqEqual
    <3> QED BY <3>1, <3>2, <3>4 DEF IsPrefix
  <2> QED BY <2>1, <2>4, <2>5, <2>6
<1> QED BY WalkInvariant, <1>1, PTL
----------------------------------------------------------------------------
(***************************************************************************)
(* The tree.  It holds what the children that have returned have added.    *)
(***************************************************************************)
\* The kids of a call stay those of the error given.
LEMMA NextKids ==
  ASSUME ErrsInv, NEW e \in Errs, NEW g \in Errs, End[e] = End[g], errs[e].unwrap # "many"
  PROVE  IF errs[e].next = Nil THEN KidsOf(g) = << >> ELSE End[errs[e].next] = End[g]
<1>1. End[e] = IF errs[e].next = Nil THEN e ELSE End[errs[e].next]
  BY EndUnfold
<1>2. errs[e].kids = << >>
  BY Wrapped
<1>3. CASE errs[e].next = Nil
  BY <1>1, <1>2, <1>3 DEF KidsOf
<1>4. CASE errs[e].next # Nil
  BY <1>1, <1>4
<1> QED BY <1>3, <1>4

LEMMA SameCollected ==
  ASSUME errs' = errs, NEW k, calls'[k].path = calls[k].path, calls'[k].kids = calls[k].kids,
         Returned(k)' = Returned(k)
  PROVE  Collected(k)' = Collected(k)
<1>1. NodesBelow' = NodesBelow
  BY SameErrs
<1> QED BY <1>1 DEF Collected

LEMMA SameKids ==
  ASSUME errs' = errs, NEW k, calls'[k] = calls[k], KidsInv(calls[k])
  PROVE  KidsInv(calls[k])'
<1>1. End' = End
  BY SameErrs
<1> QED BY <1>1 DEF KidsInv, KidsOf

\* What n calls have collected, the n-th apart.
LEMMA CollectedToLast ==
  ASSUME NEW n \in Nat \ {0}
  PROVE  /\ CollectedBy(n) = CollectedBy(n - 1) \union Collected(n)
         /\ CollectedBy(n)' = CollectedBy(n - 1)' \union Collected(n)'
<1>1. \A k : k \in 1 .. n <=> k \in 1 .. n - 1 \/ k = n
  OBVIOUS
<1>2. \A m, x : x \in CollectedBy(m) <=> \E k \in 1 .. m : x \in Collected(k)
  BY DEF CollectedBy
<1>3. \A m, x : x \in CollectedBy(m)' <=> \E k \in 1 .. m : x \in Collected(k)'
  BY DEF CollectedBy
<1> QED BY <1>1, <1>2, <1>3

LEMMA SameCollectedBy ==
  ASSUME NEW n, \A k \in 1 .. n : Collected(k)' = Collected(k)
  PROVE  CollectedBy(n)' = CollectedBy(n)
BY DEF CollectedBy

\* A step of the loop adds nothing.
LEMMA LoopKeepsReport ==
  ASSUME WalkInv, ReportInv, Looping, NEW c \in Activations, c.i <= 1, KidsInv(c),
         Update(c), errs' = errs, tree' = tree
  PROVE  ReportInv'
<1>1. Len(calls) \in Nat \ {0} /\ calls # << >> /\ cur.i = 0
  BY Current DEF Looping
<1>2. PICK n \in Nat \ {0} : n = Len(calls)
  BY <1>1
<1>3. /\ calls' \in Seq(Activations) /\ Len(calls') = n /\ calls'[n] = c
      /\ \A k \in 1 .. n - 1 : calls'[k] = calls[k]
  BY <1>1, <1>2, UpdatedLast DEF WalkInv, Update
<1>4. \A k \in 1 .. n : k \in 1 .. n - 1 \/ k = n
  OBVIOUS
<1>5. ASSUME NEW k \in 1 .. n PROVE KidsInv(calls[k])'
  <2>1. CASE k = n
    <3>1. End' = End
      BY SameErrs
    <3> QED BY <1>3, <2>1, <3>1 DEF KidsInv, KidsOf
  <2>2. CASE k \in 1 .. n - 1
    BY <1>2, <1>3, <2>2, SameKids DEF ReportInv
  <2> QED BY <1>4, <2>1, <2>2
<1>6. ASSUME NEW k \in 1 .. n PROVE Collected(k)' = Collected(k)
  <2>1. CASE k = n
    <3>1. c.i \in Nat /\ 1 .. c.i - 1 = {} /\ 1 .. cur.i - 1 = {}
      BY <1>1 DEF Activations
    <3>2. Returned(k)' = {} /\ Returned(k) = {}
      BY <1>2, <1>3, <2>1, <3>1 DEF Returned, cur
    <3>3. Collected(k) = {}
      BY <3>2 DEF Collected
    <3>4. Collected(k)' = {}
      BY <3>2 DEF Collected
    <3> QED BY <3>3, <3>4
  <2>2. CASE k \in 1 .. n - 1
    <3>1. k # n /\ calls'[k] = calls[k]
      BY <1>3, <2>2
    <3>2. Returned(k)' = Returned(k)
      BY <1>2, <1>3, <3>1 DEF Returned
    <3> QED BY <3>1, <3>2, SameCollected
  <2> QED BY <1>4, <2>1, <2>2
<1>7. tree' = CollectedBy(n)'
  BY <1>1, <1>2, <1>6, SameCollectedBy DEF ReportInv, TreeInv
<1>8. calls' # << >>
  BY <1>3, EmptySeq
<1> QED BY <1>3, <1>5, <1>7, <1>8 DEF ReportInv, TreeInv, EachErrorReported

LEMMA TakeFrameKeepsReport ==
  ASSUME ~ PCMulti, WalkInv, ReportInv, TakeFrame
  PROVE  ReportInv'
<1> USE DEF TakeFrame
<1>1. PICK b \in Activations : b = cur
  BY InLoop
<1>2. b.err \in 0 .. N /\ b.i = 0 /\ b.given \in Errs
  BY <1>1, InLoop DEF Activations
<1>3. b.err \in Errs /\ errs[b.err].frame = "known" /\ UnwrapFrame(b.err).inner = errs[b.err].next
  BY <1>1, <1>2, InLoop, UnwrapFrameOf DEF WalkInv
<1>4. errs[b.err].unwrap # "many"
  BY <1>3, Wrapped DEF WalkInv
<1>5. PICK x \in 0 .. N : x = errs[b.err].next
  BY <1>3, NextError DEF WalkInv
<1>6. PICK c : c = [b EXCEPT !.trace = Append(@, b.err), !.err = x]
  OBVIOUS
<1>7. c \in Activations /\ c.given = b.given /\ c.err = x /\ c.i = b.i /\ c.kids = b.kids
  <2>1. Append(b.trace, b.err) \in Seq(Errs)
    BY <1>1, <1>3, AppendProperties DEF Activations
  <2> QED BY <1>1, <1>6, <2>1 DEF Activations
<1>8. KidsInv(b)
  BY <1>1, Current DEF ReportInv, cur, Looping
<1>9. KidsInv(c)
  <2>1. b.err # Nil /\ End[b.err] = End[b.given]
    BY <1>2, <1>3, <1>8 DEF KidsInv, Errs, Nil
  <2> QED BY <1>2, <1>3, <1>4, <1>5, <1>7, <2>1, NextKids DEF KidsInv, WalkInv
<1>10. Update(c)
  BY <1>1, <1>3, <1>5, <1>6
<1> QED BY <1>2, <1>7, <1>9, <1>10, LoopKeepsReport

LEMMA UnwrapOneKeepsReport ==
  ASSUME WalkInv, ReportInv, UnwrapOne
  PROVE  ReportInv'
<1> USE DEF UnwrapOne
<1>1. PICK b \in Activations : b = cur
  BY InLoop
<1>2. b.err \in 0 .. N /\ b.i = 0 /\ b.given \in Errs
  BY <1>1, InLoop DEF Activations
<1>3. b.err \in Errs /\ errs[b.err].unwrap # "many"
  BY <1>1, InLoop DEF HasUnwrap
<1>5. PICK x \in 0 .. N : x = errs[b.err].next
  BY <1>3, NextError DEF WalkInv
<1>6. PICK c : c = [b EXCEPT !.err = x]
  OBVIOUS
<1>7. c \in Activations /\ c.given = b.given /\ c.err = x /\ c.i = b.i /\ c.kids = b.kids
  BY <1>1, <1>6 DEF Activations
<1>8. KidsInv(b)
  BY <1>1, Current DEF ReportInv, cur, Looping
<1>9. KidsInv(c)
  <2>1. b.err # Nil /\ End[b.err] = End[b.given]
    BY <1>2, <1>3, <1>8 DEF KidsInv, Errs, Nil
  <2> QED BY <1>2, <1>3, <1>5, <1>7, <2>1, NextKids DEF KidsInv, WalkInv
<1>10. Update(c)
  BY <1>1, <1>5, <1>6
<1> QED BY <1>2, <1>7, <1>9, <1>10, LoopKeepsReport

LEMMA UnwrapManyKeepsReport ==
  ASSUME WalkInv, ReportInv, UnwrapMany
  PROVE  ReportInv'
<1> USE DEF UnwrapMany
<1>1. PICK b \in Activations : b = cur
  BY InLoop
<1>2. b.err \in 0 .. N /\ b.i = 0 /\ b.given \in Errs
  BY <1>1, InLoop DEF Activations
<1>3. b.err \in Errs /\ b.err # Nil /\ errs[b.err].unwrap = "many"
  BY <1>1, InLoop DEF HasUnwrap
<1>4. PICK q : q = errs[b.err].kids /\ q \in Seq(Errs)
  <2>1. errs[b.err].kids \in Seq(1 .. b.err - 1)
    BY <1>3, Wrapped DEF WalkInv
  <2>2. PICK S, r : S = 1 .. b.err - 1 /\ r = errs[b.err].kids
    OBVIOUS
  <2>3. S \subseteq Errs
    BY <1>3, <2>2, TraceTreeAssumption DEF Errs
  <2>4. r \in Seq(Errs)
    BY <2>1, <2>2, <2>3, SeqMonotonic
  <2> QED BY <2>2, <2>4
<1>5. PICK c : c = [b EXCEPT !.kids = q, !.i = 1]
  OBVIOUS
<1>6. c \in Activations /\ c.given = b.given /\ c.i = 1 /\ c.kids = q
  BY <1>1, <1>4, <1>5 DEF Activations
<1>7. KidsInv(b)
  BY <1>1, Current DEF ReportInv, cur, Looping
<1>8. KidsInv(c)
  <2>1. End[b.err] = End[b.given]
    BY <1>2, <1>3, <1>7 DEF KidsInv
  <2>2. errs[b.err].next = Nil
    BY <1>3, Wrapped DEF WalkInv
  <2>3. End[b.err] = b.err
    BY <1>3, <2>2, EndUnfold DEF WalkInv
  <2> QED BY <1>4, <1>6, <2>1, <2>3 DEF KidsInv, KidsOf
<1>9. Update(c)
  BY <1>1, <1>4, <1>5
<1> QED BY <1>6, <1>8, <1>9, LoopKeepsReport

LEMMA ChildKeepsReport ==
  ASSUME WalkInv, ReportInv, Child
  PROVE  ReportInv'
<1>1. errs' = errs /\ tree' = tree /\ calls # << >> /\ Len(calls) \in Nat \ {0}
  BY Current DEF Child
<1>2. PICK n \in Nat \ {0} : n = Len(calls)
  BY <1>1
<1>3. PICK b, c, a \in Activations, j \in Nat \ {0} :
        /\ b = cur /\ j = b.i
        /\ c.path = b.path /\ c.given = b.given /\ c.kids = b.kids /\ c.i = j + 1
        /\ a.given = b.kids[j] /\ a.err = b.kids[j] /\ a.kids = << >> /\ a.i = 0
        /\ calls' \in Seq(Activations) /\ Len(calls') = n + 1
        /\ calls'[n] = c /\ calls'[n + 1] = a
        /\ \A k \in 1 .. n - 1 : calls'[k] = calls[k]
  <2>1. PICK b, c, a \in Activations, j \in Nat \ {0} : Starts(b, c, a, j)
    BY ChildStarts
  <2> QED BY <1>2, <2>1 DEF Starts
<1>4. calls[n] = b
  BY <1>2, <1>3 DEF cur
<1>5. End' = End /\ NodesBelow' = NodesBelow
  BY <1>1, SameErrs
<1>6. \A k \in 1 .. n + 1 : k \in 1 .. n - 1 \/ k = n \/ k = n + 1
  OBVIOUS
<1>7. ASSUME NEW k \in 1 .. n + 1 PROVE KidsInv(calls[k])'
  <2>1. CASE k \in 1 .. n - 1
    BY <1>1, <1>2, <1>3, <2>1, SameKids DEF ReportInv
  <2>2. CASE k = n
    <3>1. KidsInv(b)
      BY <1>2, <1>4 DEF ReportInv
    <3>2. c.kids = KidsOf(c.given) /\ c.i # 0
      BY <1>3, <3>1 DEF KidsInv
    <3> QED BY <1>1, <1>3, <1>5, <2>2, <3>2 DEF KidsInv, KidsOf
  <2>3. CASE k = n + 1
    <3>1. a.err # Nil
      <4>1. a.given \in Errs /\ a.err = a.given
        BY <1>3 DEF Activations
      <4> QED BY <4>1, TraceTreeAssumption DEF Errs, Nil
    <3>2. End[a.err] = End[a.given] /\ a.i = 0
      BY <1>3
    <3> QED BY <1>1, <1>3, <1>5, <2>3, <3>1, <3>2 DEF KidsInv
  <2> QED BY <1>6, <2>1, <2>2, <2>3
<1>8. ASSUME NEW k \in 1 .. n PROVE Collected(k)' = Collected(k)
  <2>1. CASE k \in 1 .. n - 1
    <3>1. k # n /\ k # n + 1 /\ calls'[k] = calls[k]
      BY <1>3, <2>1
    <3>2. Returned(k)' = Returned(k)
      BY <1>2, <1>3, <3>1 DEF Returned
    <3> QED BY <1>1, <3>1, <3>2, SameCollected
  <2>2. CASE k = n
    <3>1. Returned(k) = 1 .. j - 1
      BY <1>2, <1>3, <1>4, <2>2 DEF Returned
    <3>2. Returned(k)' = 1 .. (j + 1) - 2
      BY <1>3, <2>2 DEF Returned
    <3>3. (j + 1) - 2 = j - 1
      OBVIOUS
    <3> QED BY <1>1, <1>3, <1>4, <2>2, <3>1, <3>2, <3>3, SameCollected
  <2> QED BY <1>6, <2>1, <2>2
<1>9. Collected(n + 1)' = {}
  <2>1. Returned(n + 1)' = 1 .. 0 - 1
    BY <1>3 DEF Returned
  <2>2. Returned(n + 1)' = {}
    BY <2>1
  <2> QED BY <2>2 DEF Collected
<1>10. tree' = CollectedBy(n + 1)'
  <2>1. tree = CollectedBy(n)
    BY <1>1, <1>2 DEF ReportInv, TreeInv
  <2>2. CollectedBy(n)' = CollectedBy(n)
    BY <1>8, SameCollectedBy
  <2>3. PICK m \in Nat \ {0} : m = n + 1 /\ m - 1 = n
    OBVIOUS
  <2>4. CollectedBy(m)' = CollectedBy(m - 1)' \union Collected(m)'
    BY CollectedToLast
  <2> QED BY <1>1, <1>9, <2>1, <2>2, <2>3, <2>4
<1>11. calls' # << >>
  BY <1>3, EmptySeq
<1> QED BY <1>3, <1>7, <1>10, <1>11 DEF ReportInv, TreeInv, EachErrorReported

\* A call adds its own node to those of its children: the nodes of its error.
LEMMA CallReturns ==
  ASSUME WalkInv, ReportInv, NEW c \in Activations, NEW n \in Nat \ {0}, Returns(c, n)
  PROVE  Collected(n) \union {[path |-> c.path, err |-> c.given, trace |-> TraceOf(c.given)]}
           = Under(c.path, NodesBelow[c.given])
<1>1. n = Len(calls) /\ calls[n] = c /\ LoopInv(c) /\ KidsInv(c)
  BY DEF Returns, ReportInv
<1>2. c.path \in Seq(Nat) /\ c.given \in Errs /\ c.kids \in Seq(Errs) /\ c.i \in Nat
  BY DEF Activations
<1>3. Len(c.kids) \in Nat
  BY <1>2, LenProperties
<1>4. c.kids = KidsOf(c.given) /\ 1 .. c.i - 1 = 1 .. Len(c.kids)
  <2>1. CASE c.i > Len(c.kids)
    <3>1. c.i > 0 /\ c.i = Len(c.kids) + 1
      BY <1>1, <1>2, <1>3, <2>1 DEF LoopInv
    <3> QED BY <1>1, <1>3, <3>1 DEF KidsInv
  <2>2. CASE c.i = 0 /\ (c.err = Nil \/ errs[c.err].unwrap = "none")
    <3>1. c.kids = << >> /\ Len(c.kids) = 0
      BY <1>1, <2>2, EmptySeq DEF LoopInv
    <3>2. KidsOf(c.given) = << >>
      <4>1. CASE c.err = Nil
        BY <1>1, <2>2, <4>1 DEF KidsInv
      <4>2. CASE c.err # Nil
        <5>1. c.err \in Errs /\ End[c.err] = End[c.given]
          BY <1>1, <2>2, <4>2, TraceTreeAssumption DEF KidsInv, Activations, Errs, Nil
        <5>2. errs[c.err].unwrap = "none"
          BY <2>2, <4>2
        <5>3. errs[c.err].kids = << >> /\ errs[c.err].next = Nil
          BY <5>1, <5>2, Wrapped DEF WalkInv
        <5>4. End[c.err] = c.err
          BY <5>1, <5>3, EndUnfold DEF WalkInv
        <5> QED BY <5>1, <5>3, <5>4 DEF KidsOf
      <4> QED BY <4>1, <4>2
    <3>3. 1 .. c.i - 1 = {} /\ 1 .. Len(c.kids) = {}
      BY <2>2, <3>1
    <3> QED BY <3>1, <3>2, <3>3
  <2> QED BY <2>1, <2>2 DEF Returns
<1>5. Collected(n) = UNION {Under(Append(c.path, i), NodesBelow[KidsOf(c.given)[i]]) :
                              i \in 1 .. Len(KidsOf(c.given))}
  <2>1. Returned(n) = 1 .. Len(KidsOf(c.given))
    BY <1>1, <1>4 DEF Returned
  <2> QED BY <1>1, <1>4, <2>1 DEF Collected
<1> QED
  <2>1. PICK p \in Seq(Nat), e \in Errs : p = c.path /\ e = c.given
    BY <1>2
  <2>2. Under(p, NodesBelow[e]) =
          {[path |-> p, err |-> e, trace |-> TraceOf(e)]}
            \union
          UNION {Under(Append(p, i), NodesBelow[KidsOf(e)[i]]) : i \in 1 .. Len(KidsOf(e))}
    BY NodesOfCall DEF WalkInv
  <2> QED BY <1>5, <2>1, <2>2

LEMMA UnderRoot ==
  ASSUME NEW S, S \subseteq Nodes
  PROVE  Under(<< >>, S) = S
<1>1. << >> \in Seq(Nat)
  BY EmptySeq
<1>2. Under(<< >>, S) = {Move(<< >>, n) : n \in S}
  BY <1>1, UnderNodes
<1>3. ASSUME NEW n \in S PROVE Move(<< >>, n) = n
  <2>1. n \in Nodes
    OBVIOUS
  <2>2. n.path \in Seq(Nat) /\ n = [path |-> n.path, err |-> n.err, trace |-> n.trace]
    BY <2>1 DEF Nodes
  <2>3. << >> \o n.path = n.path
    BY <2>2, ConcatEmptySeq
  <2> QED BY <2>2, <2>3 DEF Move
<1> QED BY <1>2, <1>3

LEMMA FinishKeepsReport ==
  ASSUME WalkInv, ReportInv, Finish
  PROVE  ReportInv'
<1>1. PICK c \in Activations, n \in Nat \ {0} : Returns(c, n)
  BY FinishReturns
<1>2. /\ n = Len(calls) /\ calls[n] = c
      /\ tree' = tree \union {[path |-> c.path, err |-> c.given, trace |-> TraceOf(c.given)]}
      /\ calls' \in Seq(Activations) /\ Len(calls') = n - 1
      /\ \A k \in 1 .. n - 1 : calls'[k] = calls[k]
  BY <1>1 DEF Returns
<1>3. errs' = errs /\ calls # << >>
  BY DEF Finish
<1>4. NodesBelow' = NodesBelow
  BY <1>3, SameErrs
<1>5. \A k \in 1 .. n - 1 : KidsInv(calls[k])'
  BY <1>2, <1>3, SameKids DEF ReportInv
<1>6. tree' = CollectedBy(n - 1) \union Under(c.path, NodesBelow[c.given])
  <2>1. tree = CollectedBy(n)
    BY <1>2, <1>3 DEF ReportInv, TreeInv
  <2>2. Collected(n) \union {[path |-> c.path, err |-> c.given, trace |-> TraceOf(c.given)]}
          = Under(c.path, NodesBelow[c.given])
    BY <1>1, CallReturns
  <2>3. CollectedBy(n) = CollectedBy(n - 1) \union Collected(n)
    BY CollectedToLast
  <2> QED BY <1>2, <2>1, <2>2, <2>3
<1>7. CASE n = 1
  <2>1. c.given = N /\ c.path = << >>
    BY <1>2, <1>3, <1>7 DEF WalkInv, StackInv
  <2>2. PICK S : S = NodesBelow[N] /\ S \subseteq Nodes
    <3>1. N \in Errs
      BY TraceTreeAssumption DEF Errs
    <3>2. NodesBelow[N] \subseteq Nodes
      BY <3>1, NodesUnfold DEF WalkInv
    <3> QED BY <3>2, Zenon
  <2>3. CollectedBy(n - 1) = {}
    BY <1>7 DEF CollectedBy
  <2>4. tree' = NodesBelow[N]
    <3>1. Under(<< >>, S) = S
      BY <2>2, UnderRoot
    <3> QED BY <1>6, <2>1, <2>2, <2>3, <3>1
  <2>5. calls' = << >>
    BY <1>2, <1>7, EmptySeq
  <2> QED BY <1>2, <1>4, <1>5, <2>4, <2>5 DEF ReportInv, TreeInv, EachErrorReported
<1>8. CASE n # 1
  <2>1. PICK m \in Nat \ {0} : m = n - 1 /\ n = m + 1
    BY <1>8
  <2>2. calls' # << >> /\ Len(calls') = m
    BY <1>2, <2>1, EmptySeq
  <2>3. PICK d \in Activations : d = calls[m] /\ calls'[m] = d
    BY <1>2, <2>1, ElementOfSeq DEF WalkInv
  <2>4. d.i > 1 /\ c.given = d.kids[d.i - 1] /\ c.path = Append(d.path, d.i - 1)
    <3>1. \A k \in 1 .. Len(calls) - 1 :
            /\ calls[k].i > 1
            /\ calls[k + 1].given = calls[k].kids[calls[k].i - 1]
            /\ calls[k + 1].path = Append(calls[k].path, calls[k].i - 1)
      BY DEF WalkInv, StackInv
    <3>2. m \in 1 .. Len(calls) - 1 /\ calls[m + 1] = c /\ calls[m] = d
      BY <1>2, <2>1, <2>3
    <3> QED BY <3>1, <3>2
  <2>5. ASSUME NEW k \in 1 .. m - 1 PROVE Collected(k)' = Collected(k)
    <3>1. k # m /\ k # n /\ calls'[k] = calls[k]
      BY <1>2, <2>1
    <3>2. Returned(k)' = Returned(k)
      BY <1>2, <2>2, <3>1 DEF Returned
    <3> QED BY <1>3, <3>1, <3>2, SameCollected
  <2>6. Collected(m)' = Collected(m) \union Under(c.path, NodesBelow[c.given])
    <3>1. Returned(m) = 1 .. d.i - 2
      BY <1>2, <2>1, <2>3 DEF Returned
    <3>2. Returned(m)' = 1 .. d.i - 1
      BY <2>2, <2>3 DEF Returned
    <3>3. PICK h \in Nat \ {0} : h = d.i - 1 /\ d.i - 2 = h - 1
      BY <2>4 DEF Activations
    <3>4. Returned(m)' = Returned(m) \union {h}
      <4>1. 1 .. h = (1 .. h - 1) \union {h}
        OBVIOUS
      <4> QED BY <3>1, <3>2, <3>3, <4>1
    <3> DEFINE T(i) == Under(Append(d.path, i), NodesBelow[d.kids[i]])
    <3>5. Collected(m) = UNION {T(i) : i \in Returned(m)}
      BY <2>3 DEF Collected
    <3>6. Collected(m)' = UNION {T(i) : i \in Returned(m)'}
      BY <1>4, <2>3 DEF Collected
    <3>7. T(h) = Under(c.path, NodesBelow[c.given])
      BY <2>4, <3>3
    <3> HIDE DEF T
    <3> QED BY <3>4, <3>5, <3>6, <3>7
  <2>7. tree' = CollectedBy(m)'
    <3>1. CollectedBy(m - 1)' = CollectedBy(m - 1)
      BY <2>5, SameCollectedBy
    <3>2. /\ CollectedBy(m) = CollectedBy(m - 1) \union Collected(m)
          /\ CollectedBy(m)' = CollectedBy(m - 1)' \union Collected(m)'
      BY CollectedToLast
    <3>3. tree' = CollectedBy(m) \union Under(c.path, NodesBelow[c.given])
      BY <1>6, <2>1
    <3> QED BY <2>6, <3>1, <3>2, <3>3
  <2> QED BY <1>2, <1>5, <2>1, <2>2, <2>7 DEF ReportInv, TreeInv, EachErrorReported
<1> QED BY <1>7, <1>8

LEMMA InitReport == Init => ReportInv
<1> SUFFICES ASSUME Init PROVE ReportInv
  OBVIOUS
<1>1. PICK a : a = Activation(<< >>, N)
  OBVIOUS
<1>2. a.given = N /\ a.err = N /\ a.i = 0
  BY <1>1 DEF Activation
<1>3. calls = <<a>> /\ Len(calls) = 1 /\ calls[1] = a /\ tree = {} /\ calls # << >>
  BY <1>1 DEF Init
<1>4. KidsInv(a)
  BY <1>2, TraceTreeAssumption DEF KidsInv, Nil
<1>5. Collected(1) = {}
  <2>1. Returned(1) = 1 .. 0 - 1
    BY <1>2, <1>3 DEF Returned
  <2>2. Returned(1) = {}
    BY <2>1
  <2> QED BY <2>2 DEF Collected
<1>6. CollectedBy(1) = {}
  BY <1>5 DEF CollectedBy
<1> QED BY <1>3, <1>4, <1>5, <1>6 DEF ReportInv, TreeInv, EachErrorReported

(***************************************************************************)
(* EachErrorReported: the tree that is returned has a node for every error *)
(* inside a multi-error, with the trace of its own chain - unless an error *)
(* has both a frame and several errors inside it, which buildTraceTree     *)
(* then does not visit.                                                    *)
(***************************************************************************)
THEOREM EveryErrorInTheTree ==
  ASSUME ~ PCMulti
  PROVE  Spec => []EachErrorReported
<1>1. Init => WalkInv /\ ReportInv
  BY InitWalk, InitReport
<1>2. WalkInv /\ ReportInv /\ [Next]_vars => (WalkInv /\ ReportInv)'
  <2> SUFFICES ASSUME WalkInv, ReportInv, [Next]_vars PROVE WalkInv' /\ ReportInv'
    OBVIOUS
  <2>1. CASE TakeFrame
    BY <2>1, TakeFrameKeepsInv, TakeFrameKeepsReport
  <2>2. CASE UnwrapOne
    BY <2>2, UnwrapOneKeepsInv, UnwrapOneKeepsReport
  <2>3. CASE UnwrapMany
    BY <2>3, UnwrapManyKeepsInv, UnwrapManyKeepsReport
  <2>4. CASE Child
    BY <2>4, ChildKeepsInv, ChildKeepsReport
  <2>5. CASE Finish
    BY <2>5, FinishKeepsInv, FinishKeepsReport
  <2>6. CASE UNCHANGED vars
    <3>1. errs' = errs /\ calls' = calls /\ tree' = tree
      BY <2>6 DEF vars
    <3>2. End' = End /\ NodesBelow' = NodesBelow
      BY <3>1, SameErrs
    <3>3. ReportInv'
      BY <3>1, <3>2 DEF ReportInv, KidsInv, KidsOf, TreeInv, CollectedBy, Collected, Returned, EachErrorReported
    <3> QED BY <2>6, <3>3, StutterKeepsInv
  <2> QED BY <2>1, <2>2, <2>3, <2>4, <2>5, <2>6 DEF Next
<1>3. ReportInv => EachErrorReported
  BY DEF ReportInv
<1> QED BY <1>1, <1>2, <1>3, PTL DEF Spec
============================================================================
