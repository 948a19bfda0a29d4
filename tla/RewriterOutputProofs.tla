------------------------ MODULE RewriterOutputProofs -------------------------
(***************************************************************************)
(* What rewriteFile writes, for the files of RewriterProofs: a program     *)
(* again (TypeOK), in which a second run finds nothing to insert           *)
(* (Idempotent) and every return is accounted for, but for the walker's    *)
(* blind spot (NothingMissed).                                             *)
(***************************************************************************)
EXTENDS RewriterProofs

\* A finite set as a sequence: all of it, and nothing else.
LEMMA SetToSeqAll ==
  ASSUME NEW S, IsFiniteSet(S)
  PROVE  /\ SetToSeq(S) \in Seq(S)
         /\ ToSet(SetToSeq(S)) = S
<1>1. PICK n \in Nat : n = Cardinality(S)
  BY FS_CardinalityType
<1>2. \E g : g \in [1 .. n -> S] /\ IsInjective(g)
  <2>1. ExistsBijection(1 .. n, S)
    BY <1>1, FS_CardinalityType
  <2> QED BY <2>1 DEF ExistsBijection, Bijection, Injection, IsInjective
<1>3. PICK f : f = SetToSeq(S)
  OBVIOUS
<1>4. f \in [1 .. n -> S] /\ IsInjective(f)
  BY <1>1, <1>2, <1>3 DEF SetToSeq
<1>5. f \in Injection(1 .. n, S)
  BY <1>4 DEF Injection, IsInjective
<1>6. Cardinality(1 .. n) = n
  BY FS_Interval
<1>7. f \in Surjection(1 .. n, S)
  BY <1>1, <1>5, <1>6, FS_Injection
<1>8. f \in Seq(S) /\ DOMAIN f = 1 .. n
  BY <1>4
<1>9. ToSet(f) = S
  BY <1>4, <1>7, <1>8 DEF Surjection, ToSet
<1> QED BY <1>3, <1>8, <1>9

(***************************************************************************)
(* The output, node by node.                                               *)
(***************************************************************************)
\* What becomes of node i.
Piece(p, b, i) ==
  LET node == p[i]
      here == InsertsAt(b, i)
  IN  IF \E ins \in here : ins.k = "block"
        THEN ReturnNBlock(node, (CHOOSE ins \in here : TRUE).n)
      ELSE IF \E ins \in here : ins.k = "assign"
        THEN WrapAssign(node, SetToSeq((CHOOSE ins \in here : TRUE).names))
      ELSE IF node.k = "return" THEN <<[node EXCEPT !.results = Wrapped(@, here)]>>
      ELSE IF node.k = "assign" THEN <<[node EXCEPT !.rhs = Wrapped(@, here)]>>
      ELSE <<node>>

\* A sequence of sequences put together: the i-th part ends at off[i].
PartsAt(parts, q, off) ==
  /\ off \in [0 .. Len(parts) -> Nat]
  /\ off[0] = 0 /\ off[Len(parts)] = Len(q)
  /\ \A i \in 1 .. Len(parts) :
       /\ off[i] = off[i - 1] + Len(parts[i])
       /\ \A k \in 1 .. Len(parts[i]) : q[off[i - 1] + k] = parts[i][k]

Covers(parts, q, off) ==
  \A m \in 1 .. Len(q) : \E i \in 1 .. Len(parts) : \E k \in 1 .. Len(parts[i]) :
    m = off[i - 1] + k

LEMMA FlattenUnfold ==
  ASSUME NEW parts, Len(parts) \in Nat, Len(parts) # 0
  PROVE  \E flat :
           /\ FlattenSeq(parts) = flat[Len(parts)]
           /\ flat[1] = parts[1]
           /\ \A i \in 2 .. Len(parts) : flat[i] = flat[i - 1] \o parts[i]
<1> DEFINE Body(g, i) == IF i = 1 THEN parts[i] ELSE g[i - 1] \o parts[i]
           Good(n) == \E g : \A i \in 1 .. n : g[i] = Body(g, i)
           S == {n \in 0 .. Len(parts) : Good(n)}
<1>1. \A g, h : \A i \in 1 .. Len(parts) : (i # 1 => g[i - 1] = h[i - 1]) => Body(g, i) = Body(h, i)
  OBVIOUS
<1> HIDE DEF Body
<1>2. 0 \in S
  OBVIOUS
<1>3. ASSUME NEW n \in 1 .. Len(parts), n - 1 \in S
      PROVE  n \in S
  <2>1. PICK h : \A i \in 1 .. n - 1 : h[i] = Body(h, i)
    BY <1>3
  <2>2. PICK g : g = [i \in 1 .. n |-> IF i = n THEN Body(h, n) ELSE h[i]]
    OBVIOUS
  <2>3. ASSUME NEW i \in 1 .. n PROVE g[i] = Body(g, i)
    <3>1. i # 1 => i - 1 \in 1 .. n /\ i - 1 # n
      OBVIOUS
    <3>2. i # 1 => g[i - 1] = h[i - 1]
      BY <2>2, <3>1
    <3>3. Body(g, i) = Body(h, i)
      BY <1>1, <3>2
    <3>4. i # n => i \in 1 .. n - 1
      OBVIOUS
    <3> QED BY <2>1, <2>2, <3>3, <3>4
  <2>4. Good(n)
    BY <2>3
  <2> QED BY <2>4
<1>4. PICK g : \A i \in 1 .. Len(parts) : g[i] = Body(g, i)
  <2> HIDE DEF S
  <2>1. 0 .. Len(parts) \subseteq S
    BY <1>2, <1>3, UpTo
  <2>2. Len(parts) \in S
    BY <2>1
  <2> QED BY <2>2 DEF S
<1> DEFINE f == [i \in 1 .. Len(parts) |-> g[i]]
<1>5. f = [i \in 1 .. Len(parts) |-> Body(f, i)]
  <2>1. ASSUME NEW i \in 1 .. Len(parts) PROVE g[i] = Body(f, i)
    <3>1. i # 1 => f[i - 1] = g[i - 1]
      OBVIOUS
    <3> HIDE DEF f
    <3> QED BY <1>1, <1>4, <3>1
  <2> QED BY <2>1
<1> HIDE DEF f
<1> DEFINE flat == CHOOSE h : h = [i \in 1 .. Len(parts) |->
                                     IF i = 1 THEN parts[i] ELSE h[i - 1] \o parts[i]]
<1>6. flat = [i \in 1 .. Len(parts) |-> Body(flat, i)]
  BY <1>5 DEF Body
<1>7. FlattenSeq(parts) = flat[Len(parts)]
  BY DEF FlattenSeq
<1> HIDE DEF flat
<1>8. \A i \in 1 .. Len(parts) : flat[i] = Body(flat, i)
  BY <1>6
<1>9. 1 \in 1 .. Len(parts) /\ \A i \in 2 .. Len(parts) : i \in 1 .. Len(parts) /\ i # 1
  OBVIOUS
<1> QED BY <1>7, <1>8, <1>9 DEF Body

\* Induction from a to n.
LEMMA FromTo ==
  \A a, n \in Nat : \A S :
    /\ a \in S
    /\ \A i \in a + 1 .. n : i - 1 \in S => i \in S
    => a .. n \subseteq S
<1> SUFFICES ASSUME NEW a \in Nat, NEW n \in Nat, NEW S, a \in S,
                    \A i \in a + 1 .. n : i - 1 \in S => i \in S,
                    NEW m \in a .. n, m \notin S
             PROVE  FALSE
  OBVIOUS
<1> DEFINE Bad == {i \in a .. n : i \notin S}
<1>1. Bad # {} /\ Bad \subseteq Nat
  OBVIOUS
<1> HIDE DEF Bad
<1>2. PICK i \in Bad : \A y \in Bad : i <= y
  BY <1>1, LeastNumber
<1>3. i \in a .. n /\ i \notin S
  BY <1>2 DEF Bad
<1>4. i \in a + 1 .. n /\ i - 1 \in a .. n /\ ~ (i <= i - 1)
  BY <1>3
<1>5. i - 1 \in S
  BY <1>2, <1>4 DEF Bad
<1> QED BY <1>3, <1>4, <1>5

LEMMA FlattenParts ==
  ASSUME NEW T, NEW parts \in Seq(Seq(T)), parts # << >>
  PROVE  /\ FlattenSeq(parts) \in Seq(T)
         /\ \E off : PartsAt(parts, FlattenSeq(parts), off)
<1>1. PICK n \in Nat : n = Len(parts) /\ n # 0
  OBVIOUS
<1>2. PICK flat : /\ FlattenSeq(parts) = flat[n]
                  /\ flat[1] = parts[1]
                  /\ \A i \in 2 .. n : flat[i] = flat[i - 1] \o parts[i]
  BY <1>1, FlattenUnfold
<1>3. \A i \in 1 .. n : parts[i] \in Seq(T)
  BY <1>1
<1> DEFINE S == {i \in 1 .. n : flat[i] \in Seq(T)}
<1>4. 1 .. n \subseteq S
  <2>1. 1 \in S
    BY <1>1, <1>2, <1>3
  <2>2. ASSUME NEW i \in 1 + 1 .. n, i - 1 \in S PROVE i \in S
    <3>1. i \in 2 .. n /\ i \in 1 .. n
      OBVIOUS
    <3>2. flat[i] = flat[i - 1] \o parts[i] /\ flat[i - 1] \in Seq(T) /\ parts[i] \in Seq(T)
      BY <1>2, <1>3, <2>2, <3>1
    <3>3. \A a, b \in Seq(T) : a \o b \in Seq(T)
      OBVIOUS
    <3> QED BY <3>1, <3>2, <3>3
  <2> HIDE DEF S
  <2> QED BY <1>1, <2>1, <2>2, FromTo
<1>5. \A i \in 1 .. n : flat[i] \in Seq(T) /\ Len(flat[i]) \in Nat
  BY <1>4
<1> HIDE DEF S
<1>6. PICK off : off = [i \in 0 .. n |-> IF i = 0 THEN 0 ELSE Len(flat[i])]
  OBVIOUS
<1>7. off \in [0 .. n -> Nat] /\ off[0] = 0 /\ \A i \in 1 .. n : off[i] = Len(flat[i])
  BY <1>5, <1>6
<1>8. \A i \in 1 .. n : off[i] = off[i - 1] + Len(parts[i])
  <2> TAKE i \in 1 .. n
  <2>1. CASE i = 1
    BY <1>2, <1>3, <1>7, <2>1
  <2>2. CASE i # 1
    <3>1. i \in 2 .. n /\ i - 1 \in 1 .. n
      BY <2>2
    <3>2. flat[i] = flat[i - 1] \o parts[i]
      BY <1>2, <3>1
    <3>3. Len(flat[i - 1] \o parts[i]) = Len(flat[i - 1]) + Len(parts[i])
      BY <1>3, <1>5, <3>1
    <3> QED BY <1>7, <3>1, <3>2, <3>3
  <2> QED BY <2>1, <2>2
\* What part i is stays where it is in all that follow.
<1>9. \A i \in 1 .. n : \A j \in i .. n : \A k \in 1 .. Len(parts[i]) :
        flat[j][off[i - 1] + k] = parts[i][k] /\ off[i - 1] + k \in 1 .. Len(flat[j])
  <2> SUFFICES ASSUME NEW i \in 1 .. n, NEW k \in 1 .. Len(parts[i])
               PROVE  \A j \in i .. n :
                        flat[j][off[i - 1] + k] = parts[i][k] /\ off[i - 1] + k \in 1 .. Len(flat[j])
    OBVIOUS
  <2>0. PICK x \in Nat : x = off[i - 1]
    BY <1>7
  <2> DEFINE R == {j \in i .. n : flat[j][x + k] = parts[i][k] /\ x + k \in 1 .. Len(flat[j])}
  <2>1. i \in R
    <3>1. CASE i = 1
      <4>1. x = 0 /\ flat[i] = parts[i] /\ x + k = k
        BY <1>2, <1>7, <2>0, <3>1
      <4> QED BY <4>1
    <3>2. CASE i # 1
      <4>1. i \in 2 .. n /\ i - 1 \in 1 .. n
        BY <3>2
      <4>2. flat[i] = flat[i - 1] \o parts[i]
        BY <1>2, <4>1
      <4>3. PICK s \in Seq(T) : s = flat[i - 1]
        BY <1>5, <4>1
      <4>4. PICK t \in Seq(T) : t = parts[i]
        BY <1>3
      <4>5. x = Len(s) /\ flat[i] = s \o t /\ k \in 1 .. Len(t)
        BY <1>7, <2>0, <4>1, <4>2, <4>3, <4>4
      <4>6. (s \o t)[x + k] = t[k] /\ x + k \in 1 .. Len(s \o t)
        BY <4>5
      <4> QED BY <4>4, <4>5, <4>6
    <3> QED BY <3>1, <3>2
  <2>2. ASSUME NEW j \in i + 1 .. n, j - 1 \in R PROVE j \in R
    <3>1. j \in 2 .. n /\ j - 1 \in 1 .. n /\ j \in i .. n /\ j \in 1 .. n
      OBVIOUS
    <3>2. flat[j] = flat[j - 1] \o parts[j]
      BY <1>2, <3>1
    <3>3. PICK s \in Seq(T) : s = flat[j - 1]
      BY <1>5, <3>1
    <3>4. PICK t \in Seq(T) : t = parts[j]
      BY <1>3, <3>1
    <3>5. s[x + k] = parts[i][k] /\ x + k \in 1 .. Len(s)
      BY <2>2, <3>3
    <3>6. (s \o t)[x + k] = s[x + k] /\ x + k \in 1 .. Len(s \o t)
      <4>1. PICK y \in Nat : y = x + k
        BY <2>0
      <4>2. y \in 1 .. Len(s)
        BY <3>5, <4>1
      <4> QED BY <4>1, <4>2
    <3> QED BY <3>1, <3>2, <3>3, <3>4, <3>5, <3>6
  <2> HIDE DEF R
  <2>3. i \in Nat
    OBVIOUS
  <2>4. i .. n \subseteq R
    BY <2>1, <2>2, <2>3, FromTo
  <2> QED BY <2>0, <2>4 DEF R
<1>10. n \in 1 .. n /\ \A i \in 1 .. n : n \in i .. n
  BY <1>1
<1>11. \A i \in 1 .. n : \A k \in 1 .. Len(parts[i]) : flat[n][off[i - 1] + k] = parts[i][k]
  BY <1>9, <1>10
<1>12. PartsAt(parts, FlattenSeq(parts), off)
  <2> HIDE DEF PartsAt
  <2>1. off[n] = Len(FlattenSeq(parts))
    BY <1>2, <1>7, <1>10
  <2>2. \A i \in 1 .. n : \A k \in 1 .. Len(parts[i]) :
          FlattenSeq(parts)[off[i - 1] + k] = parts[i][k]
    BY <1>2, <1>11
  <2>3. \A i \in 1 .. n :
          /\ off[i] = off[i - 1] + Len(parts[i])
          /\ \A k \in 1 .. Len(parts[i]) : FlattenSeq(parts)[off[i - 1] + k] = parts[i][k]
    BY <1>8, <2>2
  <2> QED BY <1>1, <1>7, <2>1, <2>3 DEF PartsAt
<1> QED BY <1>2, <1>5, <1>10, <1>12

\* The parts cover the whole.
LEMMA PartsCover ==
  ASSUME NEW parts, Len(parts) \in Nat, \A i \in 1 .. Len(parts) : Len(parts[i]) \in Nat,
         NEW q, NEW off, PartsAt(parts, q, off)
  PROVE  Covers(parts, q, off)
<1>1. PICK n \in Nat : n = Len(parts)
  OBVIOUS
<1>2. /\ off \in [0 .. n -> Nat] /\ off[0] = 0 /\ off[n] = Len(q)
      /\ \A i \in 1 .. n : off[i] = off[i - 1] + Len(parts[i]) /\ Len(parts[i]) \in Nat
  BY <1>1 DEF PartsAt
<1>4. ASSUME NEW m \in 1 .. Len(q)
      PROVE  \E i \in 1 .. n : \E k \in 1 .. Len(parts[i]) : m = off[i - 1] + k
  <2>0. m \in Nat /\ m >= 1 /\ m <= off[n]
    BY <1>2
  <2> DEFINE R == {i \in 0 .. n : m <= off[i]}
  <2>1. R # {} /\ R \subseteq Nat
    <3>1. n \in 0 .. n
      BY <1>1
    <3> QED BY <2>0, <3>1
  <2> HIDE DEF R
  <2>2. PICK i \in R : \A y \in R : i <= y
    BY <2>1, LeastNumber
  <2>3. i \in 0 .. n /\ m <= off[i]
    BY <2>2 DEF R
  <2>4. i # 0
    BY <1>2, <2>0, <2>3
  <2>5. i \in 1 .. n /\ i - 1 \in 0 .. n /\ ~ (i <= i - 1)
    BY <2>3, <2>4
  <2>6. ~ (m <= off[i - 1])
    BY <2>2, <2>5 DEF R
  <2>7. PICK x \in Nat : x = off[i - 1]
    BY <1>2, <2>5
  <2>8. PICK l \in Nat : l = Len(parts[i])
    BY <1>2, <2>5
  <2>9. m <= x + l /\ ~ (m <= x)
    BY <1>2, <2>3, <2>5, <2>6, <2>7, <2>8
  <2>10. m - x \in 1 .. l /\ m = x + (m - x)
    BY <2>0, <2>9
  <2> QED BY <2>5, <2>7, <2>8, <2>10
<1> QED BY <1>1, <1>4 DEF Covers

(***************************************************************************)
(* What is inserted at a node.                                             *)
(***************************************************************************)
\* All inserts of a walk over p.
Made(p, o, u) == Walkers(p, o, u)[Len(p)].inserts

\* The visitor node i is visited with, and the candidates there.
VisitorAt(p, o, u, i) == Top(Walkers(p, o, u)[i - 1])
CandidatesAt(p, o, u, i) == Candidates(VisitorAt(p, o, u, i), p, i, o)

LEMMA StepAt ==
  ASSUME NEW p, IsProgram(p), NEW o, NEW u, NEW i \in 1 .. Len(p)
  PROVE  /\ IsABag(Walkers(p, o, u)[i - 1].inserts)
         /\ Walkers(p, o, u)[i].stack = StackAfter(Walkers(p, o, u)[i - 1].stack, p, i)
         /\ Walkers(p, o, u)[i].inserts
              = Walkers(p, o, u)[i - 1].inserts (+) SetToBag(NotIn(p, CandidatesAt(p, o, u, i), u))
         /\ BagToSet(Walkers(p, o, u)[i].inserts)
              = BagToSet(Walkers(p, o, u)[i - 1].inserts)
                  \union NotIn(p, CandidatesAt(p, o, u, i), u)
<1>1. LET w == Walkers(p, o, u)[i - 1]
          x == Walkers(p, o, u)[i]
          C == Candidates(Top(w), p, i, o)
      IN  /\ IsABag(w.inserts)
          /\ x.stack = StackAfter(w.stack, p, i)
          /\ x.inserts = w.inserts (+) SetToBag(NotIn(p, C, u))
          /\ BagToSet(x.inserts) = BagToSet(w.inserts) \union NotIn(p, C, u)
          /\ w.used \subseteq x.used
          /\ \A ins \in In(p, C, u) : LineOf(p, ins) \in x.used
  BY WalkStep
<1> QED BY <1>1 DEF CandidatesAt, VisitorAt

LEMMA StackAt ==
  ASSUME NEW p, IsFile(p), NEW o, NEW u, NEW i \in 1 .. Len(p)
  PROVE  Walkers(p, o, u)[i].stack = StackAfter(Walkers(p, o, u)[i - 1].stack, p, i)
<1>1. IsProgram(p)
  BY FilesArePrograms
<1> QED BY <1>1, StepAt

LEMMA CandidatesMade ==
  ASSUME NEW p, IsProgram(p), NEW o, NEW u, NEW i \in 1 .. Len(p)
  PROVE  NotIn(p, CandidatesAt(p, o, u, i), u) \subseteq BagToSet(Made(p, o, u))
<1>1. PICK n \in Nat : n = Len(p)
  BY DEF IsProgram
<1>2. PICK C : C = NotIn(p, CandidatesAt(p, o, u, i), u)
  OBVIOUS
<1> DEFINE R == {j \in i .. n : C \subseteq BagToSet(Walkers(p, o, u)[j].inserts)}
<1>3. i \in R
  <2>2. C \subseteq BagToSet(Walkers(p, o, u)[i].inserts)
    BY <1>2, StepAt
  <2>3. i \in i .. n
    BY <1>1
  <2> QED BY <2>2, <2>3
<1>4. ASSUME NEW j \in i + 1 .. n, j - 1 \in R PROVE j \in R
  <2>1. j \in 1 .. n /\ j \in i .. n
    BY <1>1
  <2>2. BagToSet(Walkers(p, o, u)[j].inserts)
          = BagToSet(Walkers(p, o, u)[j - 1].inserts) \union NotIn(p, CandidatesAt(p, o, u, j), u)
    BY <1>1, <2>1, StepAt
  <2> QED BY <1>4, <2>1, <2>2
<1> HIDE DEF R
<1>5. i \in Nat /\ n \in i .. n
  BY <1>1
<1>6. i .. n \subseteq R
  BY <1>1, <1>3, <1>4, <1>5, FromTo
<1> QED BY <1>1, <1>2, <1>5, <1>6 DEF R, Made

\* The inserts at a return are its candidates, unless its line is opted out.
LEMMA InsertsAtReturn ==
  ASSUME NEW p, IsFile(p), NEW o, NEW u, NEW i \in 1 .. Len(p), p[i].k = "return"
  PROVE  InsertsAt(Made(p, o, u), i) = NotIn(p, CandidatesAt(p, o, u, i), u)
<1>1. IsProgram(p) /\ Len(p) \in Nat /\ Len(p) \in 0 .. Len(p)
  BY FilesArePrograms DEF IsProgram
<1>2. ASSUME NEW ins \in InsertsAt(Made(p, o, u), i)
      PROVE  ins \in NotIn(p, CandidatesAt(p, o, u, i), u)
  <2>1. ins \in BagToSet(Walkers(p, o, u)[Len(p)].inserts) /\ ins.at = i
    BY <1>2 DEF InsertsAt, Made
  <2>2. p[ins.at].k # "assign"
    BY <2>1
  <2>3. ins \in CandidatesAt(p, o, u, i)
    BY <1>1, <2>1, <2>2, InsertKinds DEF FromDefer, CandidatesAt, VisitorAt
  <2>4. LineOf(p, ins) \notin u
    BY <1>1, <2>1, InsertsComeFrom
  <2> QED BY <2>3, <2>4 DEF NotIn
<1>3. ASSUME NEW ins \in NotIn(p, CandidatesAt(p, o, u, i), u)
      PROVE  ins \in InsertsAt(Made(p, o, u), i)
  <2>1. ins \in BagToSet(Made(p, o, u))
    BY <1>1, <1>3, CandidatesMade
  <2>2. ins \in Candidates(Top(Walkers(p, o, u)[i - 1]), p, i, o)
    BY <1>3 DEF NotIn, CandidatesAt, VisitorAt
  <2>3. ins.at = i
    <3>1. AtReturn(p, i, o, ins)
      BY <2>2, ReturnCandidate
    <3> QED BY <3>1, ReturnInsertAt
  <2> QED BY <2>1, <2>3 DEF InsertsAt
<1> QED BY <1>2, <1>3

\* Elsewhere nothing but expressions are wrapped, and only of assignments.
LEMMA InsertsElsewhere ==
  ASSUME NEW p, IsFile(p), NEW o, NEW u, NEW i \in 1 .. Len(p), p[i].k # "return",
         NEW ins \in InsertsAt(Made(p, o, u), i)
  PROVE  ins.k = "wrap" /\ p[i].k = "assign"
<1>1. Len(p) \in 0 .. Len(p)
  BY OpenInFile
<1>2. ins \in BagToSet(Walkers(p, o, u)[Len(p)].inserts) /\ ins.at = i
  BY DEF InsertsAt, Made
<1>3. PICK d \in 1 .. Len(p) : FromDefer(p, d, ins)
  BY <1>1, <1>2, InsertKinds
<1> QED BY <1>2, <1>3 DEF FromDefer

\* The error results of a function are finitely many, and none is Other.
LEMMA NamedErrorsFinite ==
  ASSUME NEW p, NEW f, p[f].sig \in Signatures, p[f].line \in Nat, p[f].line # 0
  PROVE  IsFiniteSet(NamedErrors(p, f)) /\ Other \notin NamedErrors(p, f)
<1>1. PICK sig \in Signatures : sig = p[f].sig
  OBVIOUS
<1>2. PICK n \in Nat : n = Len(sig.results)
  BY DEF Signatures
<1>3. PICK E : E = ErrorIndices(sig)
  OBVIOUS
<1>4. IsFiniteSet(E)
  <2>1. E \subseteq 1 .. n
    BY <1>2, <1>3 DEF ErrorIndices
  <2>2. IsFiniteSet(1 .. n)
    BY FS_Interval
  <2> QED BY <2>1, <2>2, FS_Subset
<1>5. PICK line : line = p[f].line
  OBVIOUS
<1>6. PICK T : T = {Obj(line, j) : j \in E}
  OBVIOUS
<1>7. IsFiniteSet(T)
  <2>1. PICK g : g = [j \in E |-> Obj(line, j)]
    OBVIOUS
  <2>2. g \in Surjection(E, T)
    BY <1>6, <2>1 DEF Surjection
  <2> QED BY <1>4, <2>2, FS_Surjection
<1>8. NamedErrors(p, f) = IF sig.named THEN T ELSE {}
  BY <1>1, <1>3, <1>5, <1>6 DEF NamedErrors
<1>9. IsFiniteSet({})
  BY FS_EmptySet
<1>10. Other \notin T
  BY <1>5, <1>6 DEF Obj, Other
<1> QED BY <1>7, <1>8, <1>9, <1>10

\* What the visitor of a node knows.
LEMMA VisitorKnows ==
  ASSUME NEW p, IsFile(p), NEW o, NEW u, NEW i \in 1 .. Len(p)
  PROVE  /\ VisitorAt(p, o, u, i) \in Visitors
         /\ IsFiniteSet(VisitorAt(p, o, u, i).objs)
         /\ Other \notin VisitorAt(p, o, u, i).objs
         /\ i # 1 => KnowsFunc(VisitorAt(p, o, u, i), p, EnclosingFunc(p, i))
<1>1. IsFiniteSet({})
  BY FS_EmptySet
<1>2. CASE i = 1
  <2>1. IsProgram(p)
    BY FilesArePrograms
  <2>2. VisitorAt(p, o, u, i) = NoVisitor
    BY <1>2, <2>1, WalkBegins DEF VisitorAt, Top, Last
  <2>3. NoVisitor \in Visitors /\ NoVisitor.objs = {}
    <3>1. {} \in SUBSET Nat /\ {} \in SUBSET (Nat \X Nat) /\ 0 \in Nat
      OBVIOUS
    <3> QED BY <3>1 DEF NoVisitor, Visitors
  <2> QED BY <1>1, <1>2, <2>2, <2>3
<1>3. CASE i # 1
  <2>1. i \in 2 .. Len(p) /\ i \in 1 .. Len(p) + 1
    BY <1>3, OpenInFile
  <2>2. VisitorAt(p, o, u, i) \in Visitors /\ KnowsFunc(VisitorAt(p, o, u, i), p, EnclosingFunc(p, i))
    BY <2>1, TopKnows DEF VisitorAt
  <2>3. OpenAt(p, i) # << >>
    BY <2>1 DEF IsFile
  <2>4. PICK f : f = EnclosingFunc(p, i)
    OBVIOUS
  <2>5. f \in 1 .. Len(p) /\ p[f].sig \in Signatures
    BY <2>1, <2>3, <2>4, SignatureOf
  <2>6. p[f].line = f /\ f \in Nat /\ f # 0
    BY <2>5, OpenInFile
  <2>7. IsFiniteSet(NamedErrors(p, f)) /\ Other \notin NamedErrors(p, f)
    BY <2>5, <2>6, NamedErrorsFinite
  <2>8. VisitorAt(p, o, u, i).objs \in {NamedErrors(p, f), {}}
    BY <2>2, <2>4 DEF KnowsFunc
  <2> QED BY <1>1, <2>2, <2>7, <2>8
<1> QED BY <1>2, <1>3

LEMMA WrappedExprs ==
  ASSUME NEW exprs \in Seq(Exprs), NEW here
  PROVE  /\ Wrapped(exprs, here) \in Seq(Exprs)
         /\ Len(Wrapped(exprs, here)) = Len(exprs)
         /\ \A j \in 1 .. Len(exprs) :
              Wrapped(exprs, here)[j] =
                IF \E ins \in here : ins.k = "wrap" /\ ins.expr = j THEN "wrap" ELSE exprs[j]
<1>1. PICK n \in Nat : n = Len(exprs)
  OBVIOUS
<1>2. PICK s : s = [j \in 1 .. n |->
                      IF \E ins \in here : ins.k = "wrap" /\ ins.expr = j THEN "wrap" ELSE exprs[j]]
  OBVIOUS
<1>3. Wrapped(exprs, here) = s
  BY <1>1, <1>2 DEF Wrapped
<1>4. \A j \in 1 .. n : s[j] \in Exprs
  BY <1>1, <1>2 DEF Exprs
<1>5. s \in Seq(Exprs) /\ Len(s) = n
  BY <1>2, <1>4
<1> QED BY <1>1, <1>2, <1>3, <1>5

\* A node that is one node in the output too.
Kept(p, b, i) ==
  /\ Piece(p, b, i) = <<Piece(p, b, i)[1]>>
  /\ Piece(p, b, i)[1] \in SyntaxNodes
  /\ Piece(p, b, i)[1].k = p[i].k
  /\ Piece(p, b, i)[1].line = p[i].line
  /\ IsFunc(p[i]) => Piece(p, b, i)[1].sig = p[i].sig
  /\ p[i].k = "assign" =>
       /\ Piece(p, b, i)[1].lhs = p[i].lhs
       /\ Piece(p, b, i)[1].rhs = Wrapped(p[i].rhs, InsertsAt(b, i))
  /\ p[i].k = "return" => Piece(p, b, i)[1].results = Wrapped(p[i].results, InsertsAt(b, i))

LEMMA NodeFields ==
  ASSUME NEW node \in SyntaxNodes
  PROVE  /\ node.line \in Nat
         /\ node.k = "assign" =>
              /\ node = [k |-> "assign", line |-> node.line, lhs |-> node.lhs, rhs |-> node.rhs]
              /\ node.lhs \in Seq(Nat \X Nat) /\ node.rhs \in Seq(Exprs)
         /\ node.k = "return" =>
              /\ node = [k |-> "return", line |-> node.line, results |-> node.results]
              /\ node.results \in Seq(Exprs)
<1>1. CASE node \in [k : {"func", "lit", "defer"}, line : Nat, sig : Signatures]
  BY <1>1
<1>2. CASE node \in [k : {"block", "switch", "case", "end"}, line : Nat]
  BY <1>2
<1>3. CASE node \in [k : {"assign"}, line : Nat, lhs : Seq(Nat \X Nat), rhs : Seq(Exprs)]
  BY <1>3
<1>4. CASE node \in [k : {"return"}, line : Nat, results : Seq(Exprs)]
  BY <1>4
<1> QED BY <1>1, <1>2, <1>3, <1>4 DEF SyntaxNodes

LEMMA KeptNode ==
  ASSUME NEW p, IsFile(p), NEW o, NEW u, NEW i \in 1 .. Len(p), p[i].k # "return"
  PROVE  Kept(p, Made(p, o, u), i)
<1>1. PICK b : b = Made(p, o, u)
  OBVIOUS
<1>2. p[i] \in SyntaxNodes
  BY OpenInFile
<1>3. \A ins \in InsertsAt(b, i) : ins.k = "wrap" /\ p[i].k = "assign"
  BY <1>1, InsertsElsewhere
<1>4. CASE p[i].k # "assign"
  <2>1. Piece(p, b, i) = <<p[i]>>
    BY <1>3, <1>4 DEF Piece
  <2> QED BY <1>1, <1>2, <1>4, <2>1 DEF Kept
<1>5. CASE p[i].k = "assign"
  <2>1. PICK x : x = [p[i] EXCEPT !.rhs = Wrapped(@, InsertsAt(b, i))]
    OBVIOUS
  <2>2. Piece(p, b, i) = <<x>>
    BY <1>3, <1>5, <2>1 DEF Piece
  <2>3. PICK rhs : rhs = Wrapped(p[i].rhs, InsertsAt(b, i))
    OBVIOUS
  <2>4. p[i].lhs \in Seq(Nat \X Nat) /\ p[i].rhs \in Seq(Exprs) /\ p[i].line \in Nat
    BY <1>2, <1>5, NodeFields
  <2>5. rhs \in Seq(Exprs)
    BY <2>3, <2>4, WrappedExprs
  <2>6. p[i] = [k |-> "assign", line |-> p[i].line, lhs |-> p[i].lhs, rhs |-> p[i].rhs]
    BY <1>2, <1>5, NodeFields
  <2>7. x = [k |-> "assign", line |-> p[i].line, lhs |-> p[i].lhs, rhs |-> rhs]
    BY <2>1, <2>3, <2>6
  <2>8. x \in SyntaxNodes
    BY <2>4, <2>5, <2>7 DEF SyntaxNodes
  <2> QED BY <1>1, <1>5, <2>2, <2>3, <2>7, <2>8 DEF Kept, IsFunc
<1> QED BY <1>4, <1>5

\* A naked return with the named errors assigned before it.
Assigned(p, o, u, i) ==
  LET v == VisitorAt(p, o, u, i)
  IN  /\ p[i].results = << >>
      /\ p[i].line \notin u
      /\ v.indices # {}
      /\ Piece(p, Made(p, o, u), i) = WrapAssign(p[i], SetToSeq(v.objs \ v.wrapped))

\* A return of a call with its results assigned before it.
InBlock(p, o, u, i) ==
  LET v == VisitorAt(p, o, u, i)
  IN  /\ Len(p[i].results) = 1 /\ v.n > 1
      /\ p[i].line \notin u
      /\ v.indices = {v.n}
      /\ Piece(p, Made(p, o, u), i) = ReturnNBlock(p[i], v.n)

LEMMA ReturnPiece ==
  ASSUME NEW p, IsFile(p), NEW o, NEW u, NEW i \in 1 .. Len(p), p[i].k = "return"
  PROVE  \/ /\ Kept(p, Made(p, o, u), i)
            /\ \A ins \in NotIn(p, CandidatesAt(p, o, u, i), u) : ins.k = "wrap"
         \/ Assigned(p, o, u, i)
         \/ InBlock(p, o, u, i)
<1>1. PICK b : b = Made(p, o, u)
  OBVIOUS
<1>2. PICK v : v = VisitorAt(p, o, u, i)
  OBVIOUS
<1>3. PICK C : C = Needed(p, ReturnCandidates(v, p, i, o))
  OBVIOUS
<1>4. PICK here : here = InsertsAt(b, i)
  OBVIOUS
<1>5. CandidatesAt(p, o, u, i) = C /\ here = NotIn(p, C, u)
  <2>1. CandidatesAt(p, o, u, i) = C
    BY <1>2, <1>3 DEF CandidatesAt, Candidates
  <2> QED BY <1>1, <1>4, <2>1, InsertsAtReturn
<1>6. p[i] \in SyntaxNodes
  BY OpenInFile
<1>7. CASE \A ins \in here : ins.k = "wrap"
  <2>1. PICK x : x = [p[i] EXCEPT !.results = Wrapped(@, here)]
    OBVIOUS
  <2>2. Piece(p, b, i) = <<x>>
    BY <1>4, <1>7, <2>1 DEF Piece
  <2>3. PICK results : results = Wrapped(p[i].results, here)
    OBVIOUS
  <2>4. /\ p[i].results \in Seq(Exprs) /\ p[i].line \in Nat
        /\ p[i] = [k |-> "return", line |-> p[i].line, results |-> p[i].results]
    BY <1>6, NodeFields
  <2>5. results \in Seq(Exprs)
    BY <2>3, <2>4, WrappedExprs
  <2>6. x = [k |-> "return", line |-> p[i].line, results |-> results]
    BY <2>1, <2>3, <2>4
  <2>7. x \in SyntaxNodes
    BY <2>4, <2>5, <2>6 DEF SyntaxNodes
  <2>8. Kept(p, b, i)
    BY <1>4, <2>2, <2>3, <2>6, <2>7 DEF Kept, IsFunc
  <2> QED BY <1>1, <1>5, <1>7, <2>8
<1>8. CASE \E ins \in here : ins.k # "wrap"
  <2>1. PICK ins \in here : ins.k # "wrap"
    BY <1>8
  <2>2. ins \in ReturnCandidates(v, p, i, o) /\ LineOf(p, ins) \notin u
    BY <1>3, <1>5, <2>1 DEF NotIn, Needed
  <2>3. v.indices # {}
    BY <2>2 DEF ReturnCandidates
  <2>4. CASE p[i].results = << >>
    <3>1. PICK names : names = v.objs \ v.wrapped
      OBVIOUS
    <3>2. ReturnCandidates(v, p, i, o) = {[k |-> "assign", at |-> i, names |-> names]}
      BY <2>2, <2>3, <2>4, <3>1 DEF ReturnCandidates, NakedCandidates
    <3>3. here = {ins} /\ ins = [k |-> "assign", at |-> i, names |-> names]
      BY <1>3, <1>5, <2>1, <2>2, <3>2 DEF NotIn, Needed
    <3>4. (CHOOSE x \in here : TRUE) = ins
      BY <3>3
    <3>5. Piece(p, b, i) = WrapAssign(p[i], SetToSeq(names))
      BY <1>4, <3>3, <3>4 DEF Piece
    <3>6. p[i].line \notin u
      BY <2>2, <3>3 DEF LineOf
    <3> QED BY <1>1, <1>2, <2>3, <2>4, <3>1, <3>5, <3>6 DEF Assigned
  <2>5. CASE p[i].results # << >>
    <3>1. Len(p[i].results) = 1 /\ v.n > 1
      BY <2>1, <2>2, <2>3, <2>5 DEF ReturnCandidates, WrapInsert
    <3>2. ReturnCandidates(v, p, i, o) = CallCandidates(v, p, i, o)
      BY <2>2, <2>3, <2>5, <3>1 DEF ReturnCandidates
    <3>3. v.indices = {v.n} /\ CallCandidates(v, p, i, o) = {[k |-> "block", at |-> i, n |-> v.n]}
      BY <2>1, <2>2, <3>2 DEF CallCandidates, WrapInsert
    <3>4. here = {ins} /\ ins = [k |-> "block", at |-> i, n |-> v.n]
      BY <1>3, <1>5, <2>1, <2>2, <3>2, <3>3 DEF NotIn, Needed
    <3>5. (CHOOSE x \in here : TRUE) = ins
      BY <3>4
    <3>6. Piece(p, b, i) = ReturnNBlock(p[i], v.n)
      BY <1>4, <3>4, <3>5 DEF Piece
    <3>7. p[i].line \notin u
      BY <2>2, <3>4 DEF LineOf
    <3> QED BY <1>1, <1>2, <3>1, <3>3, <3>6, <3>7 DEF InBlock
  <2> QED BY <2>4, <2>5
<1> QED BY <1>7, <1>8

LEMMA AssignedNodes ==
  ASSUME NEW p, IsFile(p), NEW o, NEW u, NEW i \in 1 .. Len(p), p[i].k = "return",
         Assigned(p, o, u, i)
  PROVE  \E x \in SyntaxNodes :
           /\ Piece(p, Made(p, o, u), i) = <<x, p[i]>>
           /\ x.k = "assign" /\ x.line = p[i].line
           /\ x.lhs \in Seq(Nat \X Nat)
           /\ ToSet(x.lhs) = VisitorAt(p, o, u, i).objs \ VisitorAt(p, o, u, i).wrapped
           /\ Len(x.rhs) = Len(x.lhs)
           /\ \A j \in 1 .. Len(x.lhs) : x.rhs[j] = "wrap"
<1>1. PICK v \in Visitors : v = VisitorAt(p, o, u, i) /\ IsFiniteSet(v.objs)
  BY VisitorKnows
<1>2. PICK names : names = v.objs \ v.wrapped
  OBVIOUS
<1>3. names \subseteq Nat \X Nat
  BY <1>2 DEF Visitors
<1>4. IsFiniteSet(names)
  BY <1>1, <1>2, FS_Subset
<1>5. PICK lhs : lhs = SetToSeq(names)
  OBVIOUS
<1>6. lhs \in Seq(names) /\ ToSet(lhs) = names
  BY <1>4, <1>5, SetToSeqAll
<1>7. lhs \in Seq(Nat \X Nat)
  BY <1>3, <1>6
<1>8. PICK n \in Nat : n = Len(lhs)
  BY <1>7
<1>9. PICK rhs : rhs = [j \in 1 .. n |-> "wrap"]
  OBVIOUS
<1>10. rhs \in Seq(Exprs) /\ Len(rhs) = n /\ \A j \in 1 .. n : rhs[j] = "wrap"
  <2>1. "wrap" \in Exprs
    BY DEF Exprs
  <2> QED BY <1>9, <2>1
<1>11. p[i] \in SyntaxNodes /\ p[i].line \in Nat
  BY OpenInFile, NodeFields
<1>12. PICK x : x = [k |-> "assign", line |-> p[i].line, lhs |-> lhs, rhs |-> rhs]
  OBVIOUS
<1>13. x \in SyntaxNodes
  BY <1>7, <1>10, <1>11, <1>12 DEF SyntaxNodes
<1>14. Piece(p, Made(p, o, u), i) = <<x, p[i]>>
  <2>1. Piece(p, Made(p, o, u), i) = WrapAssign(p[i], lhs)
    BY <1>1, <1>2, <1>5 DEF Assigned
  <2> QED BY <1>8, <1>9, <1>12, <2>1 DEF WrapAssign
<1> QED BY <1>1, <1>2, <1>6, <1>7, <1>8, <1>10, <1>12, <1>13, <1>14

LEMMA InBlockNodes ==
  ASSUME NEW p, IsFile(p), NEW o, NEW u, NEW i \in 1 .. Len(p), p[i].k = "return",
         InBlock(p, o, u, i)
  PROVE  \E x, y, z, e \in SyntaxNodes :
           /\ Piece(p, Made(p, o, u), i) = <<x, y, z, e>>
           /\ x.k = "block" /\ x.line = p[i].line
           /\ y.k = "assign" /\ y.line = p[i].line
           /\ y.lhs \in Seq(Nat \X Nat) /\ y.rhs \in Seq(Exprs)
           /\ \A j \in 1 .. Len(y.lhs) : y.lhs[j] = Other
           /\ z.k = "return" /\ z.line = p[i].line
           /\ Len(z.results) = VisitorAt(p, o, u, i).n
           /\ z.results[VisitorAt(p, o, u, i).n] = "wrap"
           /\ e.k = "end" /\ e.line = p[i].line
<1>1. PICK v \in Visitors : v = VisitorAt(p, o, u, i)
  BY VisitorKnows
<1>2. PICK n \in Nat : n = v.n /\ n > 1
  BY <1>1 DEF Visitors, InBlock
<1>3. p[i] \in SyntaxNodes
  BY OpenInFile
<1>4. PICK line \in Nat : line = p[i].line
  BY <1>3, NodeFields
<1>5. PICK rhs \in Seq(Exprs) : rhs = p[i].results
  BY <1>3, NodeFields
<1>6. p[i] = [k |-> "return", line |-> line, results |-> rhs]
  BY <1>3, <1>4, <1>5, NodeFields
<1>7. PICK results : results = [j \in 1 .. n |-> IF j = n THEN "wrap" ELSE "ident"]
  OBVIOUS
<1>8. results \in Seq(Exprs) /\ Len(results) = n /\ results[n] = "wrap"
  <2>1. "wrap" \in Exprs /\ "ident" \in Exprs
    BY DEF Exprs
  <2>2. n \in 1 .. n
    BY <1>2
  <2> QED BY <1>7, <2>1, <2>2
<1>9. PICK lhs : lhs = [j \in 1 .. n |-> Other]
  OBVIOUS
<1>10. lhs \in Seq(Nat \X Nat) /\ Len(lhs) = n /\ \A j \in 1 .. n : lhs[j] = Other
  <2>1. Other \in Nat \X Nat
    BY DEF Other
  <2> QED BY <1>9, <2>1
<1>11. PICK x, y, z, e :
         /\ x = [k |-> "block", line |-> line]
         /\ y = [k |-> "assign", line |-> line, lhs |-> lhs, rhs |-> rhs]
         /\ z = [k |-> "return", line |-> line, results |-> results]
         /\ e = [k |-> "end", line |-> line]
  OBVIOUS
<1>12. x \in SyntaxNodes /\ y \in SyntaxNodes /\ z \in SyntaxNodes /\ e \in SyntaxNodes
  BY <1>8, <1>10, <1>11 DEF SyntaxNodes
<1>13. [p[i] EXCEPT !.results = results] = z
  BY <1>6, <1>11
<1>14. Piece(p, Made(p, o, u), i) = <<x, y, z, e>>
  <2>1. Piece(p, Made(p, o, u), i) = ReturnNBlock(p[i], n)
    BY <1>1, <1>2 DEF InBlock
  <2> QED BY <1>4, <1>5, <1>7, <1>9, <1>11, <1>13, <2>1 DEF ReturnNBlock
<1>15. /\ x.k = "block" /\ x.line = p[i].line
       /\ y.k = "assign" /\ y.line = p[i].line
       /\ y.lhs \in Seq(Nat \X Nat) /\ y.rhs \in Seq(Exprs)
       /\ \A j \in 1 .. Len(y.lhs) : y.lhs[j] = Other
       /\ z.k = "return" /\ z.line = p[i].line
       /\ Len(z.results) = VisitorAt(p, o, u, i).n
       /\ z.results[VisitorAt(p, o, u, i).n] = "wrap"
       /\ e.k = "end" /\ e.line = p[i].line
  BY <1>1, <1>2, <1>4, <1>8, <1>10, <1>11
<1> QED BY <1>12, <1>14, <1>15

LEMMA PieceTyped ==
  ASSUME NEW p, IsFile(p), NEW o, NEW u, NEW i \in 1 .. Len(p)
  PROVE  /\ Piece(p, Made(p, o, u), i) \in Seq(SyntaxNodes)
         /\ \A k \in 1 .. Len(Piece(p, Made(p, o, u), i)) :
              Piece(p, Made(p, o, u), i)[k].line = p[i].line
<1>1. PICK x : x = Piece(p, Made(p, o, u), i)
  OBVIOUS
<1>2. p[i] \in SyntaxNodes
  BY OpenInFile
<1>3. CASE Kept(p, Made(p, o, u), i)
  <2>1. x = <<x[1]>> /\ x[1] \in SyntaxNodes /\ x[1].line = p[i].line
    BY <1>1, <1>3 DEF Kept
  <2>2. PICK a \in SyntaxNodes : a = x[1]
    BY <2>1
  <2>3. x = <<a>> /\ <<a>> \in Seq(SyntaxNodes) /\ Len(<<a>>) = 1
    BY <2>1, <2>2
  <2> QED BY <1>1, <2>1, <2>2, <2>3
<1>4. CASE p[i].k = "return" /\ Assigned(p, o, u, i)
  <2>1. PICK a \in SyntaxNodes : x = <<a, p[i]>> /\ a.line = p[i].line
    BY <1>1, <1>4, AssignedNodes
  <2>2. <<a, p[i]>> \in Seq(SyntaxNodes) /\ Len(<<a, p[i]>>) = 2
    BY <1>2
  <2> QED BY <1>1, <2>1, <2>2
<1>5. CASE p[i].k = "return" /\ InBlock(p, o, u, i)
  <2>1. PICK a, y, z, e \in SyntaxNodes :
          /\ x = <<a, y, z, e>>
          /\ a.line = p[i].line /\ y.line = p[i].line /\ z.line = p[i].line /\ e.line = p[i].line
    BY <1>1, <1>5, InBlockNodes
  <2>2. <<a, y, z, e>> \in Seq(SyntaxNodes) /\ Len(<<a, y, z, e>>) = 4
    OBVIOUS
  <2> QED BY <1>1, <2>1, <2>2
<1> QED BY <1>3, <1>4, <1>5, KeptNode, ReturnPiece

(***************************************************************************)
(* The output is the pieces put together: the piece of node i ends at      *)
(* off[i].                                                                 *)
(***************************************************************************)
OutputOf(p, o, u) == Rewritten(p, Made(p, o, u))

OffsetsOf(p, o, u, off) ==
  /\ off \in [0 .. Len(p) -> Nat]
  /\ off[0] = 0 /\ off[Len(p)] = Len(OutputOf(p, o, u))
  /\ \A i \in 1 .. Len(p) :
       /\ off[i] = off[i - 1] + Len(Piece(p, Made(p, o, u), i))
       /\ \A k \in 1 .. Len(Piece(p, Made(p, o, u), i)) :
            OutputOf(p, o, u)[off[i - 1] + k] = Piece(p, Made(p, o, u), i)[k]
  /\ \A m \in 1 .. Len(OutputOf(p, o, u)) :
       \E i \in 1 .. Len(p) : \E k \in 1 .. Len(Piece(p, Made(p, o, u), i)) : m = off[i - 1] + k

LEMMA OutputParts ==
  ASSUME NEW p, IsFile(p), NEW o, NEW u
  PROVE  OutputOf(p, o, u) \in Seq(SyntaxNodes) /\ \E off : OffsetsOf(p, o, u, off)
<1>1. PICK n \in Nat : n = Len(p) /\ n >= 1
  BY OpenInFile
<1>2. PICK b : b = Made(p, o, u)
  OBVIOUS
<1>3. PICK parts : parts = [i \in 1 .. n |-> Piece(p, b, i)]
  OBVIOUS
<1>4. \A i \in 1 .. n : parts[i] = Piece(p, b, i) /\ parts[i] \in Seq(SyntaxNodes)
  BY <1>1, <1>2, <1>3, PieceTyped
<1>5. parts \in Seq(Seq(SyntaxNodes)) /\ Len(parts) = n /\ parts # << >>
  BY <1>1, <1>3, <1>4
<1>6. PICK q : q = FlattenSeq(parts)
  OBVIOUS
<1>7. OutputOf(p, o, u) = q
  BY <1>1, <1>2, <1>3, <1>6 DEF OutputOf, Rewritten, Piece
<1>8. q \in Seq(SyntaxNodes) /\ \E off : PartsAt(parts, q, off)
  BY <1>5, <1>6, FlattenParts
<1>9. PICK off : PartsAt(parts, q, off)
  BY <1>8
<1>10. \A m \in 1 .. Len(q) : \E i \in 1 .. Len(parts) : \E k \in 1 .. Len(parts[i]) :
         m = off[i - 1] + k
  <2>0. Len(parts) \in Nat /\ \A i \in 1 .. Len(parts) : Len(parts[i]) \in Nat
    BY <1>4, <1>5
  <2>1. Covers(parts, q, off)
    BY <1>9, <2>0, PartsCover
  <2> QED BY <2>1 DEF Covers
<1>11. \A m \in 1 .. Len(q) : \E i \in 1 .. Len(p) : \E k \in 1 .. Len(Piece(p, b, i)) :
         m = off[i - 1] + k
  <2> TAKE m \in 1 .. Len(q)
  <2>1. PICK i \in 1 .. Len(parts) : \E k \in 1 .. Len(parts[i]) : m = off[i - 1] + k
    BY <1>10
  <2>2. i \in 1 .. Len(p) /\ parts[i] = Piece(p, b, i)
    BY <1>1, <1>4, <1>5
  <2> QED BY <2>1, <2>2
<1>12. OffsetsOf(p, o, u, off)
  <2>1. off \in [0 .. n -> Nat] /\ off[0] = 0 /\ off[n] = Len(q)
    BY <1>5, <1>9 DEF PartsAt
  <2>2. ASSUME NEW i \in 1 .. n
        PROVE  /\ off[i] = off[i - 1] + Len(Piece(p, b, i))
               /\ \A k \in 1 .. Len(Piece(p, b, i)) : q[off[i - 1] + k] = Piece(p, b, i)[k]
    <3>1. parts[i] = Piece(p, b, i)
      BY <1>4
    <3>2. /\ off[i] = off[i - 1] + Len(parts[i])
          /\ \A k \in 1 .. Len(parts[i]) : q[off[i - 1] + k] = parts[i][k]
      BY <1>5, <1>9 DEF PartsAt
    <3> QED BY <3>1, <3>2
  <2> QED BY <1>1, <1>2, <1>7, <1>11, <2>1, <2>2 DEF OffsetsOf
<1> QED BY <1>7, <1>8, <1>12

LEMMA OffsetsAscend ==
  ASSUME NEW p, IsFile(p), NEW o, NEW u, NEW off, OffsetsOf(p, o, u, off)
  PROVE  /\ \A i \in 0 .. Len(p) : off[i] \in Nat
         /\ \A i, j \in 0 .. Len(p) : i < j => off[i] < off[j]
         /\ \A i, j \in 0 .. Len(p) : off[i] = off[j] => i = j
<1>1. PICK n \in Nat : n = Len(p)
  BY OpenInFile
<1>2. \A i \in 0 .. n : off[i] \in Nat
  BY <1>1 DEF OffsetsOf
<1>3. ASSUME NEW i \in 1 .. n PROVE off[i - 1] < off[i]
  <2>1. PICK x : x = Piece(p, Made(p, o, u), i)
    OBVIOUS
  <2>2. Len(x) \in Nat /\ Len(x) # 0
    <3>1. x \in Seq(SyntaxNodes)
      BY <1>1, <2>1, PieceTyped
    <3>2. CASE p[i].k # "return"
      BY <1>1, <2>1, <3>2, KeptNode DEF Kept
    <3>3. CASE p[i].k = "return"
      <4>1. CASE Kept(p, Made(p, o, u), i)
        <5>1. PICK a : x = <<a>>
          BY <2>1, <4>1 DEF Kept
        <5> QED BY <5>1
      <4>2. CASE Assigned(p, o, u, i)
        <5>1. PICK a : x = <<a, p[i]>>
          BY <1>1, <2>1, <3>3, <4>2, AssignedNodes
        <5> QED BY <5>1
      <4>3. CASE InBlock(p, o, u, i)
        <5>1. PICK a, b, c, d : x = <<a, b, c, d>>
          BY <1>1, <2>1, <3>3, <4>3, InBlockNodes
        <5> QED BY <5>1
      <4> QED BY <1>1, <3>1, <3>3, <4>1, <4>2, <4>3, ReturnPiece
    <3> QED BY <3>1, <3>2, <3>3
  <2>3. off[i] = off[i - 1] + Len(x)
    BY <1>1, <2>1 DEF OffsetsOf
  <2>4. i - 1 \in 0 .. n /\ i \in 0 .. n
    OBVIOUS
  <2> QED BY <1>2, <2>2, <2>3, <2>4
<1>4. ASSUME NEW i \in 0 .. n PROVE \A j \in i + 1 .. n : off[i] < off[j]
  <2> DEFINE R == {j \in i .. n : i = j \/ off[i] < off[j]}
  <2>1. i \in R
    OBVIOUS
  <2>2. ASSUME NEW j \in i + 1 .. n, j - 1 \in R PROVE j \in R
    <3>1. j \in 1 .. n /\ j - 1 \in 0 .. n /\ j \in i .. n /\ j \in 0 .. n
      OBVIOUS
    <3>2. off[j - 1] < off[j]
      BY <1>3, <3>1
    <3>3. off[i] = off[j - 1] \/ off[i] < off[j - 1]
      BY <2>2
    <3> QED BY <1>2, <3>1, <3>2, <3>3
  <2> HIDE DEF R
  <2>3. i \in Nat
    OBVIOUS
  <2>4. i .. n \subseteq R
    BY <2>1, <2>2, <2>3, FromTo
  <2>5. ASSUME NEW j \in i + 1 .. n PROVE j \in i .. n /\ i # j
    OBVIOUS
  <2> QED BY <2>4, <2>5 DEF R
<1>5. \A i, j \in 0 .. n : i < j => off[i] < off[j]
  <2> TAKE i, j \in 0 .. n
  <2>1. i < j => j \in i + 1 .. n
    OBVIOUS
  <2> QED BY <1>4, <2>1
<1>6. \A i, j \in 0 .. n : off[i] = off[j] => i = j
  <2> SUFFICES ASSUME NEW i \in 0 .. n, NEW j \in 0 .. n, off[i] = off[j], i # j PROVE FALSE
    OBVIOUS
  <2>1. i < j \/ j < i
    OBVIOUS
  <2> QED BY <1>2, <1>5, <2>1
<1> QED BY <1>1, <1>2, <1>5, <1>6

\* Where the nodes of a piece are.
LEMMA PieceAt ==
  ASSUME NEW p, IsFile(p), NEW o, NEW u, NEW off, OffsetsOf(p, o, u, off),
         NEW i \in 1 .. Len(p), NEW k \in 1 .. Len(Piece(p, Made(p, o, u), i))
  PROVE  /\ OutputOf(p, o, u)[off[i - 1] + k] = Piece(p, Made(p, o, u), i)[k]
         /\ off[i - 1] + k \in 1 .. Len(OutputOf(p, o, u))
         /\ off[i - 1] + k <= off[i]
<1>1. PICK n \in Nat : n = Len(p)
  BY OpenInFile
<1>2. i \in 1 .. n /\ i - 1 \in 0 .. n /\ i \in 0 .. n /\ n \in 0 .. n
  BY <1>1
<1>3. PICK l \in Nat : l = Len(Piece(p, Made(p, o, u), i))
  BY PieceTyped
<1>4. off[i] = off[i - 1] + l /\ off[n] = Len(OutputOf(p, o, u))
  BY <1>1, <1>2, <1>3 DEF OffsetsOf
<1>5. off[i - 1] \in Nat /\ off[i] \in Nat /\ off[n] \in Nat /\ (i = n \/ off[i] < off[n])
  BY <1>1, <1>2, OffsetsAscend
<1>6. k \in 1 .. l
  BY <1>3
<1>7. off[i - 1] + k \in 1 .. off[n] /\ off[i - 1] + k <= off[i]
  <2>1. PICK a, b, c \in Nat : a = off[i - 1] /\ b = off[i] /\ c = off[n]
    BY <1>5
  <2>2. b = a + l /\ b <= c
    BY <1>4, <1>5, <2>1
  <2>3. a + k \in 1 .. c /\ a + k <= b
    BY <1>6, <2>2
  <2> QED BY <2>1, <2>3
<1> QED BY <1>1, <1>2, <1>4, <1>7 DEF OffsetsOf

\* Open nodes, by where they are in the output.
Moved(off, s) == [x \in 1 .. Len(s) |-> off[s[x]]]

LEMMA MovedOpen ==
  ASSUME NEW n \in Nat, NEW off \in [0 .. n -> Nat], NEW s \in Seq(0 .. n), NEW i \in 0 .. n
  PROVE  /\ Moved(off, s) \in Seq(Nat) /\ Len(Moved(off, s)) = Len(s)
         /\ \A x \in 1 .. Len(s) : Moved(off, s)[x] = off[s[x]]
         /\ Moved(off, Append(s, i)) = Append(Moved(off, s), off[i])
         /\ s # << >> => Moved(off, Front(s)) = Front(Moved(off, s))
<1>1. PICK l \in Nat : l = Len(s)
  OBVIOUS
<1>2. PICK t : t = Moved(off, s)
  OBVIOUS
<1>3. t = [x \in 1 .. l |-> off[s[x]]] /\ \A x \in 1 .. l : off[s[x]] \in Nat
  BY <1>1, <1>2 DEF Moved
<1>4. t \in Seq(Nat) /\ Len(t) = l /\ \A x \in 1 .. l : t[x] = off[s[x]]
  BY <1>1, <1>3
<1>5. Moved(off, Append(s, i)) = Append(t, off[i])
  <2>1. PICK a : a = Append(s, i)
    OBVIOUS
  <2>2. Len(a) = l + 1 /\ a[l + 1] = i /\ \A x \in 1 .. l : a[x] = s[x]
    BY <1>1, <2>1
  <2>3. PICK b : b = Append(t, off[i])
    OBVIOUS
  <2>4. b \in Seq(Nat) /\ Len(b) = l + 1 /\ b[l + 1] = off[i] /\ \A x \in 1 .. l : b[x] = t[x]
    <3>1. PICK y \in Nat : y = off[i]
      OBVIOUS
    <3>2. PICK a2 \in Seq(Nat) : a2 = t
      BY <1>4
    <3>3. b = Append(a2, y) /\ Len(a2) = l
      BY <1>4, <2>3, <3>1, <3>2
    <3>4. b \in Seq(Nat) /\ Len(b) = l + 1 /\ b[l + 1] = y /\ \A x \in 1 .. l : b[x] = a2[x]
      <4>1. /\ Append(a2, y) \in Seq(Nat) /\ Len(Append(a2, y)) = Len(a2) + 1
            /\ Append(a2, y)[Len(a2) + 1] = y
            /\ \A x \in 1 .. Len(a2) : Append(a2, y)[x] = a2[x]
        BY AppendProperties
      <4> QED BY <3>3, <4>1
    <3> QED BY <3>1, <3>2, <3>4
  <2>5. \A x \in 1 .. l + 1 : b[x] = off[a[x]]
    <3> TAKE x \in 1 .. l + 1
    <3>1. CASE x = l + 1
      BY <2>2, <2>4, <3>1
    <3>2. CASE x \in 1 .. l
      BY <1>4, <2>2, <2>4, <3>2
    <3> QED BY <3>1, <3>2
  <2>6. b = [x \in 1 .. l + 1 |-> off[a[x]]]
    BY <2>4, <2>5
  <2> QED BY <2>1, <2>2, <2>3, <2>6 DEF Moved
<1>6. ASSUME s # << >> PROVE Moved(off, Front(s)) = Front(t)
  <2>1. PICK a : a = Front(s)
    OBVIOUS
  <2>2. a \in Seq(0 .. n) /\ Len(a) = l - 1 /\ \A x \in 1 .. Len(a) : a[x] = s[x]
    BY <1>1, <1>6, <2>1, FrontOf
  <2>3. PICK b : b = Front(t)
    OBVIOUS
  <2>4. t # << >>
    BY <1>1, <1>4, <1>6
  <2>5. b \in Seq(Nat) /\ Len(b) = l - 1 /\ \A x \in 1 .. Len(b) : b[x] = t[x]
    BY <1>4, <2>3, <2>4, FrontOf
  <2>6. PICK m \in Int : m = l - 1
    OBVIOUS
  <2>7. \A x \in 1 .. m : x \in 1 .. l
    BY <2>6
  <2>8. \A x \in 1 .. m : b[x] = off[a[x]]
    BY <1>4, <2>2, <2>5, <2>6, <2>7
  <2>9. b = [x \in 1 .. m |-> off[a[x]]]
    BY <2>5, <2>6, <2>8
  <2> QED BY <2>1, <2>2, <2>3, <2>6, <2>9 DEF Moved
<1> QED BY <1>1, <1>2, <1>4, <1>5, <1>6

LEMMA FrontAppend ==
  ASSUME NEW S, NEW s \in Seq(S), NEW x \in S
  PROVE  Front(Append(s, x)) = s
<1>1. PICK l \in Nat : l = Len(s)
  OBVIOUS
<1>2. PICK t : t = Append(s, x)
  OBVIOUS
<1>3. t \in Seq(S) /\ Len(t) = l + 1 /\ t # << >> /\ \A k \in 1 .. l : t[k] = s[k]
  BY <1>1, <1>2
<1>4. PICK f : f = Front(t)
  OBVIOUS
<1>5. f \in Seq(S) /\ Len(f) = l /\ \A k \in 1 .. Len(f) : f[k] = t[k]
  BY <1>3, <1>4, FrontOf
<1>6. f = s
  BY <1>1, <1>3, <1>5
<1> QED BY <1>2, <1>4, <1>6

\* What the pieces open and close.
LEMMA OpenNext ==
  ASSUME NEW q \in Seq(SyntaxNodes), NEW m \in 1 .. Len(q), NEW b, b = m - 1
  PROVE  /\ Opens(q[m]) => Opened(q)[m] = Append(Opened(q)[b], m)
         /\ q[m].k = "end" => Opened(q)[m] = Front(Opened(q)[b])
         /\ ~ Opens(q[m]) /\ q[m].k # "end" => Opened(q)[m] = Opened(q)[b]
<1>1. Len(q) \in Nat
  OBVIOUS
<1>2. Opened(q)[m] = IF Opens(q[m]) THEN Append(Opened(q)[m - 1], m)
                     ELSE IF q[m].k = "end" THEN Front(Opened(q)[m - 1])
                     ELSE Opened(q)[m - 1]
  BY <1>1, OpenedUnfold
<1> QED BY <1>2 DEF Opens

LEMMA OpenInKept ==
  ASSUME NEW p, IsFile(p), NEW o, NEW u, NEW off, OffsetsOf(p, o, u, off),
         NEW i \in 1 .. Len(p), Kept(p, Made(p, o, u), i)
  PROVE  /\ off[i] = off[i - 1] + 1
         /\ off[i] \in 1 .. Len(OutputOf(p, o, u))
         /\ OutputOf(p, o, u)[off[i]] = Piece(p, Made(p, o, u), i)[1]
         /\ Opened(OutputOf(p, o, u))[off[i]] =
              LET before == Opened(OutputOf(p, o, u))[off[i - 1]]
              IN  IF Opens(p[i]) THEN Append(before, off[i])
                  ELSE IF p[i].k = "end" THEN Front(before)
                  ELSE before
<1>1. PICK x : x = Piece(p, Made(p, o, u), i)
  OBVIOUS
<1>2. PICK a : x = <<a>>
  BY <1>1 DEF Kept
<1>3. Len(x) = 1 /\ x[1] = a /\ a.k = p[i].k
  BY <1>1, <1>2 DEF Kept
<1>4. off[i] = off[i - 1] + 1
  BY <1>1, <1>3 DEF OffsetsOf
<1>5. OutputOf(p, o, u)[off[i]] = a /\ off[i] \in 1 .. Len(OutputOf(p, o, u))
  <2>1. 1 \in 1 .. Len(Piece(p, Made(p, o, u), i))
    BY <1>1, <1>3
  <2>2. /\ OutputOf(p, o, u)[off[i - 1] + 1] = Piece(p, Made(p, o, u), i)[1]
        /\ off[i - 1] + 1 \in 1 .. Len(OutputOf(p, o, u))
    BY <2>1, PieceAt
  <2> QED BY <1>1, <1>3, <1>4, <2>2
<1>6. off[i] - 1 = off[i - 1]
  <2>1. i - 1 \in 0 .. Len(p)
    BY OpenInFile
  <2>2. off[i - 1] \in Nat
    BY <2>1, OffsetsAscend
  <2> QED BY <1>4, <2>2
<1>7. Opens(a) <=> Opens(p[i])
  BY <1>3 DEF Opens
<1>8. PICK q \in Seq(SyntaxNodes) : q = OutputOf(p, o, u)
  BY OutputParts
<1>9. PICK m \in 1 .. Len(q) : m = off[i]
  BY <1>5, <1>8
<1>10. PICK b : b = off[i - 1]
  OBVIOUS
<1>11. b = m - 1 /\ q[m] = a
  BY <1>5, <1>6, <1>8, <1>9, <1>10
<1>12. Opened(q)[m] = IF Opens(p[i]) THEN Append(Opened(q)[b], m)
                      ELSE IF p[i].k = "end" THEN Front(Opened(q)[b])
                      ELSE Opened(q)[b]
  <2>1. Opens(q[m]) <=> Opens(p[i])
    BY <1>7, <1>11
  <2>2. q[m].k = p[i].k
    BY <1>3, <1>11
  <2>3. /\ Opens(q[m]) => Opened(q)[m] = Append(Opened(q)[b], m)
        /\ q[m].k = "end" => Opened(q)[m] = Front(Opened(q)[b])
        /\ ~ Opens(q[m]) /\ q[m].k # "end" => Opened(q)[m] = Opened(q)[b]
    BY <1>11, OpenNext
  <2> QED BY <2>1, <2>2, <2>3, Zenon
<1> QED BY <1>1, <1>3, <1>4, <1>5, <1>8, <1>9, <1>10, <1>12

LEMMA OpenInAssigned ==
  ASSUME NEW p, IsFile(p), NEW o, NEW u, NEW off, OffsetsOf(p, o, u, off),
         NEW i \in 1 .. Len(p), p[i].k = "return", Assigned(p, o, u, i)
  PROVE  /\ off[i] = off[i - 1] + 2
         /\ {off[i - 1] + 1, off[i - 1] + 2} \subseteq 1 .. Len(OutputOf(p, o, u))
         /\ OutputOf(p, o, u)[off[i - 1] + 1] = Piece(p, Made(p, o, u), i)[1]
         /\ OutputOf(p, o, u)[off[i - 1] + 2] = p[i]
         /\ Opened(OutputOf(p, o, u))[off[i - 1] + 1] = Opened(OutputOf(p, o, u))[off[i - 1]]
         /\ Opened(OutputOf(p, o, u))[off[i - 1] + 2] = Opened(OutputOf(p, o, u))[off[i - 1]]
<1>1. PICK x : x = Piece(p, Made(p, o, u), i)
  OBVIOUS
<1>2. PICK a : x = <<a, p[i]>> /\ a.k = "assign"
  BY <1>1, AssignedNodes
<1>3. Len(x) = 2 /\ x[1] = a /\ x[2] = p[i]
  BY <1>2
<1>4. PICK b \in Nat : b = off[i - 1]
  <2>1. i - 1 \in 0 .. Len(p)
    BY OpenInFile
  <2> QED BY <2>1, OffsetsAscend
<1>5. off[i] = b + 2
  BY <1>1, <1>3, <1>4 DEF OffsetsOf
<1>6. /\ OutputOf(p, o, u)[b + 1] = a /\ b + 1 \in 1 .. Len(OutputOf(p, o, u))
      /\ OutputOf(p, o, u)[b + 2] = p[i] /\ b + 2 \in 1 .. Len(OutputOf(p, o, u))
  <2>1. \A k \in 1 .. Len(x) :
          /\ OutputOf(p, o, u)[off[i - 1] + k] = x[k]
          /\ off[i - 1] + k \in 1 .. Len(OutputOf(p, o, u))
    BY <1>1, PieceAt
  <2>2. 1 \in 1 .. Len(x) /\ 2 \in 1 .. Len(x)
    BY <1>3
  <2> QED BY <1>3, <1>4, <2>1, <2>2
<1>7. PICK q \in Seq(SyntaxNodes) : q = OutputOf(p, o, u)
  BY OutputParts
<1>8. PICK c, d : c = b + 1 /\ d = b + 2
  OBVIOUS
<1>9. b = c - 1 /\ c = d - 1 /\ c \in 1 .. Len(q) /\ d \in 1 .. Len(q) /\ q[c] = a /\ q[d] = p[i]
  BY <1>6, <1>7, <1>8
<1>10. ~ Opens(a) /\ a.k # "end" /\ ~ Opens(p[i]) /\ p[i].k # "end"
  BY <1>2 DEF Opens
<1>11. Opened(q)[c] = Opened(q)[b]
  BY <1>9, <1>10, OpenNext
<1>12. Opened(q)[d] = Opened(q)[c]
  BY <1>9, <1>10, OpenNext
<1> QED BY <1>1, <1>3, <1>4, <1>5, <1>6, <1>7, <1>8, <1>11, <1>12

\* The four nodes of a return that becomes a block, and the nodes open after them.
BlockStands(p, o, u, off, i) ==
  /\ off[i] = off[i - 1] + 4
  /\ \A k \in 1 .. 4 : /\ off[i - 1] + k \in 1 .. Len(OutputOf(p, o, u))
                       /\ OutputOf(p, o, u)[off[i - 1] + k] = Piece(p, Made(p, o, u), i)[k]
  /\ \A k \in 1 .. 3 : Opened(OutputOf(p, o, u))[off[i - 1] + k]
                         = Append(Opened(OutputOf(p, o, u))[off[i - 1]], off[i - 1] + 1)
  /\ Opened(OutputOf(p, o, u))[off[i - 1] + 4] = Opened(OutputOf(p, o, u))[off[i - 1]]

LEMMA OpenInBlock ==
  ASSUME NEW p, IsFile(p), NEW o, NEW u, NEW off, OffsetsOf(p, o, u, off),
         NEW i \in 1 .. Len(p), p[i].k = "return", InBlock(p, o, u, i),
         Opened(OutputOf(p, o, u))[off[i - 1]] \in Seq(Nat)
  PROVE  BlockStands(p, o, u, off, i)
<1> USE DEF BlockStands
<1>1. PICK x : x = Piece(p, Made(p, o, u), i)
  OBVIOUS
<1>2. PICK a, y, z, e : /\ x = <<a, y, z, e>>
                        /\ a.k = "block" /\ y.k = "assign" /\ z.k = "return" /\ e.k = "end"
  BY <1>1, InBlockNodes
<1>3. Len(x) = 4 /\ x[1] = a /\ x[2] = y /\ x[3] = z /\ x[4] = e
  BY <1>2
<1>4. PICK b \in Nat : b = off[i - 1]
  <2>1. i - 1 \in 0 .. Len(p)
    BY OpenInFile
  <2> QED BY <2>1, OffsetsAscend
<1>5. off[i] = b + 4
  BY <1>1, <1>3, <1>4 DEF OffsetsOf
<1>6. \A k \in 1 .. 4 : b + k \in 1 .. Len(OutputOf(p, o, u)) /\ OutputOf(p, o, u)[b + k] = x[k]
  <2>1. \A k \in 1 .. Len(x) :
          /\ OutputOf(p, o, u)[off[i - 1] + k] = x[k]
          /\ off[i - 1] + k \in 1 .. Len(OutputOf(p, o, u))
    BY <1>1, PieceAt
  <2> QED BY <1>3, <1>4, <2>1
<1>7. PICK q \in Seq(SyntaxNodes) : q = OutputOf(p, o, u)
  BY OutputParts
<1>8. PICK c, d, f, g : c = b + 1 /\ d = b + 2 /\ f = b + 3 /\ g = b + 4
  OBVIOUS
<1>9. b = c - 1 /\ c = d - 1 /\ d = f - 1 /\ f = g - 1
  BY <1>8
<1>10. /\ c \in 1 .. Len(q) /\ d \in 1 .. Len(q) /\ f \in 1 .. Len(q) /\ g \in 1 .. Len(q)
       /\ q[c] = a /\ q[d] = y /\ q[f] = z /\ q[g] = e
  <2>1. 1 \in 1 .. 4 /\ 2 \in 1 .. 4 /\ 3 \in 1 .. 4 /\ 4 \in 1 .. 4
    OBVIOUS
  <2> QED BY <1>3, <1>6, <1>7, <1>8, <2>1
<1>11. Opens(a) /\ ~ Opens(y) /\ y.k # "end" /\ ~ Opens(z) /\ z.k # "end"
  BY <1>2 DEF Opens
<1>12. PICK t \in Seq(Nat) : t = Opened(q)[b]
  BY <1>4, <1>7
<1>13. Opened(q)[c] = Append(t, c)
  <2>1. c \in 1 .. Len(q) /\ b = c - 1 /\ Opens(q[c])
    BY <1>9, <1>10, <1>11
  <2> QED BY <1>12, <2>1, OpenNext
<1>14. Opened(q)[d] = Append(t, c)
  <2>1. d \in 1 .. Len(q) /\ c = d - 1 /\ ~ Opens(q[d]) /\ q[d].k # "end"
    BY <1>9, <1>10, <1>11
  <2> QED BY <1>13, <2>1, OpenNext
<1>15. Opened(q)[f] = Append(t, c)
  <2>1. f \in 1 .. Len(q) /\ d = f - 1 /\ ~ Opens(q[f]) /\ q[f].k # "end"
    BY <1>9, <1>10, <1>11
  <2> QED BY <1>14, <2>1, OpenNext
<1>16. Opened(q)[g] = Front(Append(t, c))
  <2>1. q[g].k = "end" /\ f = g - 1 /\ g \in 1 .. Len(q)
    BY <1>2, <1>9, <1>10
  <2>2. Opened(q)[g] = Front(Opened(q)[f])
    BY <2>1, OpenNext
  <2> QED BY <1>15, <2>2
<1>17. Front(Append(t, c)) = t
  BY <1>8, FrontAppend
<1>18. ASSUME NEW k \in 1 .. 3 PROVE Opened(q)[b + k] = Append(t, c)
  <2>1. k = 1 \/ k = 2 \/ k = 3
    OBVIOUS
  <2> QED BY <1>8, <1>13, <1>14, <1>15, <2>1
<1> QED BY <1>1, <1>4, <1>5, <1>6, <1>7, <1>8, <1>12, <1>16, <1>17, <1>18

\* Open nodes of a file are among its nodes.
LEMMA OpenNodes ==
  ASSUME NEW p, IsFile(p)
  PROVE  \A i \in 0 .. Len(p) : Opened(p)[i] \in Seq(0 .. Len(p))
<1>1. PICK n \in Nat : n = Len(p)
  BY OpenInFile
<1>2. ASSUME NEW i \in 0 .. n PROVE Opened(p)[i] \in Seq(0 .. n)
  <2>1. PICK s : s = Opened(p)[i]
    OBVIOUS
  <2>2. s \in Seq(Nat) /\ \A x \in 1 .. Len(s) : s[x] \in 1 .. i
    <3>1. OpenInv(p, i)
      BY <1>1, OpenAlways
    <3> QED BY <2>1, <3>1 DEF OpenInv
  <2>3. \A x \in 1 .. Len(s) : s[x] \in 0 .. n
    BY <2>2
  <2>4. s \in Seq(0 .. n)
    BY <2>2, <2>3
  <2> QED BY <2>1, <2>4
<1> QED BY <1>1, <1>2

\* After the piece of a node those nodes are open that are open after the node.
LEMMA OpenMoved ==
  ASSUME NEW p, IsFile(p), NEW o, NEW u, NEW off, OffsetsOf(p, o, u, off)
  PROVE  \A i \in 0 .. Len(p) : Opened(OutputOf(p, o, u))[off[i]] = Moved(off, Opened(p)[i])
<1>1. PICK n \in Nat : n = Len(p)
  BY OpenInFile
<1>2. PICK q \in Seq(SyntaxNodes) : q = OutputOf(p, o, u)
  BY OutputParts
<1>3. off \in [0 .. n -> Nat] /\ off[0] = 0
  BY <1>1 DEF OffsetsOf
<1> DEFINE R == {i \in 0 .. n : Opened(q)[off[i]] = Moved(off, Opened(p)[i])}
<1>4. 0 \in R
  <2>1. Len(q) \in Nat
    OBVIOUS
  <2>2. Opened(q)[0] = << >> /\ Opened(p)[0] = << >>
    BY <1>1, <2>1, OpenedUnfold
  <2>3. Moved(off, << >>) = << >>
    BY DEF Moved
  <2> QED BY <1>3, <2>2, <2>3
<1>5. ASSUME NEW i \in 1 .. n, i - 1 \in R PROVE i \in R
  <2>0. i - 1 \in 0 .. n /\ i \in 0 .. n
    OBVIOUS
  <2>1. PICK s \in Seq(0 .. n) : s = Opened(p)[i - 1]
    BY <1>1, <2>0, OpenNodes
  <2>2. Opened(q)[off[i - 1]] = Moved(off, s)
    BY <1>5, <2>1
  <2>3. Opened(p)[i] = IF Opens(p[i]) THEN Append(s, i)
                       ELSE IF p[i].k = "end" THEN Front(s)
                       ELSE s
    BY <1>1, <2>1, OpenedUnfold
  <2>4. CASE Kept(p, Made(p, o, u), i)
    <3>1. Opened(q)[off[i]] = IF Opens(p[i]) THEN Append(Moved(off, s), off[i])
                              ELSE IF p[i].k = "end" THEN Front(Moved(off, s))
                              ELSE Moved(off, s)
      BY <1>1, <1>2, <2>2, <2>4, OpenInKept
    <3>2. p[i].k = "end" /\ ~ Opens(p[i]) => s # << >>
      <4>1. CASE i = 1
        BY <1>1, <4>1 DEF IsFile
      <4>2. CASE i # 1
        <5>1. i \in 2 .. n
          BY <4>2
        <5> QED BY <1>1, <2>1, <5>1 DEF IsFile, OpenAt
      <4> QED BY <4>1, <4>2
    <3>3. /\ Moved(off, Append(s, i)) = Append(Moved(off, s), off[i])
          /\ s # << >> => Moved(off, Front(s)) = Front(Moved(off, s))
      BY <1>3, <2>0, MovedOpen
    <3>4. Opened(q)[off[i]] = Moved(off, Opened(p)[i])
      BY <2>3, <3>1, <3>2, <3>3
    <3> QED BY <2>0, <3>4
  <2>5. CASE p[i].k = "return" /\ Assigned(p, o, u, i)
    <3>1. off[i] = off[i - 1] + 2 /\ Opened(q)[off[i - 1] + 2] = Opened(q)[off[i - 1]]
      BY <1>1, <1>2, <2>5, OpenInAssigned
    <3>2. Opened(p)[i] = s
      BY <2>3, <2>5 DEF Opens
    <3>3. Opened(q)[off[i]] = Moved(off, Opened(p)[i])
      BY <2>2, <3>1, <3>2
    <3> QED BY <2>0, <3>3
  <2>6. CASE p[i].k = "return" /\ InBlock(p, o, u, i)
    <3>0. Opened(q)[off[i - 1]] \in Seq(Nat)
      <4>1. Moved(off, s) \in Seq(Nat)
        BY <1>3, <2>0, MovedOpen
      <4> QED BY <2>2, <4>1
    <3>1. off[i] = off[i - 1] + 4 /\ Opened(q)[off[i - 1] + 4] = Opened(q)[off[i - 1]]
      <4>1. Opened(OutputOf(p, o, u))[off[i - 1]] \in Seq(Nat)
        BY <1>2, <3>0
      <4>2. /\ off[i] = off[i - 1] + 4
            /\ Opened(OutputOf(p, o, u))[off[i - 1] + 4] = Opened(OutputOf(p, o, u))[off[i - 1]]
        <5>1. BlockStands(p, o, u, off, i)
          BY <1>1, <2>6, <4>1, OpenInBlock
        <5> QED BY <5>1 DEF BlockStands
      <4> QED BY <1>2, <4>2
    <3>2. Opened(p)[i] = s
      BY <2>3, <2>6 DEF Opens
    <3>3. Opened(q)[off[i]] = Moved(off, Opened(p)[i])
      BY <2>2, <3>1, <3>2
    <3> QED BY <2>0, <3>3
  <2> QED BY <1>1, <2>4, <2>5, <2>6, KeptNode, ReturnPiece
<1> HIDE DEF R
<1>6. 0 .. n \subseteq R
  BY <1>4, <1>5, UpTo
<1> QED BY <1>1, <1>2, <1>6 DEF R

\* Every node of the output is on the line of one of the file's.
LEMMA OutputLines ==
  ASSUME NEW p, IsFile(p), NEW o, NEW u, NEW m \in 1 .. Len(OutputOf(p, o, u))
  PROVE  OutputOf(p, o, u)[m].line \in 1 .. Len(p)
<1>1. PICK off : OffsetsOf(p, o, u, off)
  BY OutputParts
<1>2. PICK i \in 1 .. Len(p) :
        \E k \in 1 .. Len(Piece(p, Made(p, o, u), i)) : m = off[i - 1] + k
  BY <1>1 DEF OffsetsOf
<1>3. PICK k \in 1 .. Len(Piece(p, Made(p, o, u), i)) :
        OutputOf(p, o, u)[m] = Piece(p, Made(p, o, u), i)[k]
  BY <1>1, <1>2, PieceAt
<1>4. Piece(p, Made(p, o, u), i)[k].line = p[i].line
  BY PieceTyped
<1>5. p[i].line = i
  BY OpenInFile
<1> QED BY <1>3, <1>4, <1>5

\* What is opened in the output is closed in it.
LEMMA OutputClosed ==
  ASSUME NEW p, IsFile(p), OpenAt(p, Len(p) + 1) = << >>, NEW o, NEW u
  PROVE  OpenAt(OutputOf(p, o, u), Len(OutputOf(p, o, u)) + 1) = << >>
<1>1. PICK n \in Nat : n = Len(p)
  BY OpenInFile
<1>2. PICK off : OffsetsOf(p, o, u, off)
  BY OutputParts
<1>3. PICK q \in Seq(SyntaxNodes) : q = OutputOf(p, o, u)
  BY OutputParts
<1>4. PICK l \in Nat : l = Len(q)
  OBVIOUS
<1>5. n \in 0 .. n /\ n + 1 - 1 = n /\ l + 1 - 1 = l
  OBVIOUS
<1>6. off[n] = l
  BY <1>1, <1>2, <1>3, <1>4 DEF OffsetsOf
<1>7. Opened(q)[l] = Moved(off, Opened(p)[n])
  BY <1>1, <1>2, <1>3, <1>5, <1>6, OpenMoved
<1>8. Opened(p)[n] = << >>
  BY <1>1, <1>5 DEF OpenAt
<1>9. Moved(off, << >>) = << >>
  BY DEF Moved
<1> QED BY <1>3, <1>4, <1>5, <1>7, <1>8, <1>9 DEF OpenAt

(***************************************************************************)
(* What the tool writes is a program again: every block that is inserted   *)
(* is closed, and inserts stay on the line of the node they are made for.  *)
(***************************************************************************)
THEOREM TypeCorrect == Spec => []TypeOK
<1>1. FileInv => TypeOK
  <2> SUFFICES ASSUME FileInv PROVE TypeOK
    OBVIOUS
  <2>1. phase \in {"write", "rewritten"} /\ optouts \subseteq Nodes(prog)
    BY DEF FileInv, Nodes
  <2>2. walked.unused \subseteq optouts
    <3>1. CASE walked = NoRun
      BY <3>1 DEF NoRun
    <3>2. CASE walked = Walk(prog, opts, optouts)
      BY <3>2 DEF Walk
    <3> QED BY <3>1, <3>2 DEF FileInv
  <2>3. ASSUME phase # "write"
        PROVE  /\ OpenAt(output, Len(output) + 1) = << >>
               /\ \A i \in Nodes(output) : output[i].line \in Nodes(prog)
    <3>1. PICK p, o, u : p = prog /\ o = opts /\ u = optouts
      OBVIOUS
    <3>2. IsFile(p) /\ OpenAt(p, Len(p) + 1) = << >>
      BY <2>3, <3>1 DEF FileInv
    <3>3. walked.inserts = Made(p, o, u)
      BY <2>3, <3>1 DEF FileInv, Walk, Made
    <3>4. output = OutputOf(p, o, u)
      BY <2>3, <3>1, <3>3 DEF FileInv, OutputOf
    <3> QED BY <3>1, <3>2, <3>4, OutputLines, OutputClosed DEF Nodes
  <2> QED BY <2>1, <2>2, <2>3 DEF TypeOK
<1> QED BY <1>1, FileHolds, PTL
-----------------------------------------------------------------------------

(***************************************************************************)
(* A second run, over what the first one wrote.  Its visitors know the     *)
(* same functions as those of the first run at the node a piece is of, and *)
(* have seen no fewer errors wrapped.                                      *)
(***************************************************************************)
\* What an assignment adds to the wrapped errors of the block.
Marks(v, node) ==
  {node.lhs[j] : j \in {j \in 1 .. Len(node.lhs) :
     /\ node.lhs[j] \in v.objs
     /\ j <= Len(node.rhs)
     /\ node.rhs[j] = "wrap"}}

LEMMA AssignAfter ==
  ASSUME NEW p, NEW i, p[i].k = "assign", NEW s \in Seq(Visitors), s # << >>
  PROVE  /\ StackAfter(s, p, i) \in Seq(Visitors)
         /\ Len(StackAfter(s, p, i)) = Len(s)
         /\ \A j \in 1 .. Len(s) - 1 : StackAfter(s, p, i)[j] = s[j]
         /\ StackAfter(s, p, i)[Len(s)].indices = Last(s).indices
         /\ StackAfter(s, p, i)[Len(s)].objs = Last(s).objs
         /\ StackAfter(s, p, i)[Len(s)].n = Last(s).n
         /\ StackAfter(s, p, i)[Len(s)].wrapped = Last(s).wrapped \union Marks(Last(s), p[i])
<1>1. PICK k \in Nat : k = Len(s) /\ k >= 1
  OBVIOUS
<1>2. PICK v \in Visitors : v = s[k] /\ v = Last(s)
  BY <1>1 DEF Last
<1>3. PICK done : done = Marks(v, p[i])
  OBVIOUS
<1>4. done \in SUBSET (Nat \X Nat)
  <2>1. done \subseteq v.objs
    BY <1>3 DEF Marks
  <2> QED BY <2>1 DEF Visitors
<1>5. PICK t : t = [s EXCEPT ![k].wrapped = @ \union done]
  OBVIOUS
<1>6. StackAfter(s, p, i) = t
  <2> DEFINE only == [stack |-> s]
  <2>1. Top(only) = v
    BY <1>2 DEF Top
  <2>2. AssignStmt(only, p[i]) = [only EXCEPT !.stack[Len(s)].wrapped = @ \union done]
    BY <1>3, <2>1 DEF AssignStmt, Marks
  <2>3. AssignStmt(only, p[i]).stack = t
    BY <1>1, <1>5, <2>2
  <2>4. StackAfter(s, p, i) = AssignStmt([stack |-> s], p[i]).stack
    BY DEF StackAfter, IsFunc
  <2> QED BY <2>3, <2>4
<1>7. PICK x : x = [v EXCEPT !.wrapped = @ \union done]
  OBVIOUS
<1>8. /\ x \in Visitors
      /\ x.indices = v.indices /\ x.objs = v.objs /\ x.n = v.n /\ x.wrapped = v.wrapped \union done
  BY <1>4, <1>7 DEF Visitors
<1>9. t = [s EXCEPT ![k] = x]
  BY <1>2, <1>5, <1>7
<1>10. k \in 1 .. Len(s)
  BY <1>1
<1>11. /\ t \in Seq(Visitors) /\ Len(t) = Len(s)
       /\ \A j \in 1 .. Len(s) : t[j] = IF j = k THEN x ELSE s[j]
  BY <1>8, <1>9, <1>10, ExceptSeq
<1>12. \A j \in 1 .. k - 1 : j \in 1 .. Len(s) /\ j # k
  BY <1>1
<1> QED BY <1>1, <1>2, <1>3, <1>6, <1>8, <1>10, <1>11, <1>12

Follows(v, x) ==
  /\ x.indices = v.indices /\ x.objs = v.objs /\ x.n = v.n
  /\ v.wrapped \subseteq x.wrapped

StackFollows(s, t) ==
  /\ s \in Seq(Visitors) /\ t \in Seq(Visitors)
  /\ s # << >> /\ Len(t) = Len(s)
  /\ \A j \in 1 .. Len(s) : Follows(s[j], t[j])

LEMMA FollowsTop ==
  ASSUME NEW s, NEW t, StackFollows(s, t)
  PROVE  /\ Last(s) \in Visitors /\ Last(t) \in Visitors
         /\ Follows(Last(s), Last(t))
         /\ t # << >> /\ Len(s) \in Nat /\ Len(s) >= 1
<1>1. PICK a \in Seq(Visitors) : a = s
  BY DEF StackFollows
<1>2. PICK b \in Seq(Visitors) : b = t
  BY DEF StackFollows
<1>3. PICK k \in Nat : k = Len(a) /\ k = Len(b) /\ k >= 1
  BY <1>1, <1>2 DEF StackFollows
<1>4. k \in 1 .. Len(a) /\ k \in 1 .. Len(b) /\ b # << >>
  BY <1>3
<1>5. a[k] \in Visitors /\ b[k] \in Visitors
  BY <1>4
<1>6. Follows(a[k], b[k])
  BY <1>1, <1>2, <1>4 DEF StackFollows
<1> QED BY <1>1, <1>2, <1>3, <1>4, <1>5, <1>6 DEF Last

LEMMA FollowsPushed ==
  ASSUME NEW s, NEW t, StackFollows(s, t), NEW v \in Visitors, NEW x \in Visitors, Follows(v, x)
  PROVE  StackFollows(Append(s, v), Append(t, x))
<1>1. PICK a \in Seq(Visitors) : a = s
  BY DEF StackFollows
<1>2. PICK b \in Seq(Visitors) : b = t
  BY DEF StackFollows
<1>3. PICK k \in Nat : k = Len(a) /\ k = Len(b)
  BY <1>1, <1>2 DEF StackFollows
<1>4. PICK c : c = Append(a, v)
  OBVIOUS
<1>5. PICK d : d = Append(b, x)
  OBVIOUS
<1>6. c \in Seq(Visitors) /\ Len(c) = k + 1 /\ c[k + 1] = v /\ \A j \in 1 .. k : c[j] = a[j]
  <2>1. /\ c \in Seq(Visitors) /\ Len(c) = Len(a) + 1
        /\ \A j \in 1 .. Len(a) : c[j] = a[j]
        /\ c[Len(a) + 1] = v
    BY <1>4, AppendProperties
  <2> QED BY <1>3, <2>1
<1>7. d \in Seq(Visitors) /\ Len(d) = k + 1 /\ d[k + 1] = x /\ \A j \in 1 .. k : d[j] = b[j]
  BY <1>3, <1>5, AppendProperties
<1>8. ASSUME NEW j \in 1 .. k + 1 PROVE Follows(c[j], d[j])
  <2>1. CASE j = k + 1
    BY <1>6, <1>7, <2>1
  <2>2. CASE j \in 1 .. k
    BY <1>1, <1>2, <1>3, <1>6, <1>7, <2>2 DEF StackFollows
  <2> QED BY <2>1, <2>2
<1>9. c # << >>
  BY <1>6
<1>10. StackFollows(c, d)
  BY <1>6, <1>7, <1>8, <1>9 DEF StackFollows
<1> QED BY <1>1, <1>2, <1>4, <1>5, <1>10

LEMMA FollowsPopped ==
  ASSUME NEW s, NEW t, StackFollows(s, t), Len(s) >= 2
  PROVE  StackFollows(Front(s), Front(t))
<1>1. PICK a \in Seq(Visitors) : a = s
  BY DEF StackFollows
<1>2. PICK b \in Seq(Visitors) : b = t
  BY DEF StackFollows
<1>3. PICK k \in Nat : k = Len(a) /\ k = Len(b) /\ k >= 2
  BY <1>1, <1>2 DEF StackFollows
<1>4. PICK c : c = Front(a)
  OBVIOUS
<1>5. PICK d : d = Front(b)
  OBVIOUS
<1>6. a # << >> /\ b # << >>
  <2>1. \A r \in Seq(Visitors) : Len(r) >= 2 => r # << >>
    OBVIOUS
  <2> QED BY <1>3, <2>1
<1>7. c \in Seq(Visitors) /\ Len(c) = k - 1 /\ \A j \in 1 .. k - 1 : c[j] = a[j]
  BY <1>3, <1>4, <1>6, FrontOf
<1>8. d \in Seq(Visitors) /\ Len(d) = k - 1 /\ \A j \in 1 .. k - 1 : d[j] = b[j]
  BY <1>3, <1>5, <1>6, FrontOf
<1>9. ASSUME NEW j \in 1 .. k - 1 PROVE Follows(c[j], d[j])
  <2>1. j \in 1 .. k
    BY <1>3
  <2> QED BY <1>1, <1>2, <1>3, <1>7, <1>8, <2>1 DEF StackFollows
<1>10. c # << >>
  BY <1>3, <1>7
<1>11. StackFollows(c, d)
  BY <1>7, <1>8, <1>9, <1>10 DEF StackFollows
<1> QED BY <1>1, <1>2, <1>4, <1>5, <1>11

\* What a function is entered with does not depend on where it stands.
LEMMA SameFunc ==
  ASSUME NEW v \in Visitors, NEW x \in Visitors, NEW sig, NEW line
  PROVE  FuncType(v, sig, line) = FuncType(x, sig, line)
<1>1. [v EXCEPT !.indices = {}, !.objs = {}, !.n = 0, !.wrapped = {}]
        = [x EXCEPT !.indices = {}, !.objs = {}, !.n = 0, !.wrapped = {}]
  <2>1. PICK a : a = [v EXCEPT !.indices = {}, !.objs = {}, !.n = 0, !.wrapped = {}]
    OBVIOUS
  <2>2. PICK b : b = [x EXCEPT !.indices = {}, !.objs = {}, !.n = 0, !.wrapped = {}]
    OBVIOUS
  <2>3. a = [indices |-> {}, objs |-> {}, n |-> 0, wrapped |-> {}]
    BY <2>1 DEF Visitors
  <2>4. b = [indices |-> {}, objs |-> {}, n |-> 0, wrapped |-> {}]
    BY <2>2 DEF Visitors
  <2> QED BY <2>1, <2>2, <2>3, <2>4
<1>2. CASE ErrorIndices(sig) = {} \/ (Cardinality(ErrorIndices(sig)) = 1 /\ sig.unwrap)
  BY <1>1, <1>2, Zenon DEF FuncType
<1>3. CASE ~ (ErrorIndices(sig) = {} \/ (Cardinality(ErrorIndices(sig)) = 1 /\ sig.unwrap))
  BY <1>3, Zenon DEF FuncType
<1> QED BY <1>2, <1>3

\* What node m of q is to node i of p, for the visitors.
SameNode(p, i, q, m) ==
  /\ p[i] \in SyntaxNodes /\ q[m] \in SyntaxNodes
  /\ q[m].k = p[i].k
  /\ IsFunc(p[i]) => q[m].sig = p[i].sig /\ q[m].line = p[i].line
  /\ p[i].k = "assign" =>
       /\ q[m].lhs = p[i].lhs
       /\ Len(q[m].rhs) = Len(p[i].rhs)
       /\ \A j \in 1 .. Len(p[i].rhs) : p[i].rhs[j] = "wrap" => q[m].rhs[j] = "wrap"

LEMMA FollowsStep ==
  ASSUME NEW p, NEW i, NEW q, NEW m, SameNode(p, i, q, m),
         NEW s, NEW t, StackFollows(s, t), p[i].k = "end" => Len(s) >= 2
  PROVE  StackFollows(StackAfter(s, p, i), StackAfter(t, q, m))
<1>1. PICK v \in Visitors : v = Last(s)
  BY FollowsTop
<1>2. PICK x \in Visitors : x = Last(t) /\ Follows(v, x)
  BY <1>1, FollowsTop
<1>3. p[i] \in SyntaxNodes /\ q[m] \in SyntaxNodes /\ q[m].k = p[i].k
  BY DEF SameNode
<1>4. CASE IsFunc(p[i])
  <2>1. PICK y : y = FuncType(v, p[i].sig, p[i].line)
    OBVIOUS
  <2>2. y \in Visitors
    BY <1>3, <1>4, <2>1, FuncTypeKnows
  <2>3. y = FuncType(x, p[i].sig, p[i].line)
    BY <2>1, SameFunc
  <2>4. IsFunc(q[m]) /\ q[m].sig = p[i].sig /\ q[m].line = p[i].line
    BY <1>3, <1>4 DEF SameNode, IsFunc
  <2>5. StackAfter(s, p, i) = Append(s, y)
    BY <1>1, <1>4, <2>1 DEF StackAfter
  <2>6. StackAfter(t, q, m) = Append(t, y)
    BY <1>2, <2>3, <2>4 DEF StackAfter
  <2>7. Follows(y, y)
    BY DEF Follows
  <2> QED BY <2>2, <2>5, <2>6, <2>7, FollowsPushed
<1>5. CASE p[i].k \in {"block", "switch"}
  <2>1. PICK y : y = BlockVisitor(v)
    OBVIOUS
  <2>2. PICK z : z = BlockVisitor(x)
    OBVIOUS
  <2>3. y \in Visitors /\ y.indices = v.indices /\ y.objs = v.objs /\ y.n = v.n /\ y.wrapped = {}
    BY <2>1 DEF BlockVisitor, Visitors
  <2>4. z \in Visitors /\ z.indices = x.indices /\ z.objs = x.objs /\ z.n = x.n /\ z.wrapped = {}
    BY <2>2 DEF BlockVisitor, Visitors
  <2>5. Follows(y, z)
    BY <1>2, <2>3, <2>4 DEF Follows
  <2>6. StackAfter(s, p, i) = Append(s, y)
    BY <1>1, <1>5, <2>1 DEF StackAfter, IsFunc
  <2>7. StackAfter(t, q, m) = Append(t, z)
    BY <1>2, <1>3, <1>5, <2>2 DEF StackAfter, IsFunc
  <2> QED BY <2>3, <2>4, <2>5, <2>6, <2>7, FollowsPushed
<1>6. CASE p[i].k = "end"
  <2>1. StackAfter(s, p, i) = Front(s)
    BY <1>6 DEF StackAfter, IsFunc
  <2>2. StackAfter(t, q, m) = Front(t)
    BY <1>3, <1>6 DEF StackAfter, IsFunc
  <2> QED BY <1>6, <2>1, <2>2, FollowsPopped
<1>7. CASE p[i].k = "assign"
  <2>1. PICK a : a = StackAfter(s, p, i)
    OBVIOUS
  <2>2. PICK b : b = StackAfter(t, q, m)
    OBVIOUS
  <2>3. PICK k \in Nat : k = Len(s) /\ k >= 1
    BY FollowsTop
  <2>4. /\ s \in Seq(Visitors) /\ t \in Seq(Visitors)
        /\ s # << >> /\ t # << >> /\ Len(t) = k
        /\ \A j \in 1 .. k : Follows(s[j], t[j])
    BY <2>3, FollowsTop DEF StackFollows
  <2>5. /\ a \in Seq(Visitors) /\ Len(a) = k
        /\ \A j \in 1 .. k - 1 : a[j] = s[j]
        /\ a[k].indices = v.indices /\ a[k].objs = v.objs /\ a[k].n = v.n
        /\ a[k].wrapped = v.wrapped \union Marks(v, p[i])
    BY <1>1, <1>7, <2>1, <2>3, <2>4, AssignAfter
  <2>6. /\ b \in Seq(Visitors) /\ Len(b) = k
        /\ \A j \in 1 .. k - 1 : b[j] = t[j]
        /\ b[k].indices = x.indices /\ b[k].objs = x.objs /\ b[k].n = x.n
        /\ b[k].wrapped = x.wrapped \union Marks(x, q[m])
    BY <1>2, <1>3, <1>7, <2>2, <2>3, <2>4, AssignAfter
  <2>7. Marks(v, p[i]) \subseteq Marks(x, q[m])
    <3>1. /\ q[m].lhs = p[i].lhs /\ Len(q[m].rhs) = Len(p[i].rhs) /\ x.objs = v.objs
          /\ \A j \in 1 .. Len(p[i].rhs) : p[i].rhs[j] = "wrap" => q[m].rhs[j] = "wrap"
      BY <1>2, <1>7 DEF SameNode, Follows
    <3>2. Len(p[i].lhs) \in Nat /\ Len(p[i].rhs) \in Nat
      BY <1>3, <1>7, NodeFields
    <3>3. \A j \in 1 .. Len(p[i].lhs) : j <= Len(p[i].rhs) => j \in 1 .. Len(p[i].rhs)
      BY <3>2
    <3> QED BY <3>1, <3>3 DEF Marks
  <2>8. Follows(a[k], b[k])
    BY <1>2, <2>5, <2>6, <2>7 DEF Follows
  <2>9. ASSUME NEW j \in 1 .. k PROVE Follows(a[j], b[j])
    <3>1. CASE j = k
      BY <2>8, <3>1
    <3>2. CASE j \in 1 .. k - 1
      BY <2>4, <2>5, <2>6, <3>2
    <3> QED BY <2>3, <3>1, <3>2
  <2>10. a # << >>
    BY <2>3, <2>5
  <2>11. StackFollows(a, b)
    BY <2>5, <2>6, <2>9, <2>10 DEF StackFollows
  <2> QED BY <2>1, <2>2, <2>11
<1>8. CASE p[i].k \in {"case", "return"}
  <2>1. StackAfter(s, p, i) = s /\ StackAfter(t, q, m) = t
    BY <1>3, <1>8 DEF StackAfter, IsFunc
  <2> QED BY <2>1
<1> QED BY <1>3, <1>4, <1>5, <1>6, <1>7, <1>8, NodeKinds DEF IsFunc

\* A step of the walk that inserts nothing.
LEMMA QuietStep ==
  ASSUME NEW q \in Seq(SyntaxNodes), NEW o, NEW u, NEW m \in 1 .. Len(q), NEW b, b = m - 1,
         Walkers(q, o, u)[b].inserts = EmptyBag,
         NotIn(q, Candidates(Last(Walkers(q, o, u)[b].stack), q, m, o), u) = {}
  PROVE  /\ Walkers(q, o, u)[m].inserts = EmptyBag
         /\ Walkers(q, o, u)[m].stack = StackAfter(Walkers(q, o, u)[b].stack, q, m)
<1>1. IsProgram(q)
  BY ElementOfSeq, LenProperties DEF IsProgram
<1>2. PICK C : C = NotIn(q, CandidatesAt(q, o, u, m), u)
  OBVIOUS
<1>3. C = {}
  BY <1>2 DEF CandidatesAt, VisitorAt, Top
<1>4. /\ IsABag(Walkers(q, o, u)[m - 1].inserts)
      /\ Walkers(q, o, u)[m].stack = StackAfter(Walkers(q, o, u)[m - 1].stack, q, m)
      /\ Walkers(q, o, u)[m].inserts = Walkers(q, o, u)[m - 1].inserts (+) SetToBag(C)
  BY <1>1, <1>2, StepAt
<1>5. PICK e : e = Walkers(q, o, u)[m - 1].inserts
  OBVIOUS
<1>6. e (+) SetToBag(C) = e
  BY <1>3, <1>4, <1>5, InsertsAdded
<1> QED BY <1>4, <1>5, <1>6

\* Nodes that nothing is inserted at in any case.
LEMMA QuietNode ==
  ASSUME NEW v, NEW q, NEW m, q[m].k \notin {"defer", "return"}, NEW o, NEW u
  PROVE  NotIn(q, Candidates(v, q, m, o), u) = {}
BY DEF Candidates, NotIn

\* The return of a piece that is one node.
LEMMA QuietReturn ==
  ASSUME NEW p, NEW i, p[i].k = "return", p[i].results \in Seq(Exprs),
         NEW q, NEW m, q[m].k = "return", q[m].line = p[i].line,
         NEW v \in Visitors, NEW x \in Visitors, Follows(v, x),
         v.indices \subseteq 1 .. v.n,
         v.indices # {} => Len(p[i].results) \in {0, 1, v.n},
         NEW o, NEW u, NEW here, here = NotIn(p, Candidates(v, p, i, o), u),
         \A ins \in here : ins.k = "wrap",
         q[m].results = Wrapped(p[i].results, here)
  PROVE  NotIn(q, Candidates(x, q, m, o), u) = {}
<1> SUFFICES ASSUME NEW ins, ins \in NotIn(q, Candidates(x, q, m, o), u)
             PROVE  FALSE
  OBVIOUS
<1>1. PICK r \in Seq(Exprs) : r = p[i].results
  OBVIOUS
<1>2. PICK n \in Nat : n = Len(r)
  OBVIOUS
<1>3. PICK s \in Seq(Exprs) :
        /\ s = q[m].results /\ Len(s) = n
        /\ \A j \in 1 .. n :
             s[j] = IF \E y \in here : y.k = "wrap" /\ y.expr = j THEN "wrap" ELSE r[j]
  BY <1>1, <1>2, WrappedExprs
<1>4. x.indices = v.indices /\ x.objs = v.objs /\ x.n = v.n /\ v.wrapped \subseteq x.wrapped
  BY DEF Follows
<1>5. /\ ins \in ReturnCandidates(x, q, m, o)
      /\ ins.k = "wrap" => ExprAt(q, ins) \notin {"wrap", "nil"}
      /\ LineOf(q, ins) \notin u
  BY DEF NotIn, Candidates, Needed
<1>6. v.indices # {}
  BY <1>4, <1>5 DEF ReturnCandidates
<1>7. \A y \in ReturnCandidates(x, q, m, o) : y.at = m
  BY DEF ReturnCandidates, NakedCandidates, CallCandidates, WrapInsert
<1>8. p[i].line \notin u
  BY <1>5, <1>7 DEF LineOf
<1>9. \A y \in ReturnCandidates(v, p, i, o) :
        y.at = i /\ (y.k = "wrap" => r[y.expr] \notin {"wrap", "nil"}) => y \in here
  BY <1>1, <1>8 DEF Candidates, Needed, NotIn, ExprAt, LineOf
<1>10. CASE r = << >>
  <2>1. Len(r) = 0 /\ s = << >>
    BY <1>2, <1>3, <1>10
  <2>2. ins \in NakedCandidates(x, m)
    BY <1>3, <1>5, <1>6, <1>4, <2>1 DEF ReturnCandidates
  <2>3. v.objs \ v.wrapped # {}
    BY <1>4, <2>2 DEF NakedCandidates
  <2>4. PICK y : y = [k |-> "assign", at |-> i, names |-> v.objs \ v.wrapped]
    OBVIOUS
  <2>5. y \in ReturnCandidates(v, p, i, o)
    BY <1>1, <1>6, <1>10, <2>3, <2>4 DEF ReturnCandidates, NakedCandidates
  <2>6. y \in here /\ y.k = "assign"
    BY <1>9, <2>4, <2>5
  <2> QED BY <2>6
<1>11. CASE r # << >> /\ n = 1 /\ v.n > 1
  <2>0. s # << >> /\ Len(s) = 1 /\ x.n > 1
    <3>1. n # 0
      BY <1>11
    <3>2. \A y \in Seq(Exprs) : y = << >> => Len(y) = 0
      OBVIOUS
    <3> QED BY <1>3, <1>4, <1>11, <3>1, <3>2
  <2>1. IsCall(s[1]) /\ ins \in CallCandidates(x, q, m, o)
    BY <1>3, <1>4, <1>5, <1>6, <2>0 DEF ReturnCandidates
  <2>2. 1 \in 1 .. n
    BY <1>11
  <2>3. s[1] # "wrap" /\ v.indices = {v.n}
    BY <1>3, <1>4, <2>1 DEF CallCandidates
  <2>4. s[1] = r[1]
    BY <1>3, <2>2, <2>3
  <2>5. r[1] = "call"
    BY <2>1, <2>3, <2>4 DEF IsCall
  <2>6. ReturnCandidates(v, p, i, o) = CallCandidates(v, p, i, o)
    BY <1>1, <1>2, <1>6, <1>11, <2>5 DEF ReturnCandidates, IsCall
  <2>7. CASE o.NoWrapN
    <3>1. PICK y : y = [k |-> "block", at |-> i, n |-> v.n]
      OBVIOUS
    <3>2. y \in ReturnCandidates(v, p, i, o)
      BY <1>1, <2>3, <2>5, <2>6, <2>7, <3>1 DEF CallCandidates
    <3>3. y \in here /\ y.k = "block"
      BY <1>9, <3>1, <3>2
    <3> QED BY <3>3
  <2>8. CASE ~ o.NoWrapN
    <3>1. ~ (v.n > 6)
      BY <1>4, <2>1, <2>8 DEF CallCandidates
    <3>2. PICK y : y = [k |-> "wrap", at |-> i, expr |-> 1, n |-> v.n]
      OBVIOUS
    <3>3. y \in ReturnCandidates(v, p, i, o)
      BY <1>1, <2>3, <2>5, <2>6, <2>8, <3>1, <3>2 DEF CallCandidates, WrapInsert
    <3>4. y \in here /\ y.k = "wrap" /\ y.expr = 1
      BY <1>9, <2>5, <3>2, <3>3
    <3>5. s[1] = "wrap"
      BY <1>3, <2>2, <3>4
    <3> QED BY <2>3, <3>5
  <2> QED BY <2>7, <2>8
<1>12. CASE r # << >> /\ ~ (n = 1 /\ v.n > 1)
  <2>0. n # 0 /\ s # << >>
    <3>1. n # 0
      BY <1>2, <1>12
    <3>2. \A y \in Seq(Exprs) : y = << >> => Len(y) = 0
      OBVIOUS
    <3> QED BY <1>3, <3>1, <3>2
  <2>1. PICK j \in v.indices : ins = WrapInsert(m, j, 1)
    BY <1>3, <1>4, <1>5, <1>6, <1>12, <2>0 DEF ReturnCandidates
  <2>2. ins.k = "wrap" /\ ins.at = m /\ ins.expr = j
    BY <2>1 DEF WrapInsert
  <2>3. s[j] \notin {"wrap", "nil"}
    BY <1>3, <1>5, <2>2 DEF ExprAt
  <2>4. j \in 1 .. n
    <3>1. v.n \in Nat /\ j \in 1 .. v.n
      BY <2>1 DEF Visitors
    <3>2. n \in {0, 1, v.n}
      BY <1>1, <1>2, <1>6
    <3> QED BY <1>12, <2>0, <3>1, <3>2
  <2>5. s[j] = r[j]
    BY <1>3, <2>3, <2>4
  <2>6. PICK y : y = [k |-> "wrap", at |-> i, expr |-> j, n |-> 1]
    OBVIOUS
  <2>7. y \in ReturnCandidates(v, p, i, o)
    BY <1>1, <1>2, <1>6, <1>12, <2>1, <2>6 DEF ReturnCandidates, WrapInsert
  <2>8. y \in here /\ y.k = "wrap" /\ y.expr = j
    BY <1>9, <2>3, <2>5, <2>6, <2>7
  <2> QED BY <1>3, <2>3, <2>4, <2>8
<1> QED BY <1>10, <1>11, <1>12

\* Return m is return i with expressions of it wrapped.
WrappedReturn(v, p, i, q, m, o, u) ==
  LET here == NotIn(p, Candidates(v, p, i, o), u)
  IN  /\ \A ins \in here : ins.k = "wrap"
      /\ p[i].k = "return" /\ q[m].k = "return" /\ q[m].line = p[i].line
      /\ p[i].results \in Seq(Exprs)
      /\ q[m].results = Wrapped(p[i].results, here)

\* A visitor's errors are results, and those of a return are its results.
FitsVisitor(v, results) ==
  v.indices \subseteq 1 .. v.n /\ (v.indices # {} => Len(results) \in {0, 1, v.n})

LEMMA QuietWrapped ==
  ASSUME NEW v \in Visitors, NEW x \in Visitors, Follows(v, x),
         NEW p, NEW i, NEW q, NEW m, NEW o, NEW u,
         WrappedReturn(v, p, i, q, m, o, u), FitsVisitor(v, p[i].results)
  PROVE  NotIn(q, Candidates(x, q, m, o), u) = {}
<1>1. PICK here : here = NotIn(p, Candidates(v, p, i, o), u)
  OBVIOUS
<1>2. /\ \A ins \in here : ins.k = "wrap"
      /\ p[i].k = "return" /\ q[m].k = "return" /\ q[m].line = p[i].line
      /\ p[i].results \in Seq(Exprs)
      /\ q[m].results = Wrapped(p[i].results, here)
  BY <1>1 DEF WrappedReturn
<1>3. v.indices \subseteq 1 .. v.n /\ (v.indices # {} => Len(p[i].results) \in {0, 1, v.n})
  BY DEF FitsVisitor
<1> QED BY <1>1, <1>2, <1>3, QuietReturn

\* A return whose errors are all wrapped already.
LEMMA QuietNaked ==
  ASSUME NEW q, NEW m, q[m].k = "return", q[m].results = << >>,
         NEW x, x.objs \subseteq x.wrapped, NEW o, NEW u
  PROVE  NotIn(q, Candidates(x, q, m, o), u) = {}
BY DEF NotIn, Candidates, Needed, ReturnCandidates, NakedCandidates

LEMMA QuietLast ==
  ASSUME NEW q, NEW m, q[m].k = "return", q[m].results \in Seq(Exprs),
         NEW x, x.n \in Nat, x.n > 1, x.indices = {x.n},
         Len(q[m].results) = x.n, q[m].results[x.n] = "wrap", NEW o, NEW u
  PROVE  NotIn(q, Candidates(x, q, m, o), u) = {}
<1> SUFFICES ASSUME NEW ins, ins \in Candidates(x, q, m, o)
             PROVE  FALSE
  BY DEF NotIn
<1>1. q[m].results # << >> /\ Len(q[m].results) # 1
  <2>1. \A y \in Seq(Exprs) : y = << >> => Len(y) = 0
    OBVIOUS
  <2> QED BY <2>1
<1>2. ins = WrapInsert(m, x.n, 1) /\ (ins.k = "wrap" => ExprAt(q, ins) \notin {"wrap", "nil"})
  BY <1>1 DEF Candidates, Needed, ReturnCandidates
<1> QED BY <1>2 DEF WrapInsert, ExprAt

\* An assignment of a file, with the inserts made that a defer had for it.
LEMMA QuietAssign ==
  ASSUME NEW lhs, NEW rhs \in Seq(Exprs), Len(lhs) \in Nat, NEW here,
         NEW node, node.lhs = lhs, node.rhs = rhs,
         NEW next, next.lhs = lhs, next.rhs = Wrapped(rhs, here),
         NEW objs, NEW a, NEW b, NEW ins \in DeferredWraps(next, b, objs),
         \A y \in DeferredWraps(node, a, objs) : rhs[y.expr] \notin {"wrap", "nil"} => y \in here
  PROVE  next.rhs[ins.expr] \in {"wrap", "nil"}
<1> SUFFICES ASSUME next.rhs[ins.expr] \notin {"wrap", "nil"} PROVE FALSE
  OBVIOUS
<1>1. PICK n \in Nat : n = Len(rhs)
  OBVIOUS
<1>2. PICK s \in Seq(Exprs) :
        /\ s = next.rhs /\ Len(s) = n
        /\ \A j \in 1 .. n :
             s[j] = IF \E y \in here : y.k = "wrap" /\ y.expr = j THEN "wrap" ELSE rhs[j]
  BY <1>1, WrappedExprs
<1>3. PICK l \in Nat : l = Len(lhs)
  OBVIOUS
<1>4. PICK y : y = [k |-> "wrap", at |-> a, expr |-> ins.expr, n |-> ins.n]
  OBVIOUS
<1>5. y \in DeferredWraps(node, a, objs) /\ y.k = "wrap" /\ y.expr = ins.expr /\ ins.expr \in 1 .. n
  <2>1. CASE l = n
    <3>1. PICK j \in 1 .. l : lhs[j] \in objs /\ ins = WrapInsert(b, j, 1)
      BY <1>1, <1>2, <1>3, <2>1 DEF DeferredWraps
    <3>2. ins.expr = j /\ ins.n = 1
      BY <3>1 DEF WrapInsert
    <3>3. y = WrapInsert(a, j, 1)
      BY <1>4, <3>2 DEF WrapInsert
    <3>4. y \in DeferredWraps(node, a, objs)
      BY <1>1, <1>3, <2>1, <3>1, <3>3 DEF DeferredWraps
    <3> QED BY <1>4, <2>1, <3>1, <3>2, <3>4
  <2>2. CASE l # n
    <3>1. l \in 1 .. l /\ lhs[l] \in objs /\ n = 1 /\ ins = WrapInsert(b, 1, l)
      BY <1>1, <1>2, <1>3, <2>2 DEF DeferredWraps
    <3>2. ins.expr = 1 /\ ins.n = l
      BY <3>1 DEF WrapInsert
    <3>3. y = WrapInsert(a, 1, l)
      BY <1>4, <3>2 DEF WrapInsert
    <3>4. y \in DeferredWraps(node, a, objs)
      BY <1>1, <1>3, <2>2, <3>1, <3>3 DEF DeferredWraps
    <3> QED BY <1>4, <3>1, <3>2, <3>4
  <2> QED BY <2>1, <2>2
<1>6. s[ins.expr] = rhs[ins.expr]
  BY <1>2, <1>5
<1>7. y \in here
  BY <1>2, <1>5, <1>6
<1> QED BY <1>2, <1>5, <1>7

\* Nodes stand in the output where they stood in the file.
LEMMA StandsIn ==
  ASSUME NEW p, IsFile(p), NEW o, NEW u, NEW off, OffsetsOf(p, o, u, off),
         NEW a \in 1 .. Len(p), NEW i \in 1 .. Len(p),
         off[i] \in ToSet(Opened(OutputOf(p, o, u))[off[a - 1]])
  PROVE  i \in ToSet(OpenAt(p, a)) /\ i \in 1 .. a - 1
<1>1. PICK n \in Nat : n = Len(p)
  BY OpenInFile
<1>2. a - 1 \in 0 .. n /\ i \in 0 .. n
  BY <1>1
<1>3. PICK s \in Seq(0 .. n) : s = Opened(p)[a - 1]
  BY <1>1, <1>2, OpenNodes
<1>4. PICK t : t = Moved(off, s)
  OBVIOUS
<1>5. off \in [0 .. n -> Nat]
  BY <1>1 DEF OffsetsOf
<1>6. t \in Seq(Nat) /\ Len(t) = Len(s) /\ \A x \in 1 .. Len(s) : t[x] = off[s[x]]
  <2>1. /\ Moved(off, s) \in Seq(Nat) /\ Len(Moved(off, s)) = Len(s)
        /\ \A x \in 1 .. Len(s) : Moved(off, s)[x] = off[s[x]]
    BY <1>2, <1>5, MovedOpen
  <2> QED BY <1>4, <2>1
<1>7. Opened(OutputOf(p, o, u))[off[a - 1]] = t
  BY <1>1, <1>2, <1>3, <1>4, OpenMoved
<1>8. PICK x \in 1 .. Len(s) : off[i] = t[x]
  <2>1. off[i] \in ToSet(t)
    BY <1>7
  <2>2. DOMAIN t = 1 .. Len(s)
    BY <1>6
  <2> QED BY <2>1, <2>2 DEF ToSet
<1>9. s[x] \in 0 .. n /\ off[i] = off[s[x]]
  BY <1>3, <1>6, <1>8
<1>10. i = s[x]
  BY <1>1, <1>2, <1>9, OffsetsAscend
<1>11. i \in ToSet(OpenAt(p, a))
  BY <1>3, <1>8, <1>10 DEF ToSet, OpenAt
<1>12. i \in 1 .. a - 1
  <2>1. OpenInv(p, a - 1)
    BY <1>1, <1>2, OpenAlways
  <2> QED BY <1>3, <1>8, <1>10, <2>1 DEF OpenInv
<1> QED BY <1>11, <1>12

\* The errors a deferred literal assigns are all wrapped in the output, or
\* their lines are opted out; what was inserted assigns none that are not.
LEMMA QuietDefer ==
  ASSUME NEW p, IsFile(p), NEW o, NEW u, NEW off, OffsetsOf(p, o, u, off),
         NEW i \in 1 .. Len(p), p[i].k = "defer",
         NEW x, x.objs = VisitorAt(p, o, u, i).objs,
         NEW m, m = off[i], OutputOf(p, o, u)[m].k = "defer"
  PROVE  NotIn(OutputOf(p, o, u), Candidates(x, OutputOf(p, o, u), m, o), u) = {}
<1> SUFFICES ASSUME NEW ins, ins \in NotIn(OutputOf(p, o, u), Candidates(x, OutputOf(p, o, u), m, o), u)
             PROVE  FALSE
  OBVIOUS
<1>1. PICK n \in Nat : n = Len(p)
  BY OpenInFile
<1>2. PICK q \in Seq(SyntaxNodes) : q = OutputOf(p, o, u)
  BY OutputParts
<1>3. PICK v : v = VisitorAt(p, o, u, i)
  OBVIOUS
<1>4. /\ ins \in DeferCandidates(x, q, m)
      /\ ins.k = "wrap" => ExprAt(q, ins) \notin {"wrap", "nil"}
      /\ LineOf(q, ins) \notin u
  BY <1>2 DEF NotIn, Candidates, Needed
<1>5. PICK c \in Inside(q, m) : ins \in DeferredWraps(q[c], c, x.objs)
  BY <1>4 DEF DeferCandidates
<1>6. q[c].k = "assign" /\ c \in 1 .. Len(q) /\ m \in ToSet(Opened(q)[c - 1])
  <2>1. c \in m + 1 .. Len(q) /\ q[c].k = "assign" /\ m \in ToSet(Opened(q)[c - 1])
    BY <1>5 DEF Inside, OpenAt
  <2>2. m \in Nat /\ Len(q) \in Nat
    <3>1. i \in 0 .. Len(p)
      BY <1>1
    <3> QED BY <3>1, OffsetsAscend
  <2> QED BY <2>1, <2>2
<1>7. ins.k = "wrap" /\ ins.at = c
  BY <1>5 DEF DeferredWraps, WrapInsert
<1>8. q[c].rhs[ins.expr] \notin {"wrap", "nil"} /\ q[c].line \notin u
  BY <1>4, <1>6, <1>7 DEF ExprAt, LineOf
<1>9. PICK a \in 1 .. n : \E k \in 1 .. Len(Piece(p, Made(p, o, u), a)) : c = off[a - 1] + k
  BY <1>1, <1>2, <1>6 DEF OffsetsOf
<1>10. PICK k \in 1 .. Len(Piece(p, Made(p, o, u), a)) : c = off[a - 1] + k
  BY <1>9
<1>11. q[c] = Piece(p, Made(p, o, u), a)[k]
  BY <1>1, <1>2, <1>10, PieceAt
<1>12. PICK e \in Nat : e = off[a - 1]
  <2>1. a - 1 \in 0 .. Len(p)
    BY <1>1
  <2> QED BY <2>1, OffsetsAscend
<1>13. Other \notin x.objs
  BY VisitorKnows
<1>14. CASE Kept(p, Made(p, o, u), a)
  <2>1. PICK here : here = InsertsAt(Made(p, o, u), a)
    OBVIOUS
  <2>2. PICK y : Piece(p, Made(p, o, u), a) = <<y>>
    BY <1>14 DEF Kept
  <2>3. k = 1 /\ q[c] = y
    BY <1>11, <2>2
  <2>4. /\ p[a].k = "assign" /\ y.line = p[a].line
        /\ y.lhs = p[a].lhs /\ y.rhs = Wrapped(p[a].rhs, here)
    BY <1>6, <1>14, <2>1, <2>2, <2>3 DEF Kept
  <2>5. i \in ToSet(OpenAt(p, a)) /\ i \in 1 .. a - 1
    <3>1. c - 1 = off[a - 1]
      BY <1>10, <1>12, <2>3
    <3>2. off[i] \in ToSet(Opened(OutputOf(p, o, u))[off[a - 1]])
      BY <1>2, <1>6, <3>1
    <3> QED BY <1>1, <3>2, StandsIn
  <2>6. a \in Inside(p, i)
    <3>1. a \in i + 1 .. Len(p)
      BY <1>1, <2>5
    <3> QED BY <2>4, <2>5, <3>1 DEF Inside
  <2>7. p[a].rhs \in Seq(Exprs) /\ Len(p[a].lhs) \in Nat
    <3>1. p[a] \in SyntaxNodes
      BY <1>1, OpenInFile
    <3> QED BY <2>4, <3>1, NodeFields
  <2>8. ASSUME NEW z \in DeferredWraps(p[a], a, x.objs), p[a].rhs[z.expr] \notin {"wrap", "nil"}
        PROVE  z \in here
    <3>1. z.k = "wrap" /\ z.at = a
      BY <2>8 DEF DeferredWraps, WrapInsert
    <3>2. z \in DeferCandidates(v, p, i)
      BY <1>3, <2>6, <2>8 DEF DeferCandidates
    <3>3. z \in CandidatesAt(p, o, u, i)
      BY <1>3, <2>4, <2>8, <3>1, <3>2 DEF CandidatesAt, Candidates, Needed, ExprAt
    <3>4. LineOf(p, z) \notin u
      BY <1>8, <2>3, <2>4, <3>1 DEF LineOf
    <3>5. z \in NotIn(p, CandidatesAt(p, o, u, i), u)
      BY <3>3, <3>4 DEF NotIn
    <3>6. z \in BagToSet(Made(p, o, u))
      BY <3>5, FilesArePrograms, CandidatesMade
    <3> QED BY <2>1, <3>1, <3>6 DEF InsertsAt
  <2>9. q[c].rhs[ins.expr] \in {"wrap", "nil"}
    <3>1. PICK objs : objs = x.objs
      OBVIOUS
    <3>2. PICK lhs, rhs : lhs = p[a].lhs /\ rhs = p[a].rhs
      OBVIOUS
    <3>3. PICK node, next : node = p[a] /\ next = q[c]
      OBVIOUS
    <3>4. /\ rhs \in Seq(Exprs) /\ Len(lhs) \in Nat
          /\ node.lhs = lhs /\ node.rhs = rhs
          /\ next.lhs = lhs /\ next.rhs = Wrapped(rhs, here)
      BY <2>3, <2>4, <2>7, <3>2, <3>3
    <3>5. /\ ins \in DeferredWraps(next, c, objs)
          /\ \A z \in DeferredWraps(node, a, objs) : rhs[z.expr] \notin {"wrap", "nil"} => z \in here
      BY <1>5, <2>8, <3>1, <3>2, <3>3
    <3>6. next.rhs[ins.expr] \in {"wrap", "nil"}
      BY <3>4, <3>5, QuietAssign
    <3> QED BY <3>3, <3>6
  <2> QED BY <1>8, <2>9
<1>15. CASE p[a].k = "return" /\ Assigned(p, o, u, a)
  <2>1. PICK y : /\ Piece(p, Made(p, o, u), a) = <<y, p[a]>>
                 /\ y.lhs \in Seq(Nat \X Nat) /\ Len(y.rhs) = Len(y.lhs)
                 /\ \A j \in 1 .. Len(y.lhs) : y.rhs[j] = "wrap"
    BY <1>1, <1>15, AssignedNodes
  <2>2. k = 1 \/ k = 2
    <3>1. PICK l : l = Len(Piece(p, Made(p, o, u), a)) /\ l = 2
      BY <2>1
    <3> QED BY <1>10, <3>1
  <2>3. q[c] = y
    BY <1>6, <1>11, <1>15, <2>1, <2>2
  <2>4. PICK j \in 1 .. Len(y.lhs) : ins = WrapInsert(c, j, 1)
    BY <1>5, <2>1, <2>3 DEF DeferredWraps
  <2>5. y.rhs[ins.expr] = "wrap"
    BY <2>1, <2>4 DEF WrapInsert
  <2> QED BY <1>8, <2>3, <2>5
<1>16. CASE p[a].k = "return" /\ InBlock(p, o, u, a)
  <2>1. PICK z, y, r, w : /\ Piece(p, Made(p, o, u), a) = <<z, y, r, w>>
                          /\ z.k = "block" /\ r.k = "return" /\ w.k = "end"
                          /\ y.lhs \in Seq(Nat \X Nat)
                          /\ \A j \in 1 .. Len(y.lhs) : y.lhs[j] = Other
    BY <1>1, <1>16, InBlockNodes
  <2>2. k = 1 \/ k = 2 \/ k = 3 \/ k = 4
    <3>1. PICK l : l = Len(Piece(p, Made(p, o, u), a)) /\ l = 4
      BY <2>1
    <3> QED BY <1>10, <3>1
  <2>3. q[c] = y
    BY <1>6, <1>11, <2>1, <2>2
  <2>4. \A j \in 1 .. Len(y.lhs) : y.lhs[j] \notin x.objs
    BY <1>13, <2>1
  <2>5. DeferredWraps(q[c], c, x.objs) = {}
    BY <2>3, <2>4 DEF DeferredWraps
  <2> QED BY <1>5, <2>5
<1> QED BY <1>1, <1>14, <1>15, <1>16, KeptNode, ReturnPiece

\* The first run so far, and the second over what has become of that.
RunAgain(p, o, u, off, i) ==
  /\ StackFollows(Walkers(p, o, u)[i].stack, Walkers(OutputOf(p, o, u), o, u)[off[i]].stack)
  /\ Walkers(OutputOf(p, o, u), o, u)[off[i]].inserts = EmptyBag

LEMMA ReturnsFitVisitor ==
  ASSUME NEW p, IsFile(p), ReturnsFit(p), NEW o, NEW u, NEW i \in 1 .. Len(p), p[i].k = "return"
  PROVE  /\ VisitorAt(p, o, u, i).indices \subseteq 1 .. VisitorAt(p, o, u, i).n
         /\ VisitorAt(p, o, u, i).indices # {} =>
              Len(p[i].results) \in {0, 1, VisitorAt(p, o, u, i).n}
<1>1. PICK v : v = VisitorAt(p, o, u, i)
  OBVIOUS
<1>2. i # 1 /\ i \in 2 .. Len(p)
  <2>1. i # 1
    BY DEF IsFile
  <2> QED BY <2>1, OpenInFile
<1>3. KnowsFunc(v, p, EnclosingFunc(p, i))
  BY <1>1, <1>2, VisitorKnows
<1>4. PICK sig : sig = p[EnclosingFunc(p, i)].sig
  OBVIOUS
<1>5. ErrorIndices(sig) \subseteq 1 .. Len(sig.results)
  BY DEF ErrorIndices
<1>6. Len(p[i].results) \in {0, 1, Len(sig.results)}
  BY <1>2, <1>4 DEF ReturnsFit
<1>7. CASE v.indices = {}
  BY <1>1, <1>7
<1>8. CASE v.indices # {}
  <2>1. v.indices = ErrorIndices(sig) /\ v.n = Len(sig.results)
    BY <1>3, <1>4, <1>8 DEF KnowsFunc
  <2> QED BY <1>1, <1>5, <1>6, <2>1
<1> QED BY <1>7, <1>8

LEMMA RunAgainKept ==
  ASSUME NEW p, IsFile(p), ReturnsFit(p), NEW o, NEW u, NEW off, OffsetsOf(p, o, u, off),
         NEW i \in 1 .. Len(p), RunAgain(p, o, u, off, i - 1),
         Kept(p, Made(p, o, u), i),
         p[i].k = "return" =>
           \A ins \in NotIn(p, CandidatesAt(p, o, u, i), u) : ins.k = "wrap"
  PROVE  RunAgain(p, o, u, off, i)
<1>1. PICK n \in Nat : n = Len(p)
  BY OpenInFile
<1>2. PICK q \in Seq(SyntaxNodes) : q = OutputOf(p, o, u)
  BY OutputParts
<1>3. PICK m \in 1 .. Len(q) : m = off[i]
  BY <1>2, OpenInKept
<1>4. PICK b \in Nat : b = off[i - 1]
  <2>1. i - 1 \in 0 .. Len(p)
    BY <1>1
  <2> QED BY <2>1, OffsetsAscend
<1>5. b = m - 1
  <2>1. m = b + 1
    BY <1>3, <1>4, OpenInKept
  <2> QED BY <1>4, <2>1
<1>6. PICK a : a = Piece(p, Made(p, o, u), i)[1] /\ q[m] = a
  BY <1>2, <1>3, OpenInKept
<1>7. PICK s : s = Walkers(p, o, u)[i - 1].stack
  OBVIOUS
<1>8. PICK t : t = Walkers(q, o, u)[b].stack
  OBVIOUS
<1>9. StackFollows(s, t) /\ Walkers(q, o, u)[b].inserts = EmptyBag
  BY <1>2, <1>4, <1>7, <1>8 DEF RunAgain
<1>10. PICK v \in Visitors : v = Last(s)
  BY <1>9, FollowsTop
<1>11. PICK x \in Visitors : x = Last(t) /\ Follows(v, x)
  BY <1>9, <1>10, FollowsTop
<1>12. VisitorAt(p, o, u, i) = v
  BY <1>7, <1>10 DEF VisitorAt, Top
<1>13. p[i] \in SyntaxNodes
  BY OpenInFile
<1>14. /\ a \in SyntaxNodes /\ a.k = p[i].k /\ a.line = p[i].line
       /\ IsFunc(p[i]) => a.sig = p[i].sig
       /\ p[i].k = "assign" =>
            /\ a.lhs = p[i].lhs
            /\ a.rhs = Wrapped(p[i].rhs, InsertsAt(Made(p, o, u), i))
       /\ p[i].k = "return" =>
            a.results = Wrapped(p[i].results, InsertsAt(Made(p, o, u), i))
  BY <1>6 DEF Kept
<1>15. SameNode(p, i, q, m)
  <2>1. ASSUME p[i].k = "assign"
        PROVE  /\ Len(a.rhs) = Len(p[i].rhs)
               /\ \A j \in 1 .. Len(p[i].rhs) : p[i].rhs[j] = "wrap" => a.rhs[j] = "wrap"
    <3>1. p[i].rhs \in Seq(Exprs)
      BY <1>13, <2>1, NodeFields
    <3> QED BY <1>14, <2>1, <3>1, WrappedExprs
  <2> QED BY <1>6, <1>13, <1>14, <2>1 DEF SameNode
<1>16. NotIn(q, Candidates(x, q, m, o), u) = {}
  <2>1. CASE p[i].k = "defer"
    <3>1. x.objs = VisitorAt(p, o, u, i).objs
      BY <1>11, <1>12 DEF Follows
    <3>2. OutputOf(p, o, u)[m].k = "defer"
      BY <1>2, <1>6, <1>14, <2>1
    <3> QED BY <1>2, <1>3, <2>1, <3>1, <3>2, QuietDefer
  <2>2. CASE p[i].k = "return"
    <3>1. PICK here : here = NotIn(p, Candidates(v, p, i, o), u)
      OBVIOUS
    <3>2. here = NotIn(p, CandidatesAt(p, o, u, i), u)
      BY <1>12, <3>1 DEF CandidatesAt
    <3>3. InsertsAt(Made(p, o, u), i) = here
      BY <2>2, <3>2, InsertsAtReturn
    <3>4. \A ins \in here : ins.k = "wrap"
      BY <2>2, <3>2
    <3>5. /\ v.indices \subseteq 1 .. v.n
          /\ v.indices # {} => Len(p[i].results) \in {0, 1, v.n}
      BY <1>12, <2>2, ReturnsFitVisitor
    <3>6. p[i].results \in Seq(Exprs)
      BY <1>13, <2>2, NodeFields
    <3>7. q[m].k = "return" /\ q[m].line = p[i].line /\ q[m].results = Wrapped(p[i].results, here)
      BY <1>6, <1>14, <2>2, <3>3
    <3>8. WrappedReturn(v, p, i, q, m, o, u)
      BY <2>2, <3>1, <3>4, <3>6, <3>7 DEF WrappedReturn
    <3>9. FitsVisitor(v, p[i].results)
      BY <3>5 DEF FitsVisitor
    <3> QED BY <1>11, <3>8, <3>9, QuietWrapped
  <2>3. CASE p[i].k \notin {"defer", "return"}
    BY <1>6, <1>14, <2>3, QuietNode
  <2> QED BY <2>1, <2>2, <2>3
<1>17. /\ Walkers(q, o, u)[m].inserts = EmptyBag
       /\ Walkers(q, o, u)[m].stack = StackAfter(t, q, m)
  BY <1>5, <1>8, <1>9, <1>11, <1>16, QuietStep
<1>18. Walkers(p, o, u)[i].stack = StackAfter(s, p, i)
  BY <1>7, StackAt
<1>19. p[i].k = "end" => Len(s) >= 2
  <2>1. CASE p[i].k = "end"
    <3>1. i # 1
      BY <2>1 DEF IsFile
    <3>2. i - 1 \in 0 .. Len(p) /\ i \in 2 .. Len(p)
      BY <1>1, <3>1
    <3>3. Opened(p)[i - 1] # << >>
      BY <3>2 DEF IsFile, OpenAt
    <3>4. Len(Opened(p)[i - 1]) >= 1
      BY <3>2, <3>3, OpenInFile
    <3>5. StackInv(p, Opened(p)[i - 1], s)
      BY <1>7, <3>2, StackKnows
    <3>6. Len(s) = Len(Opened(p)[i - 1]) + 1
      BY <3>5 DEF StackInv
    <3>7. Len(Opened(p)[i - 1]) \in Nat
      <4>1. Opened(p)[i - 1] \in Seq(0 .. Len(p))
        BY <3>2, OpenNodes
      <4> QED BY <4>1, LenProperties
    <3> QED BY <3>4, <3>6, <3>7
  <2> QED BY <2>1
<1>20. StackFollows(StackAfter(s, p, i), StackAfter(t, q, m))
  BY <1>9, <1>15, <1>19, FollowsStep
<1> QED BY <1>2, <1>3, <1>17, <1>18, <1>20 DEF RunAgain

LEMMA RunAgainAssigned ==
  ASSUME NEW p, IsFile(p), NEW o, NEW u, NEW off, OffsetsOf(p, o, u, off),
         NEW i \in 1 .. Len(p), RunAgain(p, o, u, off, i - 1),
         p[i].k = "return", Assigned(p, o, u, i)
  PROVE  RunAgain(p, o, u, off, i)
<1>1. PICK n \in Nat : n = Len(p)
  BY OpenInFile
<1>2. PICK q \in Seq(SyntaxNodes) : q = OutputOf(p, o, u)
  BY OutputParts
<1>3. PICK b \in Nat : b = off[i - 1]
  <2>1. i - 1 \in 0 .. Len(p)
    BY <1>1
  <2> QED BY <2>1, OffsetsAscend
<1>4. PICK c, d \in 1 .. Len(q) : c = b + 1 /\ d = b + 2
  BY <1>2, <1>3, OpenInAssigned
<1>5. b = c - 1 /\ c = d - 1 /\ off[i] = d
  <2>1. off[i] = off[i - 1] + 2
    BY OpenInAssigned
  <2> QED BY <1>3, <1>4, <2>1
<1>6. PICK s : s = Walkers(p, o, u)[i - 1].stack
  OBVIOUS
<1>7. PICK t : t = Walkers(q, o, u)[b].stack
  OBVIOUS
<1>8. StackFollows(s, t) /\ Walkers(q, o, u)[b].inserts = EmptyBag
  BY <1>2, <1>3, <1>6, <1>7 DEF RunAgain
<1>9. PICK v \in Visitors : v = Last(s)
  BY <1>8, FollowsTop
<1>10. PICK x \in Visitors : x = Last(t) /\ Follows(v, x)
  BY <1>8, <1>9, FollowsTop
<1>11. VisitorAt(p, o, u, i) = v
  BY <1>6, <1>9 DEF VisitorAt, Top
<1>12. PICK y : /\ Piece(p, Made(p, o, u), i) = <<y, p[i]>>
                /\ y.k = "assign" /\ y.lhs \in Seq(Nat \X Nat)
                /\ ToSet(y.lhs) = v.objs \ v.wrapped
                /\ Len(y.rhs) = Len(y.lhs)
                /\ \A j \in 1 .. Len(y.lhs) : y.rhs[j] = "wrap"
  BY <1>11, AssignedNodes
<1>13. q[c] = y /\ q[d] = p[i]
  <2>1. Piece(p, Made(p, o, u), i)[1] = y
    BY <1>12
  <2>2. /\ OutputOf(p, o, u)[off[i - 1] + 1] = Piece(p, Made(p, o, u), i)[1]
        /\ OutputOf(p, o, u)[off[i - 1] + 2] = p[i]
    BY OpenInAssigned
  <2> QED BY <1>2, <1>3, <1>4, <2>1, <2>2
\* The assignment: everything is wrapped after it.
<1>14. PICK t1 : t1 = StackAfter(t, q, c)
  OBVIOUS
<1>15. Walkers(q, o, u)[c].inserts = EmptyBag /\ Walkers(q, o, u)[c].stack = t1
  <2>1. NotIn(q, Candidates(x, q, c, o), u) = {}
    BY <1>12, <1>13, QuietNode
  <2> QED BY <1>5, <1>7, <1>8, <1>10, <1>14, <2>1, QuietStep
<1>16. PICK k \in Nat : k = Len(s) /\ k >= 1
  BY <1>8, FollowsTop
<1>17. /\ s \in Seq(Visitors) /\ t \in Seq(Visitors)
       /\ s # << >> /\ t # << >> /\ Len(t) = k
       /\ \A j \in 1 .. k : Follows(s[j], t[j])
  BY <1>8, <1>16, FollowsTop DEF StackFollows
<1>18. /\ t1 \in Seq(Visitors) /\ Len(t1) = k
       /\ \A j \in 1 .. k - 1 : t1[j] = t[j]
       /\ t1[k].indices = x.indices /\ t1[k].objs = x.objs /\ t1[k].n = x.n
       /\ t1[k].wrapped = x.wrapped \union Marks(x, y)
  BY <1>10, <1>12, <1>13, <1>14, <1>16, <1>17, AssignAfter
<1>19. Marks(x, y) = v.objs \ v.wrapped
  <2>1. x.objs = v.objs
    BY <1>10 DEF Follows
  <2>2. PICK l \in Nat : l = Len(y.lhs) /\ DOMAIN y.lhs = 1 .. l
    BY <1>12, LenProperties
  <2>3. ToSet(y.lhs) = {y.lhs[j] : j \in 1 .. l}
    BY <2>2 DEF ToSet
  <2>4. \A j \in 1 .. l : y.lhs[j] \in x.objs /\ j <= Len(y.rhs) /\ y.rhs[j] = "wrap"
    <3>1. \A j \in 1 .. l : y.lhs[j] \in v.objs
      BY <1>12, <2>3
    <3>2. \A j \in 1 .. l : j <= Len(y.rhs) /\ y.rhs[j] = "wrap"
      BY <1>12, <2>2
    <3> QED BY <2>1, <3>1, <3>2
  <2> QED BY <1>12, <2>2, <2>3, <2>4 DEF Marks
<1>20. PICK x1 : x1 = Last(t1)
  OBVIOUS
<1>21. x1 = t1[k]
  BY <1>18, <1>20 DEF Last
<1>22. x1.objs \subseteq x1.wrapped
  BY <1>10, <1>18, <1>19, <1>21 DEF Follows
\* The return: nothing is left to wrap.
<1>23. /\ Walkers(q, o, u)[d].inserts = EmptyBag
       /\ Walkers(q, o, u)[d].stack = StackAfter(t1, q, d)
  <2>1. p[i].results = << >>
    BY DEF Assigned
  <2>2. NotIn(q, Candidates(x1, q, d, o), u) = {}
    BY <1>13, <1>22, <2>1, QuietNaked
  <2> QED BY <1>5, <1>15, <1>20, <2>2, QuietStep
<1>24. StackAfter(t1, q, d) = t1 /\ StackAfter(s, p, i) = s
  BY <1>13 DEF StackAfter, IsFunc
<1>25. Walkers(p, o, u)[i].stack = s
  BY <1>6, <1>24, StackAt
<1>26. StackFollows(s, t1)
  <2>1. ASSUME NEW j \in 1 .. k PROVE Follows(s[j], t1[j])
    <3>1. CASE j = k
      <4>1. s[k] = v
        BY <1>9, <1>16 DEF Last
      <4> QED BY <1>10, <1>18, <3>1, <4>1 DEF Follows
    <3>2. CASE j \in 1 .. k - 1
      BY <1>17, <1>18, <3>2
    <3> QED BY <1>16, <3>1, <3>2
  <2> QED BY <1>16, <1>17, <1>18, <2>1 DEF StackFollows
<1> QED BY <1>2, <1>5, <1>23, <1>24, <1>25, <1>26 DEF RunAgain

LEMMA RunAgainInBlock ==
  ASSUME NEW p, IsFile(p), NEW o, NEW u, NEW off, OffsetsOf(p, o, u, off),
         NEW i \in 1 .. Len(p), RunAgain(p, o, u, off, i - 1),
         p[i].k = "return", InBlock(p, o, u, i)
  PROVE  RunAgain(p, o, u, off, i)
<1>1. PICK n \in Nat : n = Len(p)
  BY OpenInFile
<1>2. PICK q \in Seq(SyntaxNodes) : q = OutputOf(p, o, u)
  BY OutputParts
<1>3. PICK b \in Nat : b = off[i - 1]
  <2>1. i - 1 \in 0 .. Len(p)
    BY <1>1
  <2> QED BY <2>1, OffsetsAscend
<1>4. PICK y, z, r, e \in SyntaxNodes :
        /\ Piece(p, Made(p, o, u), i) = <<y, z, r, e>>
        /\ y.k = "block" /\ z.k = "assign" /\ r.k = "return" /\ e.k = "end"
        /\ Len(r.results) = VisitorAt(p, o, u, i).n
        /\ r.results[VisitorAt(p, o, u, i).n] = "wrap"
  BY InBlockNodes
<1>5. PICK l : l = Len(Piece(p, Made(p, o, u), i)) /\ l = 4
  BY <1>4
<1>6. off[i] = b + 4
  BY <1>1, <1>3, <1>5 DEF OffsetsOf
<1>7. \A k \in 1 .. 4 :
        b + k \in 1 .. Len(q) /\ q[b + k] = Piece(p, Made(p, o, u), i)[k]
  <2>1. \A k \in 1 .. Len(Piece(p, Made(p, o, u), i)) :
          /\ OutputOf(p, o, u)[off[i - 1] + k] = Piece(p, Made(p, o, u), i)[k]
          /\ off[i - 1] + k \in 1 .. Len(OutputOf(p, o, u))
    BY PieceAt
  <2> QED BY <1>2, <1>3, <1>5, <2>1
<1>8. PICK c, d, f, g \in 1 .. Len(q) : c = b + 1 /\ d = b + 2 /\ f = b + 3 /\ g = b + 4
  <2>1. 1 \in 1 .. 4 /\ 2 \in 1 .. 4 /\ 3 \in 1 .. 4 /\ 4 \in 1 .. 4
    OBVIOUS
  <2> QED BY <1>7, <2>1
<1>9. b = c - 1 /\ c = d - 1 /\ d = f - 1 /\ f = g - 1 /\ off[i] = g
  <2>1. off[i] = g
    BY <1>6, <1>8
  <2>2. \A a \in Nat : a = a + 1 - 1 /\ a + 1 = a + 2 - 1 /\ a + 2 = a + 3 - 1 /\ a + 3 = a + 4 - 1
    OBVIOUS
  <2> QED BY <1>8, <2>1, <2>2
<1>10. q[c] = y /\ q[d] = z /\ q[f] = r /\ q[g] = e
  <2>1. 1 \in 1 .. 4 /\ 2 \in 1 .. 4 /\ 3 \in 1 .. 4 /\ 4 \in 1 .. 4
    OBVIOUS
  <2> QED BY <1>4, <1>7, <1>8, <2>1
<1>11. PICK s : s = Walkers(p, o, u)[i - 1].stack
  OBVIOUS
<1>12. PICK t : t = Walkers(q, o, u)[b].stack
  OBVIOUS
<1>13. StackFollows(s, t) /\ Walkers(q, o, u)[b].inserts = EmptyBag
  BY <1>2, <1>3, <1>11, <1>12 DEF RunAgain
<1>14. PICK v \in Visitors : v = Last(s)
  BY <1>13, FollowsTop
<1>15. PICK x \in Visitors : x = Last(t) /\ Follows(v, x)
  BY <1>13, <1>14, FollowsTop
<1>16. VisitorAt(p, o, u, i) = v
  BY <1>11, <1>14 DEF VisitorAt, Top
<1>17. PICK k \in Nat : k = Len(t) /\ k >= 1 /\ t \in Seq(Visitors)
  BY <1>13, FollowsTop DEF StackFollows
\* The block has a visitor of its own.
<1>18. PICK x1 : x1 = BlockVisitor(x)
  OBVIOUS
<1>19. x1 \in Visitors /\ x1.indices = x.indices /\ x1.objs = x.objs /\ x1.n = x.n
  BY <1>18 DEF BlockVisitor, Visitors
<1>20. PICK t1 : t1 = Append(t, x1)
  OBVIOUS
<1>21. /\ t1 \in Seq(Visitors) /\ Len(t1) = k + 1
       /\ \A j \in 1 .. k : t1[j] = t[j]
       /\ t1[k + 1] = x1
  BY <1>17, <1>19, <1>20, AppendProperties
<1>22. Last(t1) = x1 /\ t1 # << >>
  <2>1. \A w \in Seq(Visitors) : w = << >> => Len(w) = 0
    OBVIOUS
  <2> QED BY <1>17, <1>21, <2>1 DEF Last
<1>23. Walkers(q, o, u)[c].inserts = EmptyBag /\ Walkers(q, o, u)[c].stack = t1
  <2>1. NotIn(q, Candidates(x, q, c, o), u) = {}
    BY <1>4, <1>10, QuietNode
  <2>2. StackAfter(t, q, c) = t1
    BY <1>4, <1>10, <1>15, <1>18, <1>20 DEF StackAfter, IsFunc
  <2> QED BY <1>9, <1>12, <1>13, <1>15, <2>1, <2>2, QuietStep
\* The results of the call are assigned in it.
<1>24. PICK t2 : t2 = StackAfter(t1, q, d)
  OBVIOUS
<1>25. Walkers(q, o, u)[d].inserts = EmptyBag /\ Walkers(q, o, u)[d].stack = t2
  <2>1. NotIn(q, Candidates(x1, q, d, o), u) = {}
    BY <1>4, <1>10, QuietNode
  <2> QED BY <1>9, <1>22, <1>23, <1>24, <2>1, QuietStep
<1>26. /\ t2 \in Seq(Visitors) /\ Len(t2) = k + 1
       /\ \A j \in 1 .. k : t2[j] = t[j]
       /\ t2[k + 1].indices = x.indices /\ t2[k + 1].n = x.n
  <2>1. Len(t1) - 1 = k
    BY <1>17, <1>21
  <2>2. q[d].k = "assign"
    BY <1>4, <1>10
  <2>3. PICK a : a = StackAfter(t1, q, d)
    OBVIOUS
  <2>4. /\ a \in Seq(Visitors) /\ Len(a) = Len(t1)
        /\ \A j \in 1 .. Len(t1) - 1 : a[j] = t1[j]
        /\ a[Len(t1)].indices = x1.indices /\ a[Len(t1)].n = x1.n
    <3>1. t1 \in Seq(Visitors) /\ t1 # << >> /\ Last(t1) = x1
      BY <1>21, <1>22
    <3>2. /\ StackAfter(t1, q, d) \in Seq(Visitors)
          /\ Len(StackAfter(t1, q, d)) = Len(t1)
          /\ \A j \in 1 .. Len(t1) - 1 : StackAfter(t1, q, d)[j] = t1[j]
          /\ StackAfter(t1, q, d)[Len(t1)].indices = Last(t1).indices
          /\ StackAfter(t1, q, d)[Len(t1)].n = Last(t1).n
      BY <2>2, <3>1, AssignAfter
    <3> QED BY <2>3, <3>1, <3>2
  <2> QED BY <1>19, <1>21, <1>24, <2>1, <2>3, <2>4
\* The return of all of them.
<1>27. PICK x2 : x2 = Last(t2)
  OBVIOUS
<1>28. x2.indices = v.indices /\ x2.n = v.n
  BY <1>15, <1>26, <1>27 DEF Last, Follows
<1>29. Walkers(q, o, u)[f].inserts = EmptyBag /\ Walkers(q, o, u)[f].stack = t2
  <2>1. v.n \in Nat /\ v.n > 1 /\ v.indices = {v.n}
    BY <1>16 DEF InBlock, Visitors
  <2>2. r.results \in Seq(Exprs)
    BY <1>4, NodeFields
  <2>3. /\ q[f].k = "return" /\ q[f].results \in Seq(Exprs)
        /\ Len(q[f].results) = x2.n /\ q[f].results[x2.n] = "wrap"
    BY <1>4, <1>10, <1>16, <1>28, <2>2
  <2>4. x2.n \in Nat /\ x2.n > 1 /\ x2.indices = {x2.n}
    BY <1>28, <2>1
  <2>5. NotIn(q, Candidates(x2, q, f, o), u) = {}
    BY <2>3, <2>4, QuietLast
  <2>6. StackAfter(t2, q, f) = t2
    BY <2>3 DEF StackAfter, IsFunc
  <2>7. f \in 1 .. Len(q) /\ d = f - 1
    BY <1>9, <1>10
  <2>8. NotIn(q, Candidates(Last(Walkers(q, o, u)[d].stack), q, f, o), u) = {}
    BY <1>25, <1>27, <2>5
  <2>9. /\ Walkers(q, o, u)[f].inserts = EmptyBag
        /\ Walkers(q, o, u)[f].stack = StackAfter(Walkers(q, o, u)[d].stack, q, f)
    BY <1>25, <2>7, <2>8, QuietStep
  <2> QED BY <1>25, <2>6, <2>9
\* The end of the block.
<1>30. Walkers(q, o, u)[g].inserts = EmptyBag /\ Walkers(q, o, u)[g].stack = Front(t2)
  <2>1. NotIn(q, Candidates(x2, q, g, o), u) = {}
    BY <1>4, <1>10, QuietNode
  <2>2. StackAfter(t2, q, g) = Front(t2)
    BY <1>4, <1>10 DEF StackAfter, IsFunc
  <2>3. g \in 1 .. Len(q) /\ f = g - 1
    BY <1>9
  <2>4. Walkers(q, o, u)[f].inserts = EmptyBag
    BY <1>29
  <2>5. NotIn(q, Candidates(Last(Walkers(q, o, u)[f].stack), q, g, o), u) = {}
    BY <1>27, <1>29, <2>1
  <2>6. /\ Walkers(q, o, u)[g].inserts = EmptyBag
        /\ Walkers(q, o, u)[g].stack = StackAfter(Walkers(q, o, u)[f].stack, q, g)
    BY <2>3, <2>4, <2>5, QuietStep
  <2> QED BY <1>29, <2>2, <2>6
<1>31. Front(t2) = t
  <2>1. PICK w : w = Front(t2)
    OBVIOUS
  <2>2. t2 # << >>
    <3>1. \A y2 \in Seq(Visitors) : y2 = << >> => Len(y2) = 0
      OBVIOUS
    <3> QED BY <1>17, <1>26, <3>1
  <2>3. w \in Seq(Visitors) /\ Len(w) = k /\ \A j \in 1 .. Len(w) : w[j] = t2[j]
    <3>1. /\ Front(t2) \in Seq(Visitors)
          /\ Len(Front(t2)) = IF t2 = << >> THEN 0 ELSE Len(t2) - 1
          /\ \A j \in 1 .. Len(Front(t2)) : Front(t2)[j] = t2[j]
      BY <1>26, FrontOf
    <3>2. Len(t2) - 1 = k
      BY <1>17, <1>26
    <3> QED BY <2>1, <2>2, <3>1, <3>2
  <2>4. w = t
    <3>1. \A j \in 1 .. k : w[j] = t[j]
      BY <1>26, <2>3
    <3>2. w = [j \in 1 .. k |-> w[j]] /\ t = [j \in 1 .. k |-> t[j]]
      BY <1>17, <2>3
    <3> QED BY <3>1, <3>2
  <2> QED BY <2>1, <2>4
<1>32. Walkers(p, o, u)[i].stack = s
  <2>1. StackAfter(s, p, i) = s
    BY DEF StackAfter, IsFunc
  <2> QED BY <1>11, <2>1, StackAt
<1> QED BY <1>2, <1>9, <1>13, <1>30, <1>31, <1>32 DEF RunAgain

\* A second run inserts nothing.
LEMMA RunAgainAlways ==
  ASSUME NEW p, IsFile(p), ReturnsFit(p), NEW o, NEW u, NEW off, OffsetsOf(p, o, u, off)
  PROVE  \A i \in 0 .. Len(p) : RunAgain(p, o, u, off, i)
<1>1. PICK n \in Nat : n = Len(p)
  BY OpenInFile
<1>2. PICK q \in Seq(SyntaxNodes) : q = OutputOf(p, o, u)
  BY OutputParts
<1> DEFINE R == {i \in 0 .. n : RunAgain(p, o, u, off, i)}
<1>3. 0 \in R
  <2>1. IsProgram(p)
    BY FilesArePrograms
  <2>2. IsProgram(q)
    BY ElementOfSeq, LenProperties DEF IsProgram
  <2>3. off[0] = 0
    BY DEF OffsetsOf
  <2>4. /\ Walkers(p, o, u)[0].stack = <<NoVisitor>>
        /\ Walkers(q, o, u)[0].stack = <<NoVisitor>>
        /\ Walkers(q, o, u)[0].inserts = EmptyBag
    BY <2>1, <2>2, WalkBegins
  <2>5. StackFollows(<<NoVisitor>>, <<NoVisitor>>)
    <3>1. NoVisitor \in Visitors
      <4>1. {} \in SUBSET Nat /\ {} \in SUBSET (Nat \X Nat) /\ 0 \in Nat
        OBVIOUS
      <4> QED BY <4>1 DEF NoVisitor, Visitors
    <3>2. PICK y \in Visitors : y = NoVisitor
      BY <3>1
    <3>3. <<y>> \in Seq(Visitors) /\ Len(<<y>>) = 1 /\ <<y>> # << >> /\ <<y>>[1] = y
      OBVIOUS
    <3>4. Follows(y, y)
      BY DEF Follows
    <3> QED BY <3>2, <3>3, <3>4 DEF StackFollows
  <2> QED BY <1>2, <2>3, <2>4, <2>5 DEF RunAgain
<1>4. ASSUME NEW i \in 1 .. n, i - 1 \in R PROVE i \in R
  <2>1. i \in 1 .. Len(p) /\ i \in 0 .. n
    BY <1>1
  <2>2. RunAgain(p, o, u, off, i - 1)
    BY <1>4
  <2>3. CASE p[i].k # "return"
    <3>1. Kept(p, Made(p, o, u), i)
      BY <2>1, <2>3, KeptNode
    <3>2. RunAgain(p, o, u, off, i)
      BY <2>1, <2>2, <2>3, <3>1, RunAgainKept
    <3> QED BY <2>1, <3>2
  <2>4. CASE p[i].k = "return"
    <3>1. CASE /\ Kept(p, Made(p, o, u), i)
               /\ \A ins \in NotIn(p, CandidatesAt(p, o, u, i), u) : ins.k = "wrap"
      <4>1. RunAgain(p, o, u, off, i)
        BY <2>1, <2>2, <3>1, RunAgainKept
      <4> QED BY <2>1, <4>1
    <3>2. CASE Assigned(p, o, u, i)
      <4>1. RunAgain(p, o, u, off, i)
        BY <2>1, <2>2, <2>4, <3>2, RunAgainAssigned
      <4> QED BY <2>1, <4>1
    <3>3. CASE InBlock(p, o, u, i)
      <4>1. RunAgain(p, o, u, off, i)
        BY <2>1, <2>2, <2>4, <3>3, RunAgainInBlock
      <4> QED BY <2>1, <4>1
    <3> QED BY <2>1, <2>4, <3>1, <3>2, <3>3, ReturnPiece
  <2> QED BY <2>3, <2>4
<1> HIDE DEF R
<1>5. 0 .. n \subseteq R
  BY <1>3, <1>4, UpTo
<1> QED BY <1>1, <1>5 DEF R

(***************************************************************************)
(* Running the tool on its own output changes nothing (the idempotence     *)
(* test of main_test.go), whatever the file: what was inserted is not      *)
(* inserted again, and it hides nothing from the walker that it saw.       *)
(***************************************************************************)
THEOREM NothingWrappedAgain == Spec => []Idempotent
<1>1. FileInv => Idempotent
  <2> SUFFICES ASSUME FileInv, phase = "rewritten"
               PROVE  Walk(output, opts, optouts).inserts = EmptyBag
    BY DEF Idempotent
  <2>1. PICK p, o, u : p = prog /\ o = opts /\ u = optouts
    OBVIOUS
  <2>2. IsFile(p) /\ ReturnsFit(p)
    BY <2>1 DEF FileInv
  <2>3. PICK n \in Nat : n = Len(p)
    BY <2>2, OpenInFile
  <2>4. output = OutputOf(p, o, u)
    BY <2>1 DEF FileInv, Walk, Made, OutputOf
  <2>5. PICK off : OffsetsOf(p, o, u, off)
    BY <2>2, OutputParts
  <2>6. n \in 0 .. n /\ off[n] = Len(OutputOf(p, o, u))
    BY <2>3, <2>5 DEF OffsetsOf
  <2>7. RunAgain(p, o, u, off, n)
    BY <2>2, <2>3, <2>5, <2>6, RunAgainAlways
  <2>8. Walkers(output, o, u)[Len(output)].inserts = EmptyBag
    BY <2>4, <2>6, <2>7 DEF RunAgain
  <2> QED BY <2>1, <2>8 DEF Walk
<1> QED BY <1>1, FileHolds, PTL

----------------------------------------------------------------------------
(***************************************************************************)
(* What is logged stays logged, and a return that is skipped is logged.    *)
(***************************************************************************)
LEMMA LogsOf ==
  ASSUME NEW w, IsWalker(w), NEW lines, NEW S, NEW s
  PROVE  /\ Log(w, lines).logs = w.logs \union lines
         /\ UseOptout(w, lines).logs = w.logs
         /\ Insert(w, S).logs = w.logs
         /\ UseOptout(Insert(w, S), lines).logs = w.logs
         /\ [w EXCEPT !.stack = s].logs = w.logs
<1>1. PICK r : r = [stack |-> w.stack, inserts |-> w.inserts, logs |-> w.logs, used |-> w.used,
                    opts |-> w.opts, optouts |-> w.optouts]
  OBVIOUS
<1>2. w = r
  BY <1>1 DEF IsWalker
<1>3. Log(w, lines).logs = w.logs \union lines
  BY <1>1, <1>2 DEF Log
<1>4. UseOptout(w, lines).logs = w.logs
  BY <1>1, <1>2 DEF UseOptout
<1>5. PICK y : y = Insert(w, S)
  OBVIOUS
<1>6. y = [stack |-> w.stack, inserts |-> w.inserts (+) SetToBag(S), logs |-> w.logs,
           used |-> w.used, opts |-> w.opts, optouts |-> w.optouts]
  BY <1>1, <1>2, <1>5 DEF Insert
<1>7. UseOptout(y, lines).logs = y.logs /\ y.logs = w.logs
  BY <1>6 DEF UseOptout
<1>8. [w EXCEPT !.stack = s].logs = w.logs
  BY <1>1, <1>2
<1> QED BY <1>3, <1>4, <1>5, <1>7, <1>8

LEMMA WrapExprsLogs ==
  ASSUME NEW w, IsWalker(w), NEW p, NEW S
  PROVE  WrapExprs(w, p, S).logs = w.logs
<1>1. \E T, lines : WrapExprs(w, p, S) = UseOptout(Insert(w, T), lines)
  BY DEF WrapExprs
<1> QED BY <1>1, LogsOf

LEMMA ReturnLogs ==
  ASSUME NEW w, IsWalker(w), NEW p, NEW i
  PROVE  w.logs \subseteq ReturnStmt(w, p, i).logs
<1>1. PICK line : line = p[i].line
  OBVIOUS
<1>2. /\ Log(w, {line}).logs = w.logs \union {line}
      /\ UseOptout(w, {line}).logs = w.logs
      /\ \A S : Insert(w, S).logs = w.logs
  BY LogsOf
<1>3. \A S : WrapExprs(w, p, S).logs = w.logs
  BY WrapExprsLogs
<1>4. w.logs \subseteq NakedReturn(w, p, i).logs
  BY <1>1, <1>2 DEF NakedReturn
<1>5. w.logs \subseteq WrapReturnCall(w, p, i).logs
  BY <1>1, <1>2, <1>3 DEF WrapReturnCall
<1> QED BY <1>1, <1>2, <1>3, <1>4, <1>5 DEF ReturnStmt

LEMMA VisitLogs ==
  ASSUME NEW w, IsWalker(w), NEW p, NEW i, p[i] \in SyntaxNodes
  PROVE  w.logs \subseteq Visit(w, p, i).logs
<1>1. \A s : [w EXCEPT !.stack = s].logs = w.logs
  BY LogsOf
<1>2. CASE p[i].k \in {"func", "lit"}
  <2>1. Visit(w, p, i) = Push(w, FuncType(Top(w), p[i].sig, p[i].line))
    BY <1>2 DEF Visit
  <2> QED BY <1>1, <2>1 DEF Push
<1>3. CASE p[i].k = "defer"
  <2>1. PICK S, lines : DeferStmt(w, p, i) = Log(WrapExprs(w, p, S), lines)
                        /\ \A ins \in S : ins.k = "wrap"
    <3>1. PICK objs : objs = Top(w).objs
      OBVIOUS
    <3>2. DeferStmt(w, p, i)
            = Log(WrapExprs(w, p, UNION {DeferredWraps(p[a], a, objs) : a \in Inside(p, i)}),
                  {p[a].line : a \in {a \in Inside(p, i) : DeferredSkips(p[a], objs)}})
      BY <3>1 DEF DeferStmt, Inside
    <3>3. \A ins \in UNION {DeferredWraps(p[a], a, objs) : a \in Inside(p, i)} : ins.k = "wrap"
      BY DEF DeferredWraps, WrapInsert
    <3> QED BY <3>2, <3>3
  <2>2. PICK y : y = WrapExprs(w, p, S)
    OBVIOUS
  <2>3. IsWalker(y) /\ y.logs = w.logs
    <3>1. StepTo(w, WrapExprs(w, p, S), p, Needed(p, S))
      BY <2>1, WrapExprsStep
    <3> QED BY <2>2, <3>1, WrapExprsLogs DEF StepTo
  <2>4. PICK z : z = Log(y, lines)
    OBVIOUS
  <2>5. IsWalker(z) /\ z.logs = w.logs \union lines
    <3>1. IsWalker(z)
      BY <2>3, <2>4, LogFields
    <3>2. z.logs = y.logs \union lines
      BY <2>3, <2>4, LogsOf
    <3> QED BY <2>3, <3>1, <3>2
  <2>6. PICK s : s = Append(z.stack, FuncType(Top(w), p[i].sig, p[i].line))
    OBVIOUS
  <2>7. Visit(w, p, i) = [z EXCEPT !.stack = s]
    BY <1>3, <2>1, <2>2, <2>4, <2>6 DEF Visit, Push
  <2>8. [z EXCEPT !.stack = s].logs = z.logs
    BY <2>5, LogsOf
  <2> QED BY <2>5, <2>7, <2>8
<1>4. CASE p[i].k \in {"block", "switch"}
  <2>1. Visit(w, p, i) = Push(w, BlockVisitor(Top(w)))
    BY <1>4 DEF Visit
  <2> QED BY <1>1, <2>1 DEF Push
<1>5. CASE p[i].k = "case"
  BY <1>5 DEF Visit
<1>6. CASE p[i].k = "end"
  <2>1. Visit(w, p, i) = [w EXCEPT !.stack = Front(w.stack)]
    BY <1>6 DEF Visit
  <2> QED BY <1>1, <2>1
<1>7. CASE p[i].k = "assign"
  <2> DEFINE done == {p[i].lhs[j] : j \in {j \in 1 .. Len(p[i].lhs) :
                        /\ p[i].lhs[j] \in Last(w.stack).objs
                        /\ j <= Len(p[i].rhs)
                        /\ p[i].rhs[j] = "wrap"}}
  <2>1. Visit(w, p, i) = [w EXCEPT !.stack[Len(w.stack)].wrapped = @ \union done]
    BY <1>7 DEF Visit, AssignStmt, Top
  <2> HIDE DEF done
  <2>2. [w EXCEPT !.stack[Len(w.stack)].wrapped = @ \union done].logs = w.logs
    BY DEF IsWalker
  <2> QED BY <2>1, <2>2
<1>8. CASE p[i].k = "return"
  BY <1>8, ReturnLogs DEF Visit
<1> QED BY <1>2, <1>3, <1>4, <1>5, <1>6, <1>7, <1>8, NodeKinds

\* A return of one expression for several results that is left as it is.
Skipped(v, p, i, o, u) ==
  /\ v.indices # {}
  /\ p[i].results # << >> /\ Len(p[i].results) = 1 /\ v.n > 1
  /\ \/ ~ IsCall(p[i].results[1])
     \/ v.indices # {v.n}
     \/ p[i].results[1] # "wrap" /\ p[i].line \notin u /\ ~ o.NoWrapN /\ v.n > 6

LEMMA SkippedIsLogged ==
  ASSUME NEW w, IsWalker(w), NEW p, NEW i, p[i].k = "return",
         Skipped(Top(w), p, i, w.opts, w.optouts)
  PROVE  p[i].line \in Visit(w, p, i).logs
<1>1. Log(w, {p[i].line}).logs = w.logs \union {p[i].line}
  BY LogsOf
<1>2. Visit(w, p, i) = ReturnStmt(w, p, i)
  BY DEF Visit
<1>3. CASE ~ IsCall(p[i].results[1])
  <2>1. ReturnStmt(w, p, i) = Log(w, {p[i].line})
    BY <1>3 DEF ReturnStmt, Skipped
  <2> QED BY <1>1, <1>2, <2>1
<1>4. CASE IsCall(p[i].results[1])
  <2>1. ReturnStmt(w, p, i) = WrapReturnCall(w, p, i)
    BY <1>4 DEF ReturnStmt, Skipped
  <2>2. WrapReturnCall(w, p, i) = Log(w, {p[i].line})
    BY <1>4 DEF WrapReturnCall, Skipped, OptedOut
  <2> QED BY <1>1, <1>2, <2>1, <2>2
<1> QED BY <1>3, <1>4

LEMMA SkippedLogged ==
  ASSUME NEW p, IsFile(p), NEW o, NEW u, NEW i \in 1 .. Len(p), p[i].k = "return",
         Skipped(VisitorAt(p, o, u, i), p, i, o, u)
  PROVE  p[i].line \in Walkers(p, o, u)[Len(p)].logs
<1>1. PICK n \in Nat : n = Len(p)
  BY OpenInFile
<1>2. PICK line : line = p[i].line
  OBVIOUS
<1>3. IsProgram(p)
  BY FilesArePrograms
<1>4. /\ \A j \in 0 .. n : /\ IsWalker(Walkers(p, o, u)[j])
                           /\ Walkers(p, o, u)[j].opts = o
                           /\ Walkers(p, o, u)[j].optouts = u
      /\ \A j \in 1 .. n : Walkers(p, o, u)[j] = Visit(Walkers(p, o, u)[j - 1], p, j)
  BY <1>1, <1>3, WalkersAreWalkers, WalkersUnfold
<1> DEFINE R == {j \in i .. n : line \in Walkers(p, o, u)[j].logs}
<1>5. i \in R
  <2>1. i - 1 \in 0 .. n /\ i \in 1 .. n /\ i \in i .. n
    BY <1>1
  <2>2. PICK w : w = Walkers(p, o, u)[i - 1]
    OBVIOUS
  <2>3. IsWalker(w) /\ w.opts = o /\ w.optouts = u /\ Walkers(p, o, u)[i] = Visit(w, p, i)
    BY <1>4, <2>1, <2>2
  <2>4. VisitorAt(p, o, u, i) = Top(w)
    BY <2>2 DEF VisitorAt
  <2>5. Skipped(Top(w), p, i, w.opts, w.optouts)
    BY <2>3, <2>4
  <2>6. line \in Visit(w, p, i).logs
    BY <1>2, <2>3, <2>5, SkippedIsLogged
  <2> QED BY <2>1, <2>3, <2>6
<1>6. ASSUME NEW j \in i + 1 .. n, j - 1 \in R PROVE j \in R
  <2>1. j \in 1 .. n /\ j - 1 \in 0 .. n /\ j \in i .. n
    BY <1>1
  <2>2. PICK w : w = Walkers(p, o, u)[j - 1]
    OBVIOUS
  <2>3. IsWalker(w) /\ Walkers(p, o, u)[j] = Visit(w, p, j) /\ line \in w.logs
    BY <1>4, <1>6, <2>1, <2>2
  <2>4. p[j] \in SyntaxNodes
    BY <1>1, <2>1, OpenInFile
  <2>5. w.logs \subseteq Visit(w, p, j).logs
    BY <2>3, <2>4, VisitLogs
  <2> QED BY <2>1, <2>3, <2>5
<1> HIDE DEF R
<1>7. i \in Nat /\ n \in i .. n
  BY <1>1
<1>8. i .. n \subseteq R
  BY <1>1, <1>5, <1>6, <1>7, FromTo
<1> QED BY <1>1, <1>2, <1>7, <1>8 DEF R

(***************************************************************************)
(* What the visitors know to be wrapped was assigned in their block.       *)
(***************************************************************************)
\* Node a assigns an errtrace call to this error.
AssignsWrap(p, a, name) ==
  /\ p[a].k = "assign"
  /\ \E x \in 1 .. Len(p[a].rhs) :
       x <= Len(p[a].lhs) /\ p[a].lhs[x] = name /\ p[a].rhs[x] = "wrap"

MarkInv(p, i, s) ==
  /\ s \in Seq(Visitors) /\ Len(s) = Len(Opened(p)[i]) + 1
  /\ \A x \in 1 .. Len(Opened(p)[i]) : \A name \in s[x + 1].wrapped :
       \E a \in 2 .. i : AssignsWrap(p, a, name) /\ InnermostBlock(p, a) = Opened(p)[i][x]

LEMMA MarkPushed ==
  ASSUME NEW c \in Seq(Nat), NEW s \in Seq(Visitors), Len(s) = Len(c) + 1,
         NEW i \in Nat, NEW v \in Visitors, v.wrapped = {}
  PROVE  /\ Append(s, v) \in Seq(Visitors) /\ Len(Append(s, v)) = Len(Append(c, i)) + 1
         /\ \A x \in 1 .. Len(Append(c, i)) : \A name \in Append(s, v)[x + 1].wrapped :
              x \in 1 .. Len(c) /\ Append(c, i)[x] = c[x] /\ name \in s[x + 1].wrapped
<1>1. PICK k \in Nat : k = Len(c) /\ Len(s) = k + 1
  OBVIOUS
<1>2. PICK d : d = Append(c, i)
  OBVIOUS
<1>3. PICK t : t = Append(s, v)
  OBVIOUS
<1>4. Len(d) = k + 1 /\ \A x \in 1 .. k : d[x] = c[x]
  BY <1>1, <1>2, AppendProperties
<1>5. /\ t \in Seq(Visitors) /\ Len(t) = k + 1 + 1
      /\ \A x \in 1 .. k + 1 : t[x] = s[x]
      /\ t[k + 1 + 1] = v
  BY <1>1, <1>3, AppendProperties
<1>6. ASSUME NEW x \in 1 .. k + 1, NEW name \in t[x + 1].wrapped
      PROVE  x \in 1 .. k /\ d[x] = c[x] /\ name \in s[x + 1].wrapped
  <2>1. CASE x = k + 1
    BY <1>5, <1>6, <2>1
  <2>2. CASE x \in 1 .. k
    <3>1. x + 1 \in 1 .. k + 1
      BY <2>2
    <3> QED BY <1>4, <1>5, <1>6, <2>2, <3>1
  <2> QED BY <1>1, <2>1, <2>2
<1> QED BY <1>1, <1>2, <1>3, <1>4, <1>5, <1>6

LEMMA MarkStep ==
  ASSUME NEW p, IsFile(p), NEW i \in 1 .. Len(p), NEW s, MarkInv(p, i - 1, s)
  PROVE  MarkInv(p, i, StackAfter(s, p, i))
<1>1. PICK n \in Nat : n = Len(p)
  BY OpenInFile
<1>2. p[i] \in SyntaxNodes /\ i - 1 \in 0 .. n /\ i \in 0 .. n /\ i \in Nat
  BY <1>1, OpenInFile
<1>3. PICK c \in Seq(Nat) : c = Opened(p)[i - 1]
  <2>1. OpenInv(p, i - 1)
    BY <1>1, <1>2, OpenAlways
  <2> QED BY <2>1 DEF OpenInv
<1>4. PICK k \in Nat : k = Len(c)
  OBVIOUS
<1>5. /\ s \in Seq(Visitors) /\ Len(s) = k + 1
      /\ \A x \in 1 .. k : \A name \in s[x + 1].wrapped :
           \E a \in 2 .. i - 1 : AssignsWrap(p, a, name) /\ InnermostBlock(p, a) = c[x]
  BY <1>3, <1>4 DEF MarkInv
<1>6. Opened(p)[i] = IF Opens(p[i]) THEN Append(c, i) ELSE IF p[i].k = "end" THEN Front(c) ELSE c
  BY <1>1, <1>3, OpenedUnfold
<1>7. \A a \in 2 .. i - 1 : a \in 2 .. i
  BY <1>2
<1>8. PICK v \in Visitors : v = Last(s) /\ v = s[k + 1] /\ s # << >>
  <2>1. \A w \in Seq(Visitors) : w = << >> => Len(w) = 0
    OBVIOUS
  <2>2. k + 1 \in 1 .. Len(s)
    BY <1>5
  <2> QED BY <1>4, <1>5, <2>1, <2>2 DEF Last
<1>9. ASSUME Opens(p[i]) PROVE MarkInv(p, i, StackAfter(s, p, i))
  <2>1. PICK y \in Visitors : y.wrapped = {} /\ StackAfter(s, p, i) = Append(s, y)
    <3>1. CASE IsFunc(p[i])
      <4>1. PICK y : y = FuncType(v, p[i].sig, p[i].line)
        OBVIOUS
      <4>2. y \in Visitors
        BY <1>2, <3>1, <4>1, FuncTypeKnows
      <4>3. y.wrapped = {}
        BY <4>1 DEF FuncType, Visitors
      <4> QED BY <1>8, <3>1, <4>1, <4>2, <4>3 DEF StackAfter
    <3>2. CASE ~ IsFunc(p[i])
      <4>1. PICK y : y = BlockVisitor(v)
        OBVIOUS
      <4>2. y \in Visitors /\ y.wrapped = {}
        BY <4>1 DEF BlockVisitor, Visitors
      <4>3. p[i].k \in {"block", "switch"}
        BY <1>9, <3>2 DEF Opens, IsFunc
      <4> QED BY <1>8, <3>2, <4>1, <4>2, <4>3 DEF StackAfter
    <3> QED BY <3>1, <3>2
  <2>2. PICK t : t = Append(s, y)
    OBVIOUS
  <2>3. PICK d : d = Append(c, i)
    OBVIOUS
  <2>4. /\ t \in Seq(Visitors) /\ Len(t) = Len(d) + 1
        /\ \A x \in 1 .. Len(d) : \A name \in t[x + 1].wrapped :
             x \in 1 .. k /\ d[x] = c[x] /\ name \in s[x + 1].wrapped
    BY <1>2, <1>4, <1>5, <2>1, <2>2, <2>3, MarkPushed
  <2>5. Opened(p)[i] = d /\ StackAfter(s, p, i) = t
    BY <1>6, <1>9, <2>1, <2>2, <2>3
  <2>6. ASSUME NEW x \in 1 .. Len(d), NEW name \in t[x + 1].wrapped
        PROVE  \E a \in 2 .. i : AssignsWrap(p, a, name) /\ InnermostBlock(p, a) = d[x]
    <3>1. x \in 1 .. k /\ d[x] = c[x] /\ name \in s[x + 1].wrapped
      BY <2>4, <2>6
    <3> QED BY <1>5, <1>7, <3>1
  <2>7. MarkInv(p, i, t)
    BY <2>4, <2>5, <2>6 DEF MarkInv
  <2> QED BY <2>5, <2>7
<1>10. ASSUME p[i].k = "end" PROVE MarkInv(p, i, StackAfter(s, p, i))
  <2>1. c # << >>
    <3>1. i # 1
      BY <1>10 DEF IsFile
    <3>2. i \in 2 .. Len(p)
      BY <1>1, <3>1
    <3> QED BY <1>3, <3>2 DEF IsFile, OpenAt
  <2>2. PICK d : d = Front(c)
    OBVIOUS
  <2>3. PICK t : t = Front(s)
    OBVIOUS
  <2>4. d \in Seq(Nat) /\ Len(d) = k - 1 /\ \A x \in 1 .. Len(d) : d[x] = c[x]
    BY <1>4, <2>1, <2>2, FrontOf
  <2>5. t \in Seq(Visitors) /\ Len(t) = k /\ \A x \in 1 .. Len(t) : t[x] = s[x]
    BY <1>4, <1>5, <1>8, <2>3, FrontOf
  <2>6. Opened(p)[i] = d /\ StackAfter(s, p, i) = t
    BY <1>6, <1>10, <2>2, <2>3 DEF Opens, StackAfter, IsFunc
  <2>7. k # 0
    <3>1. \A w \in Seq(Nat) : Len(w) = 0 => w = << >>
      OBVIOUS
    <3> QED BY <1>4, <2>1, <3>1
  <2>8. ASSUME NEW x \in 1 .. Len(d), NEW name \in t[x + 1].wrapped
        PROVE  \E a \in 2 .. i : AssignsWrap(p, a, name) /\ InnermostBlock(p, a) = d[x]
    <3>1. x \in 1 .. k /\ x + 1 \in 1 .. Len(t)
      BY <1>4, <2>4, <2>5, <2>7
    <3>2. t[x + 1] = s[x + 1] /\ d[x] = c[x]
      BY <2>4, <2>5, <2>8, <3>1
    <3> QED BY <1>5, <1>7, <2>8, <3>1, <3>2
  <2>9. Len(t) = Len(d) + 1
    BY <1>4, <2>4, <2>5, <2>7
  <2>10. MarkInv(p, i, t)
    BY <2>5, <2>6, <2>8, <2>9 DEF MarkInv
  <2> QED BY <2>6, <2>10
<1>11. ASSUME p[i].k = "assign" PROVE MarkInv(p, i, StackAfter(s, p, i))
  <2>1. PICK t : t = StackAfter(s, p, i)
    OBVIOUS
  <2>2. /\ t \in Seq(Visitors) /\ Len(t) = k + 1
        /\ \A j \in 1 .. k : t[j] = s[j]
        /\ t[k + 1].wrapped = v.wrapped \union Marks(v, p[i])
    <3>0. s \in Seq(Visitors) /\ s # << >> /\ p[i].k = "assign"
      BY <1>5, <1>8, <1>11
    <3>1. /\ StackAfter(s, p, i) \in Seq(Visitors)
          /\ Len(StackAfter(s, p, i)) = Len(s)
          /\ \A j \in 1 .. Len(s) - 1 : StackAfter(s, p, i)[j] = s[j]
          /\ StackAfter(s, p, i)[Len(s)].wrapped = Last(s).wrapped \union Marks(Last(s), p[i])
      BY <1>2, <3>0, AssignAfter
    <3>2. Len(s) - 1 = k
      BY <1>4, <1>5
    <3> QED BY <1>5, <1>8, <2>1, <3>1, <3>2
  <2>3. Opened(p)[i] = c
    BY <1>6, <1>11 DEF Opens
  <2>4. i # 1 /\ i \in 2 .. i
    <3>1. i # 1
      BY <1>11 DEF IsFile
    <3> QED BY <1>2, <3>1
  <2>5. InnermostBlock(p, i) = c[k]
    BY <1>3, <1>4 DEF InnermostBlock, OpenAt, Last
  <2>6. ASSUME NEW name \in Marks(v, p[i]) PROVE AssignsWrap(p, i, name)
    <3>1. PICK j \in 1 .. Len(p[i].lhs) :
            p[i].lhs[j] = name /\ j <= Len(p[i].rhs) /\ p[i].rhs[j] = "wrap"
      BY <2>6 DEF Marks
    <3>2. Len(p[i].rhs) \in Nat /\ Len(p[i].lhs) \in Nat
      <4>1. p[i].lhs \in Seq(Nat \X Nat) /\ p[i].rhs \in Seq(Exprs)
        BY <1>2, <1>11, NodeFields
      <4> QED BY <4>1, LenProperties
    <3>3. j \in 1 .. Len(p[i].rhs) /\ j <= Len(p[i].lhs)
      BY <3>1, <3>2
    <3> QED BY <1>11, <3>1, <3>3 DEF AssignsWrap
  <2>7. ASSUME NEW x \in 1 .. k, NEW name \in t[x + 1].wrapped
        PROVE  \E a \in 2 .. i : AssignsWrap(p, a, name) /\ InnermostBlock(p, a) = c[x]
    <3>1. CASE name \in s[x + 1].wrapped
      BY <1>5, <1>7, <3>1
    <3>2. CASE name \notin s[x + 1].wrapped
      <4>1. x = k
        <5>1. x # k => x + 1 \in 1 .. k
          BY <1>4
        <5> QED BY <2>2, <2>7, <3>2, <5>1
      <4>2. name \in Marks(v, p[i])
        BY <1>8, <2>2, <2>7, <3>2, <4>1
      <4>3. AssignsWrap(p, i, name)
        BY <2>6, <4>2
      <4> QED BY <2>4, <2>5, <4>1, <4>3
    <3> QED BY <3>1, <3>2
  <2>8. MarkInv(p, i, t)
    BY <1>4, <2>2, <2>3, <2>7 DEF MarkInv
  <2> QED BY <2>1, <2>8
<1>12. ASSUME p[i].k \in {"case", "return"} PROVE MarkInv(p, i, StackAfter(s, p, i))
  <2>1. StackAfter(s, p, i) = s /\ Opened(p)[i] = c
    BY <1>6, <1>12 DEF StackAfter, IsFunc, Opens
  <2>2. \A x \in 1 .. k : \A name \in s[x + 1].wrapped :
          \E a \in 2 .. i : AssignsWrap(p, a, name) /\ InnermostBlock(p, a) = c[x]
    BY <1>5, <1>7
  <2> QED BY <1>4, <1>5, <2>1, <2>2 DEF MarkInv
<1> QED BY <1>2, <1>9, <1>10, <1>11, <1>12, NodeKinds DEF Opens

\* At each node: what the visitor there has seen wrapped.
LEMMA WrappedBefore ==
  ASSUME NEW p, IsFile(p), NEW o, NEW u, NEW i \in 2 .. Len(p),
         NEW name \in VisitorAt(p, o, u, i).wrapped
  PROVE  \E a \in 2 .. i - 1 :
           AssignsWrap(p, a, name) /\ InnermostBlock(p, a) = InnermostBlock(p, i)
<1>1. PICK n \in Nat : n = Len(p)
  BY OpenInFile
<1>2. IsProgram(p)
  BY FilesArePrograms
<1> DEFINE R == {j \in 0 .. n : MarkInv(p, j, Walkers(p, o, u)[j].stack)}
<1>3. 0 \in R
  <2>1. Walkers(p, o, u)[0].stack = <<NoVisitor>>
    BY <1>2, WalkBegins
  <2>2. Opened(p)[0] = << >>
    BY <1>1, OpenedUnfold
  <2>3. PICK y \in Visitors : y = NoVisitor
    <3>1. {} \in SUBSET Nat /\ {} \in SUBSET (Nat \X Nat) /\ 0 \in Nat
      OBVIOUS
    <3> QED BY <3>1 DEF NoVisitor, Visitors
  <2>4. <<y>> \in Seq(Visitors) /\ Len(<<y>>) = 1
    OBVIOUS
  <2>5. Len(<< >>) = 0
    OBVIOUS
  <2>6. MarkInv(p, 0, <<y>>)
    BY <2>2, <2>4, <2>5 DEF MarkInv
  <2> QED BY <2>1, <2>3, <2>6
<1>4. ASSUME NEW j \in 1 .. n, j - 1 \in R PROVE j \in R
  <2>1. PICK s : s = Walkers(p, o, u)[j - 1].stack
    OBVIOUS
  <2>2. MarkInv(p, j - 1, s)
    BY <1>4, <2>1
  <2>3. Walkers(p, o, u)[j].stack = StackAfter(s, p, j)
    BY <1>1, <1>2, <2>1, StepAt
  <2>4. MarkInv(p, j, StackAfter(s, p, j))
    BY <1>1, <2>2, MarkStep
  <2>5. j \in 0 .. n
    OBVIOUS
  <2> QED BY <2>3, <2>4, <2>5
<1> HIDE DEF R
<1>5. 0 .. n \subseteq R
  BY <1>3, <1>4, UpTo
<1>6. i - 1 \in 0 .. n
  BY <1>1
<1>7. PICK s : s = Walkers(p, o, u)[i - 1].stack
  OBVIOUS
<1>8. MarkInv(p, i - 1, s)
  BY <1>5, <1>6, <1>7 DEF R
<1>9. PICK c \in Seq(Nat) : c = Opened(p)[i - 1]
  <2>1. OpenInv(p, i - 1)
    BY <1>1, <1>6, OpenAlways
  <2> QED BY <2>1 DEF OpenInv
<1>10. PICK k \in Nat : k = Len(c) /\ k >= 1
  <2>1. c # << >>
    BY <1>9 DEF IsFile, OpenAt
  <2>2. Len(c) >= 1
    BY <1>1, <1>6, <1>9, <2>1, OpenInFile
  <2> QED BY <2>2
<1>11. s \in Seq(Visitors) /\ Len(s) = k + 1
  BY <1>8, <1>9, <1>10 DEF MarkInv
<1>12. VisitorAt(p, o, u, i) = s[k + 1]
  BY <1>7, <1>11 DEF VisitorAt, Top, Last
<1>13. k \in 1 .. k
  BY <1>10
<1>14. \E a \in 2 .. i - 1 : AssignsWrap(p, a, name) /\ InnermostBlock(p, a) = c[k]
  BY <1>8, <1>9, <1>10, <1>12, <1>13 DEF MarkInv
<1>15. InnermostBlock(p, i) = c[k]
  BY <1>9, <1>10 DEF InnermostBlock, OpenAt, Last
<1> QED BY <1>14, <1>15

----------------------------------------------------------------------------
(***************************************************************************)
(* Where the nodes of a file are in the output.                            *)
(***************************************************************************)
LEMMA NodeMoved ==
  ASSUME NEW p, IsFile(p), NEW o, NEW u, NEW off, OffsetsOf(p, o, u, off),
         NEW j \in 1 .. Len(p), p[j].k # "return"
  PROVE  /\ off[j] \in 1 .. Len(OutputOf(p, o, u))
         /\ off[j] = off[j - 1] + 1
         /\ OutputOf(p, o, u)[off[j]].k = p[j].k
         /\ OutputOf(p, o, u)[off[j]].line = p[j].line
         /\ IsFunc(p[j]) => OutputOf(p, o, u)[off[j]].sig = p[j].sig
         /\ p[j].k = "assign" =>
              /\ OutputOf(p, o, u)[off[j]].lhs = p[j].lhs
              /\ OutputOf(p, o, u)[off[j]].rhs = Wrapped(p[j].rhs, InsertsAt(Made(p, o, u), j))
<1>1. Kept(p, Made(p, o, u), j)
  BY KeptNode
<1>2. /\ off[j] \in 1 .. Len(OutputOf(p, o, u))
      /\ off[j] = off[j - 1] + 1
      /\ OutputOf(p, o, u)[off[j]] = Piece(p, Made(p, o, u), j)[1]
  BY <1>1, OpenInKept
<1> QED BY <1>1, <1>2 DEF Kept

\* The first node of a piece stands where the node stood.
LEMMA StandsMoved ==
  ASSUME NEW p, IsFile(p), NEW o, NEW u, NEW off, OffsetsOf(p, o, u, off), NEW i \in 1 .. Len(p)
  PROVE  Opened(OutputOf(p, o, u))[off[i - 1]] = Moved(off, OpenAt(p, i))
<1>1. i - 1 \in 0 .. Len(p)
  BY OpenInFile
<1> QED BY <1>1, OpenMoved DEF OpenAt

\* Its function is the function of the node, moved.
LEMMA EnclosingMoved ==
  ASSUME NEW p, IsFile(p), NEW o, NEW u, NEW off, OffsetsOf(p, o, u, off),
         NEW i \in 2 .. Len(p), NEW m, NEW more,
         ToSet(OpenAt(OutputOf(p, o, u), m)) = ToSet(Moved(off, OpenAt(p, i))) \union more,
         \A c \in more : ~ IsFunc(OutputOf(p, o, u)[c])
  PROVE  EnclosingFunc(OutputOf(p, o, u), m) = off[EnclosingFunc(p, i)]
<1>1. PICK n \in Nat : n = Len(p)
  BY OpenInFile
<1>2. PICK q : q = OutputOf(p, o, u)
  OBVIOUS
<1>3. i - 1 \in 0 .. n /\ i \in 1 .. n + 1
  BY <1>1
<1>4. PICK s \in Seq(0 .. n) : s = OpenAt(p, i)
  BY <1>1, <1>3, OpenNodes DEF OpenAt
<1>5. PICK t : t = Moved(off, s)
  OBVIOUS
<1>6. off \in [0 .. n -> Nat]
  BY <1>1 DEF OffsetsOf
<1>7. t \in Seq(Nat) /\ Len(t) = Len(s) /\ \A x \in 1 .. Len(s) : t[x] = off[s[x]]
  BY <1>3, <1>4, <1>5, <1>6, MovedOpen
<1>8. ToSet(s) = {s[x] : x \in 1 .. Len(s)} /\ ToSet(t) = {t[x] : x \in 1 .. Len(s)}
  <2>1. DOMAIN s = 1 .. Len(s) /\ DOMAIN t = 1 .. Len(s)
    BY <1>4, <1>7, LenProperties
  <2> QED BY <2>1 DEF ToSet
<1>9. \A j \in ToSet(s) : j \in 1 .. n /\ p[j].k # "return"
  <2>1. OpenInv(p, i - 1)
    BY <1>1, <1>3, OpenAlways
  <2>2. \A x \in 1 .. Len(s) : s[x] \in 1 .. i - 1 /\ Opens(p[s[x]])
    BY <1>4, <2>1 DEF OpenInv, OpenAt
  <2>3. \A x \in 1 .. Len(s) : s[x] \in 1 .. n /\ p[s[x]].k # "return"
    <3> TAKE x \in 1 .. Len(s)
    <3>1. s[x] \in 1 .. i - 1 /\ i \in 2 .. n /\ Opens(p[s[x]])
      BY <1>1, <2>2
    <3>2. p[s[x]].k # "return"
      BY <3>1 DEF Opens
    <3> QED BY <3>1, <3>2
  <2> QED BY <1>8, <2>3
<1>10. \A j \in ToSet(s) : q[off[j]].k = p[j].k
  BY <1>1, <1>2, <1>9, NodeMoved
<1>11. \A j \in ToSet(s) : IsFunc(q[off[j]]) <=> IsFunc(p[j])
  BY <1>10 DEF IsFunc
<1> DEFINE F == {j \in ToSet(s) : IsFunc(p[j])}
           G == {j \in ToSet(OpenAt(q, m)) : IsFunc(q[j])}
<1>12. G = {off[j] : j \in F}
  <2>1. ToSet(OpenAt(q, m)) = ToSet(t) \union more
    BY <1>2, <1>4, <1>5
  <2>2. ToSet(t) = {off[j] : j \in ToSet(s)}
    <3>1. PICK D : D = 1 .. Len(s)
      OBVIOUS
    <3>2. \A x \in D : t[x] = off[s[x]]
      BY <1>7, <3>1
    <3>3. ToSet(t) = {t[x] : x \in D} /\ ToSet(s) = {s[x] : x \in D}
      BY <1>8, <3>1
    <3>4. {t[x] : x \in D} = {off[s[x]] : x \in D}
      BY <3>2
    <3>5. {off[s[x]] : x \in D} = {off[j] : j \in {s[x] : x \in D}}
      OBVIOUS
    <3> QED BY <3>3, <3>4, <3>5
  <2>3. \A c \in more : ~ IsFunc(q[c])
    BY <1>2
  <2> QED BY <1>11, <2>1, <2>2, <2>3
<1>13. PICK f : f = EnclosingFunc(p, i)
  OBVIOUS
<1>14. f = Max(F) /\ EnclosingFunc(q, m) = Max(G)
  BY <1>4, <1>13 DEF EnclosingFunc
<1>15. f \in F /\ \A y \in F : y <= f
  <2>1. F \subseteq 0 .. n
    BY <1>9
  <2>2. F # {}
    <3>1. OpenAt(p, i) # << >>
      BY DEF IsFile
    <3>2. 1 \in ToSet(s)
      <4>1. Len(s) >= 1 /\ s[1] = 1
        BY <1>1, <1>3, <1>4, <3>1, OpenInFile DEF OpenAt
      <4>2. 1 \in 1 .. Len(s)
        BY <4>1
      <4> QED BY <1>8, <4>1, <4>2
    <3>3. IsFunc(p[1])
      BY DEF IsFile, IsFunc
    <3> QED BY <3>2, <3>3
  <2> HIDE DEF F
  <2> QED BY <1>14, <2>1, <2>2, GreatestNumber
<1>16. off[n] \in Nat /\ G \subseteq 0 .. off[n] /\ off[f] \in G /\ \A z \in G : z <= off[f]
  <2>1. \A j \in F : j \in 0 .. n
    BY <1>9
  <2> HIDE DEF F, G
  <2>2. n \in 0 .. n
    OBVIOUS
  <2>3. /\ \A j \in 0 .. n : off[j] \in Nat
        /\ \A j, y \in 0 .. n : j < y => off[j] < off[y]
    BY <1>1, OffsetsAscend
  <2>4. \A j \in 0 .. n : off[j] \in 0 .. off[n]
    <3> TAKE j \in 0 .. n
    <3>1. j = n \/ j < n
      OBVIOUS
    <3> QED BY <2>2, <2>3, <3>1
  <2>5. \A j \in F : off[j] <= off[f]
    <3> TAKE j \in F
    <3>1. j = f \/ j < f
      BY <1>15, <2>1
    <3>2. off[j] \in Nat /\ off[f] \in Nat
      BY <1>15, <2>1, <2>3
    <3>3. j < f => off[j] < off[f]
      BY <1>15, <2>1, <2>3
    <3> QED BY <3>1, <3>2, <3>3
  <2> QED BY <1>12, <1>15, <2>1, <2>2, <2>3, <2>4, <2>5
<1>17. Max(G) = off[f]
  <2> HIDE DEF F, G
  <2>1. Max(G) \in G /\ \A z \in G : z <= Max(G)
    BY <1>16, GreatestNumber
  <2>2. PICK x : x = Max(G)
    OBVIOUS
  <2>3. PICK y : y = off[f]
    OBVIOUS
  <2>4. x <= y /\ y <= x /\ x \in Nat /\ y \in Nat
    <3>1. x \in G /\ y \in G
      BY <1>16, <2>1, <2>2, <2>3
    <3>2. \A z \in G : z \in Nat /\ z <= x /\ z <= y
      BY <1>16, <2>1, <2>2, <2>3
    <3> QED BY <3>1, <3>2
  <2>5. x = y
    BY <2>4
  <2> QED BY <2>2, <2>3, <2>5
<1> HIDE DEF F, G
<1> QED BY <1>2, <1>13, <1>14, <1>17

LEMMA EnclosingStays ==
  ASSUME NEW p, IsFile(p), NEW o, NEW u, NEW off, OffsetsOf(p, o, u, off),
         NEW i \in 2 .. Len(p), NEW m, OpenAt(OutputOf(p, o, u), m) = Moved(off, OpenAt(p, i))
  PROVE  EnclosingFunc(OutputOf(p, o, u), m) = off[EnclosingFunc(p, i)]
<1>1. PICK more : more = {}
  OBVIOUS
<1>2. ToSet(OpenAt(OutputOf(p, o, u), m)) = ToSet(Moved(off, OpenAt(p, i))) \union more
  BY <1>1
<1>3. \A c \in more : ~ IsFunc(OutputOf(p, o, u)[c])
  BY <1>1
<1> QED BY <1>2, <1>3, EnclosingMoved

LEMMA EnclosingOfBlock ==
  ASSUME NEW p, IsFile(p), NEW o, NEW u, NEW off, OffsetsOf(p, o, u, off),
         NEW i \in 2 .. Len(p), NEW m, NEW c, ~ IsFunc(OutputOf(p, o, u)[c]),
         ToSet(OpenAt(OutputOf(p, o, u), m)) = ToSet(Moved(off, OpenAt(p, i))) \union {c}
  PROVE  EnclosingFunc(OutputOf(p, o, u), m) = off[EnclosingFunc(p, i)]
<1>1. PICK more : more = {c}
  OBVIOUS
<1>2. ToSet(OpenAt(OutputOf(p, o, u), m)) = ToSet(Moved(off, OpenAt(p, i))) \union more
  BY <1>1
<1>3. \A d \in more : ~ IsFunc(OutputOf(p, o, u)[d])
  BY <1>1
<1> QED BY <1>2, <1>3, EnclosingMoved

\* What is known of it is what was known in the file.
LEMMA FuncMoved ==
  ASSUME NEW p, IsFile(p), NEW o, NEW u, NEW off, OffsetsOf(p, o, u, off),
         NEW i \in 2 .. Len(p), NEW m,
         EnclosingFunc(OutputOf(p, o, u), m) = off[EnclosingFunc(p, i)]
  PROVE  LET q == OutputOf(p, o, u)
             f == EnclosingFunc(p, i)
             g == EnclosingFunc(q, m)
         IN  q[g].sig = p[f].sig /\ NamedErrors(q, g) = NamedErrors(p, f)
<1>1. PICK f : f = EnclosingFunc(p, i)
  OBVIOUS
<1>2. f \in 1 .. Len(p) /\ IsFunc(p[f])
  <2>1. i \in 1 .. Len(p) + 1 /\ OpenAt(p, i) # << >>
    BY OpenInFile DEF IsFile
  <2> QED BY <1>1, <2>1, EnclosingIsInnermost, SignatureOf
<1>3. p[f].k # "return"
  BY <1>2 DEF IsFunc
<1>4. PICK g : g = off[f]
  OBVIOUS
<1>5. PICK q : q = OutputOf(p, o, u)
  OBVIOUS
<1>6. q[g].sig = p[f].sig /\ q[g].line = p[f].line
  BY <1>2, <1>3, <1>4, <1>5, NodeMoved
<1>7. NamedErrors(q, g) = NamedErrors(p, f)
  BY <1>6 DEF NamedErrors
<1>8. EnclosingFunc(q, m) = g
  BY <1>1, <1>4, <1>5
<1> QED BY <1>1, <1>5, <1>6, <1>7, <1>8

LEMMA MovedLast ==
  ASSUME NEW n \in Nat, NEW off \in [0 .. n -> Nat], NEW s \in Seq(0 .. n), s # << >>
  PROVE  Last(Moved(off, s)) = off[Last(s)]
<1>1. PICK l \in Nat : l = Len(s) /\ l # 0
  BY EmptySeq
<1>2. Len(Moved(off, s)) = l /\ \A x \in 1 .. l : Moved(off, s)[x] = off[s[x]]
  <2>1. 0 \in 0 .. n
    OBVIOUS
  <2>2. /\ Len(Moved(off, s)) = Len(s)
        /\ \A x \in 1 .. Len(s) : Moved(off, s)[x] = off[s[x]]
    BY <2>1, MovedOpen
  <2> QED BY <1>1, <2>2
<1>3. l \in 1 .. l
  BY <1>1
<1> QED BY <1>1, <1>2, <1>3 DEF Last

LEMMA InnermostMoved ==
  ASSUME NEW p, IsFile(p), NEW o, NEW u, NEW off, OffsetsOf(p, o, u, off),
         NEW i \in 2 .. Len(p), NEW m, OpenAt(OutputOf(p, o, u), m) = Moved(off, OpenAt(p, i))
  PROVE  InnermostBlock(OutputOf(p, o, u), m) = off[InnermostBlock(p, i)]
<1>1. PICK n \in Nat : n = Len(p)
  BY OpenInFile
<1>2. i - 1 \in 0 .. n
  BY <1>1
<1>3. PICK s \in Seq(0 .. n) : s = OpenAt(p, i)
  BY <1>1, <1>2, OpenNodes DEF OpenAt
<1>4. s # << >>
  BY <1>3 DEF IsFile
<1>5. off \in [0 .. n -> Nat]
  BY <1>1 DEF OffsetsOf
<1>6. Last(Moved(off, s)) = off[Last(s)]
  BY <1>4, <1>5, MovedLast
<1> QED BY <1>3, <1>6 DEF InnermostBlock

\* An assignment that sets an error to a wrapped one does so in the output.
LEMMA SetsWrappedKept ==
  ASSUME NEW a \in SyntaxNodes, a.k = "assign", NEW here,
         NEW b, b.lhs = a.lhs, b.rhs = Wrapped(a.rhs, here),
         NEW name, SetsWrapped(a, name)
  PROVE  SetsWrapped(b, name)
<1>1. PICK r \in Seq(Exprs) : r = a.rhs
  BY NodeFields
<1>2. PICK n \in Nat : n = Len(r)
  OBVIOUS
<1>3. PICK s \in Seq(Exprs) : /\ s = b.rhs /\ Len(s) = n
                              /\ \A x \in 1 .. n : r[x] = "wrap" => s[x] = "wrap"
  BY <1>1, <1>2, WrappedExprs
<1>4. PICK lhs \in Seq(Nat \X Nat) : lhs = a.lhs /\ lhs = b.lhs
  BY NodeFields
<1>5. PICK l \in Nat : l = Len(lhs)
  BY <1>4
<1>6. ASSUME NEW x \in 1 .. l, lhs[x] = name
      PROVE  IF n = l THEN s[x] = "wrap" ELSE x = l /\ s = <<"wrap">>
  <2>1. IF n = l THEN r[x] = "wrap" ELSE x = l /\ r = <<"wrap">>
    BY <1>1, <1>2, <1>4, <1>5, <1>6 DEF SetsWrapped
  <2>2. CASE n = l
    BY <1>3, <2>1, <2>2
  <2>3. CASE n # l
    <3>1. n = 1 /\ r[1] = "wrap"
      BY <1>2, <2>1, <2>3
    <3>2. 1 \in 1 .. n
      BY <3>1
    <3>3. s[1] = "wrap" /\ Len(s) = 1
      BY <1>3, <3>1, <3>2
    <3>4. s = <<"wrap">>
      BY <3>3
    <3> QED BY <2>1, <2>3, <3>4
  <2> QED BY <2>2, <2>3
<1>7. name \in ToSet(b.lhs)
  BY <1>4 DEF SetsWrapped
<1> QED BY <1>2, <1>3, <1>4, <1>5, <1>6, <1>7 DEF SetsWrapped

\* A node that does not replace an error is none that does in the output.
LEMMA KeptInPlace ==
  ASSUME NEW p, IsFile(p), NEW o, NEW u, NEW off, OffsetsOf(p, o, u, off),
         NEW block \in 0 .. Len(p), NEW name, name # Other,
         NEW k \in 2 .. Len(p), ~ Replaces(p, k, block, name),
         NEW x \in 1 .. Len(Piece(p, Made(p, o, u), k))
  PROVE  ~ Replaces(OutputOf(p, o, u), off[k - 1] + x, off[block], name)
<1>1. PICK n \in Nat : n = Len(p)
  BY OpenInFile
<1>2. k \in 1 .. n /\ k - 1 \in 0 .. n /\ k \in 0 .. n
  BY <1>1
<1>3. PICK q : q = OutputOf(p, o, u)
  OBVIOUS
<1>4. PICK t : t = Piece(p, Made(p, o, u), k)
  OBVIOUS
<1>5. PICK c : c = off[k - 1] + x /\ q[c] = t[x]
  BY <1>1, <1>2, <1>3, <1>4, PieceAt
<1>6. CASE Kept(p, Made(p, o, u), k)
  <2>1. PICK y : t = <<y>> /\ y.k = p[k].k /\ (p[k].k = "assign" =>
          y.lhs = p[k].lhs /\ y.rhs = Wrapped(p[k].rhs, InsertsAt(Made(p, o, u), k)))
    BY <1>4, <1>6 DEF Kept
  <2>2. x = 1
    BY <1>4, <2>1
  <2>3. c = off[k] /\ q[c] = y /\ c - 1 = off[k - 1]
    <3>1. off[k] = off[k - 1] + 1 /\ off[k - 1] \in Nat
      BY <1>1, <1>2, <1>6, OpenInKept, OffsetsAscend
    <3> QED BY <1>5, <2>1, <2>2, <3>1
  <2>4. CASE p[k].k = "assign"
    <3>1. p[k] \in SyntaxNodes
      BY <1>1, <1>2, OpenInFile
    <3>2. name \notin ToSet(p[k].lhs) \/ SetsWrapped(p[k], name)
      BY <2>4 DEF Replaces
    <3>3. name \notin ToSet(y.lhs) \/ SetsWrapped(y, name)
      BY <2>1, <2>4, <3>1, <3>2, SetsWrappedKept
    <3> QED BY <1>3, <1>5, <2>1, <2>3, <2>4, <3>3 DEF Replaces
  <2>5. CASE p[k].k = "case"
    <3>1. InnermostBlock(p, k) # block
      BY <2>5 DEF Replaces
    <3>2. OpenAt(q, c) = Moved(off, OpenAt(p, k))
      BY <1>1, <1>2, <1>3, <2>3, StandsMoved DEF OpenAt
    <3>3. InnermostBlock(q, c) = off[InnermostBlock(p, k)]
      BY <1>3, <3>2, InnermostMoved
    <3>4. InnermostBlock(p, k) \in 0 .. n
      <4>1. PICK s \in Seq(0 .. n) : s = OpenAt(p, k)
        BY <1>1, <1>2, OpenNodes DEF OpenAt
      <4>2. s # << >>
        BY <4>1 DEF IsFile
      <4>3. Len(s) \in 1 .. Len(s)
        BY <4>1, <4>2, EmptySeq
      <4> QED BY <4>1, <4>3 DEF InnermostBlock, Last
    <3>5. off[InnermostBlock(p, k)] # off[block]
      BY <1>1, <3>1, <3>4, OffsetsAscend
    <3> QED BY <1>3, <1>5, <2>1, <2>3, <2>5, <3>3, <3>5 DEF Replaces
  <2>6. CASE p[k].k # "assign" /\ p[k].k # "case"
    BY <1>3, <1>5, <2>1, <2>3, <2>6 DEF Replaces
  <2> QED BY <2>4, <2>5, <2>6
<1>7. CASE p[k].k = "return" /\ Assigned(p, o, u, k)
  <2>1. PICK y : /\ t = <<y, p[k]>> /\ y.k = "assign" /\ y.lhs \in Seq(Nat \X Nat)
                 /\ Len(y.rhs) = Len(y.lhs)
                 /\ \A j \in 1 .. Len(y.lhs) : y.rhs[j] = "wrap"
    <3>1. k \in 1 .. Len(p)
      BY <1>1, <1>2
    <3>2. PICK y : /\ Piece(p, Made(p, o, u), k) = <<y, p[k]>>
                   /\ y.k = "assign" /\ y.lhs \in Seq(Nat \X Nat)
                   /\ Len(y.rhs) = Len(y.lhs)
                   /\ \A j \in 1 .. Len(y.lhs) : y.rhs[j] = "wrap"
      BY <1>7, <3>1, AssignedNodes
    <3> QED BY <1>4, <3>2
  <2>2. x = 1 \/ x = 2
    <3>1. Len(t) = 2
      BY <2>1
    <3> QED BY <1>4, <3>1
  <2>3. CASE x = 1
    <3>1. q[c] = y
      BY <1>5, <2>1, <2>3
    <3>2. name \in ToSet(y.lhs) => SetsWrapped(y, name)
      BY <2>1 DEF SetsWrapped
    <3> QED BY <1>3, <1>5, <2>1, <3>1, <3>2 DEF Replaces
  <2>4. CASE x = 2
    <3>1. q[c] = p[k]
      BY <1>5, <2>1, <2>4
    <3> QED BY <1>3, <1>5, <1>7, <3>1 DEF Replaces
  <2> QED BY <2>2, <2>3, <2>4
<1>8. CASE p[k].k = "return" /\ InBlock(p, o, u, k)
  <2>1. PICK y, z, r, e : /\ t = <<y, z, r, e>>
                          /\ y.k = "block" /\ z.k = "assign" /\ r.k = "return" /\ e.k = "end"
                          /\ z.lhs \in Seq(Nat \X Nat)
                          /\ \A j \in 1 .. Len(z.lhs) : z.lhs[j] = Other
    <3>1. PICK l \in Nat : l = VisitorAt(p, o, u, k).n
      BY <1>1, <1>2, VisitorKnows DEF Visitors
    <3>2. PICK lhs : lhs = [j \in 1 .. l |-> Other]
      OBVIOUS
    <3>3. PICK results : results = [j \in 1 .. l |-> IF j = l THEN "wrap" ELSE "ident"]
      OBVIOUS
    <3>4. PICK line, rhs : p[k] = [k |-> "return", line |-> line, results |-> rhs]
      <4>1. p[k] \in SyntaxNodes /\ p[k].k = "return"
        BY <1>1, <1>2, <1>8, OpenInFile
      <4>2. p[k] = [k |-> "return", line |-> p[k].line, results |-> p[k].results]
        BY <4>1, NodeFields
      <4> QED BY <4>2
    <3>5. PICK y, z, r, e :
            /\ y = [k |-> "block", line |-> line]
            /\ z = [k |-> "assign", line |-> line, lhs |-> lhs, rhs |-> rhs]
            /\ r = [k |-> "return", line |-> line, results |-> results]
            /\ e = [k |-> "end", line |-> line]
      OBVIOUS
    <3>6. t = ReturnNBlock(p[k], l)
      BY <1>4, <1>8, <3>1 DEF InBlock
    <3>7. t = <<y, z, r, e>>
      BY <3>2, <3>3, <3>4, <3>5, <3>6 DEF ReturnNBlock
    <3>8. lhs \in Seq(Nat \X Nat) /\ \A j \in 1 .. Len(lhs) : lhs[j] = Other
      <4>1. Other \in Nat \X Nat
        BY DEF Other
      <4> QED BY <3>2, <4>1
    <3>9. y.k = "block" /\ z.k = "assign" /\ r.k = "return" /\ e.k = "end" /\ z.lhs = lhs
      BY <3>5
    <3> QED BY <3>7, <3>8, <3>9
  <2>2. x = 1 \/ x = 2 \/ x = 3 \/ x = 4
    BY <1>4, <2>1
  <2>3. name \notin ToSet(z.lhs)
    BY <2>1, LenProperties DEF ToSet
  <2>4. t[x] = y \/ t[x] = z \/ t[x] = r \/ t[x] = e
    BY <2>1, <2>2
  <2> QED BY <1>3, <1>5, <2>1, <2>3, <2>4 DEF Replaces
<1> QED BY <1>1, <1>2, <1>6, <1>7, <1>8, KeptNode, ReturnPiece

\* What stands behind node a and before node i in the output is a part of the
\* piece of a node in between.
LEMMA InPieceBetween ==
  ASSUME NEW p, IsFile(p), NEW o, NEW u, NEW off, OffsetsOf(p, o, u, off),
         NEW a \in 1 .. Len(p), NEW i \in 1 .. Len(p),
         NEW k \in Nat, off[a] < k, k <= off[i - 1]
  PROVE  \E y \in 1 .. Len(p) :
           a < y /\ y < i /\ \E x \in 1 .. Len(Piece(p, Made(p, o, u), y)) : k = off[y - 1] + x
<1>1. PICK n \in Nat : n = Len(p)
  BY OpenInFile
<1>2. PICK g : /\ g = off
               /\ \A j \in 0 .. n : g[j] \in Nat
               /\ \A h, j \in 0 .. n : h < j => g[h] < g[j]
  BY <1>1, OffsetsAscend
<1>3. ASSUME NEW h \in 0 .. n, NEW j \in 0 .. n, ~ (h < j)
      PROVE  g[j] \in Nat /\ g[h] \in Nat /\ g[j] <= g[h]
  <2>1. g[j] \in Nat /\ g[h] \in Nat
    BY <1>2
  <2>2. j = h \/ j < h
    BY <1>3
  <2>3. g[j] = g[h] \/ g[j] < g[h]
    BY <1>2, <2>2
  <2> QED BY <2>1, <2>3
<1>4. a \in 0 .. n /\ i - 1 \in 0 .. n /\ n \in 0 .. n /\ ~ (n < i - 1)
  BY <1>1
<1>5. k \in 1 .. Len(OutputOf(p, o, u))
  <2>1. g[i - 1] \in Nat /\ g[n] \in Nat /\ g[i - 1] <= g[n] /\ g[a] \in Nat
    BY <1>3, <1>4
  <2>2. g[n] = Len(OutputOf(p, o, u)) /\ g[a] < k /\ k <= g[i - 1]
    BY <1>1, <1>2 DEF OffsetsOf
  <2> QED BY <2>1, <2>2
<1>6. PICK y \in 1 .. n : \E x \in 1 .. Len(Piece(p, Made(p, o, u), y)) : k = off[y - 1] + x
  BY <1>1, <1>5 DEF OffsetsOf
<1>7. PICK x \in 1 .. Len(Piece(p, Made(p, o, u), y)) : k = off[y - 1] + x
  BY <1>6
<1>8. y \in 0 .. n /\ y - 1 \in 0 .. n
  OBVIOUS
<1>9. k <= g[y]
  BY <1>1, <1>2, <1>7, PieceAt
<1>10. g[y - 1] < k
  <2>1. Len(Piece(p, Made(p, o, u), y)) \in Nat
    BY <1>1, PieceTyped
  <2>2. x \in Nat /\ x >= 1
    BY <2>1
  <2>3. g[y - 1] \in Nat /\ k = g[y - 1] + x
    BY <1>2, <1>7, <1>8
  <2> QED BY <2>2, <2>3
<1>11. a < y
  <2> SUFFICES ASSUME ~ (a < y) PROVE FALSE
    OBVIOUS
  <2>1. g[y] \in Nat /\ g[a] \in Nat /\ g[y] <= g[a]
    BY <1>3, <1>4, <1>8
  <2>2. g[a] < k
    BY <1>2
  <2> QED BY <1>9, <2>1, <2>2
<1>12. y < i
  <2> SUFFICES ASSUME ~ (y < i) PROVE FALSE
    OBVIOUS
  <2>1. ~ (y - 1 < i - 1)
    BY <1>1
  <2>2. g[i - 1] \in Nat /\ g[y - 1] \in Nat /\ g[i - 1] <= g[y - 1]
    BY <1>3, <1>4, <1>8, <2>1
  <2>3. k <= g[i - 1]
    BY <1>2
  <2> QED BY <1>10, <2>2, <2>3
<1> QED BY <1>1, <1>7, <1>11, <1>12

\* An error that the visitor takes for wrapped is handed out wrapped in the
\* output, unless it was stale before; m stands for the return at i, after what
\* was inserted there.
LEMMA MarkMoved ==
  ASSUME NEW p, IsFile(p), NEW o, NEW u, NEW off, OffsetsOf(p, o, u, off),
         NEW i \in 2 .. Len(p), NEW m \in Nat, off[i - 1] < m,
         OpenAt(OutputOf(p, o, u), m) = Moved(off, OpenAt(p, i)),
         NEW name \in VisitorAt(p, o, u, i).wrapped, name # Other,
         \A k \in off[i - 1] + 1 .. m - 1 : \A block :
           ~ Replaces(OutputOf(p, o, u), k, block, name)
  PROVE  HandsOutWrap(OutputOf(p, o, u), m, name) \/ Stale(p, i, name)
<1>1. PICK n \in Nat : n = Len(p)
  BY OpenInFile
<1>2. PICK a \in 2 .. i - 1 :
        AssignsWrap(p, a, name) /\ InnermostBlock(p, a) = InnermostBlock(p, i)
  BY WrappedBefore
<1>3. a \in 2 .. n /\ a \in 1 .. n /\ a \in 0 .. n /\ a - 1 \in 0 .. n /\ i - 1 \in 0 .. n
      /\ (a = i - 1 \/ a < i - 1)
  BY <1>1, <1>2
<1>4. PICK q : q = OutputOf(p, o, u)
  OBVIOUS
<1>5. p[a].k = "assign" /\ p[a].k # "return"
  BY <1>2 DEF AssignsWrap
<1>6. PICK j \in Nat : j = off[a]
  BY <1>1, <1>3, OffsetsAscend
<1>7. /\ j >= 1 /\ j - 1 = off[a - 1]
      /\ q[j].k = "assign" /\ q[j].lhs = p[a].lhs
      /\ q[j].rhs = Wrapped(p[a].rhs, InsertsAt(Made(p, o, u), a))
  <2>1. /\ off[a] \in 1 .. Len(OutputOf(p, o, u))
        /\ off[a] = off[a - 1] + 1
        /\ q[off[a]].k = p[a].k
        /\ q[off[a]].lhs = p[a].lhs
        /\ q[off[a]].rhs = Wrapped(p[a].rhs, InsertsAt(Made(p, o, u), a))
    BY <1>1, <1>3, <1>4, <1>5, NodeMoved
  <2>2. off[a - 1] \in Nat
    BY <1>1, <1>3, OffsetsAscend
  <2> QED BY <1>5, <1>6, <2>1, <2>2
<1>8. j \in 1 .. m - 1
  <2>1. off[i - 1] \in Nat /\ (a < i - 1 => off[a] < off[i - 1])
    BY <1>1, <1>3, OffsetsAscend
  <2> QED BY <1>3, <1>6, <1>7, <2>1
<1>9. CASE ~ Reaches(p, a, i, name)
  <2>1. a \in 1 .. i - 1
    BY <1>2
  <2> QED BY <1>2, <1>9, <2>1 DEF AssignsWrap, Stale
<1>10. CASE Reaches(p, a, i, name)
  <2>1. PICK block : block = InnermostBlock(p, a)
    OBVIOUS
  <2>2. SetsWrapped(p[a], name) /\ \A k \in a + 1 .. i - 1 : ~ Replaces(p, k, block, name)
    BY <1>10, <2>1 DEF Reaches
  <2>3. PICK s \in Seq(0 .. n) : s = OpenAt(p, i) /\ s # << >>
    <3>1. PICK s \in Seq(0 .. n) : s = OpenAt(p, i)
      BY <1>1, <1>3, OpenNodes DEF OpenAt
    <3> QED BY <3>1 DEF IsFile
  <2>4. block = Last(s) /\ block \in 0 .. n
    <3>1. Len(s) \in 1 .. Len(s)
      BY <2>3, EmptySeq
    <3>2. block = Last(s)
      BY <1>2, <2>1, <2>3 DEF InnermostBlock
    <3> QED BY <2>3, <3>1, <3>2 DEF Last
  <2>5. InnermostBlock(q, j) = off[block]
    <3>1. OpenAt(q, j) = Moved(off, OpenAt(p, a))
      BY <1>1, <1>3, <1>4, <1>7, StandsMoved DEF OpenAt
    <3> QED BY <1>1, <1>3, <1>4, <2>1, <3>1, InnermostMoved
  <2>6. off[block] \in ToSet(OpenAt(q, m))
    <3>1. off \in [0 .. n -> Nat] /\ 0 \in 0 .. n
      BY <1>1 DEF OffsetsOf
    <3>2. PICK t \in Seq(Nat) : /\ t = Moved(off, s) /\ Len(t) = Len(s)
                                /\ \A x \in 1 .. Len(s) : t[x] = off[s[x]]
      BY <2>3, <3>1, MovedOpen
    <3>3. Len(s) \in 1 .. Len(s)
      BY <2>3, EmptySeq
    <3>4. t[Len(s)] = off[block] /\ Len(s) \in DOMAIN t
      <4>1. DOMAIN t = 1 .. Len(s)
        BY <3>2, LenProperties
      <4> QED BY <2>4, <3>2, <3>3, <4>1 DEF Last
    <3>5. OpenAt(q, m) = t
      BY <1>4, <2>3, <3>2
    <3> QED BY <3>4, <3>5 DEF ToSet
  <2>7. SetsWrapped(q[j], name)
    <3>1. p[a] \in SyntaxNodes
      BY <1>1, <1>3, OpenInFile
    <3> QED BY <1>5, <1>7, <2>2, <3>1, SetsWrappedKept
\* What stands in between is part of a piece in between, or inserted at i.
  <2>8. ASSUME NEW k \in j + 1 .. m - 1 PROVE ~ Replaces(q, k, off[block], name)
    <3>1. CASE k \in off[i - 1] + 1 .. m - 1
      BY <1>4, <3>1
    <3>2. CASE k \notin off[i - 1] + 1 .. m - 1
      <4>1. k \in Nat /\ off[a] < k /\ k <= off[i - 1]
        <5>1. PICK c \in Nat : c = off[i - 1]
          BY <1>1, <1>3, OffsetsAscend
        <5>2. k \in Nat /\ j < k
          OBVIOUS
        <5>3. k <= c
          BY <3>2, <5>1, <5>2
        <5> QED BY <1>6, <5>1, <5>2, <5>3
      <4>2. PICK y \in 1 .. n :
              /\ a < y /\ y < i
              /\ \E x \in 1 .. Len(Piece(p, Made(p, o, u), y)) : k = off[y - 1] + x
        BY <1>1, <1>3, <4>1, InPieceBetween
      <4>3. PICK x \in 1 .. Len(Piece(p, Made(p, o, u), y)) : k = off[y - 1] + x
        BY <4>2
      <4>4. y \in a + 1 .. i - 1 /\ y \in 2 .. n
        BY <1>1, <1>3, <4>2
      <4>5. ~ Replaces(p, y, block, name)
        BY <2>2, <4>4
      <4>6. ~ Replaces(OutputOf(p, o, u), off[y - 1] + x, off[block], name)
        BY <1>1, <2>4, <4>3, <4>4, <4>5, KeptInPlace
      <4> QED BY <1>4, <4>3, <4>6
    <3> QED BY <3>1, <3>2
  <2>9. Reaches(q, j, m, name)
    BY <2>5, <2>7, <2>8 DEF Reaches
  <2>10. HandsOutWrap(q, m, name)
    BY <1>7, <1>8, <2>5, <2>6, <2>9 DEF HandsOutWrap
  <2> QED BY <1>4, <2>10
<1> QED BY <1>9, <1>10

----------------------------------------------------------------------------
(***************************************************************************)
(* Every return hands out errors that are accounted for.                   *)
(***************************************************************************)
\* Return m has nothing left to be wrapped.
Settled(v, q, m) ==
  \/ q[m].results = << >> /\ v.objs \subseteq v.wrapped
  \/ Len(q[m].results) = v.n /\ \A j \in v.indices : q[m].results[j] \in {"wrap", "nil"}
  \/ v.n > 1 /\ q[m].results = <<"wrap">>

LEMMA KeptSettled ==
  ASSUME NEW v \in Visitors, NEW p, NEW i, NEW q, NEW m, NEW o, NEW u,
         WrappedReturn(v, p, i, q, m, o, u), FitsVisitor(v, p[i].results),
         v.indices # {}, p[i].line \notin u, ~ Skipped(v, p, i, o, u)
  PROVE  Settled(v, q, m)
<1>here. PICK here : here = NotIn(p, Candidates(v, p, i, o), u)
  OBVIOUS
<1>ret. /\ \A ins \in here : ins.k = "wrap"
       /\ p[i].k = "return" /\ q[m].k = "return" /\ q[m].line = p[i].line
       /\ p[i].results \in Seq(Exprs)
       /\ q[m].results = Wrapped(p[i].results, here)
  BY <1>here DEF WrappedReturn
<1>fits. v.indices # {} /\ v.indices \subseteq 1 .. v.n /\ Len(p[i].results) \in {0, 1, v.n}
  BY DEF FitsVisitor
<1>1. PICK r \in Seq(Exprs) : r = p[i].results
  BY <1>ret
<1>2. PICK n \in Nat : n = Len(r)
  OBVIOUS
<1>3. PICK s \in Seq(Exprs) :
        /\ s = q[m].results /\ Len(s) = n
        /\ \A j \in 1 .. n :
             s[j] = IF \E y \in here : y.k = "wrap" /\ y.expr = j THEN "wrap" ELSE r[j]
  BY <1>ret, <1>1, <1>2, WrappedExprs
<1>4. \A y \in Seq(Exprs) : y = << >> <=> Len(y) = 0
  BY EmptySeq
<1>5. s = << >> <=> r = << >>
  BY <1>1, <1>2, <1>3, <1>4
\* There is nothing left to insert.
<1>6. NotIn(q, Candidates(v, q, m, o), u) = {}
  <2>1. Follows(v, v)
    BY DEF Follows
  <2> QED BY <2>1, QuietWrapped
<1>7. \A ins \in ReturnCandidates(v, q, m, o) :
        ins.at = m => ins.k = "wrap" /\ s[ins.expr] \in {"wrap", "nil"}
  <2> SUFFICES ASSUME NEW ins \in ReturnCandidates(v, q, m, o), ins.at = m,
                      ~ (ins.k = "wrap" /\ s[ins.expr] \in {"wrap", "nil"})
               PROVE  FALSE
    OBVIOUS
  <2>1. ins.k = "wrap" => ExprAt(q, ins) \notin {"wrap", "nil"}
    BY <1>ret, <1>3 DEF ExprAt
  <2>2. ins \in Candidates(v, q, m, o)
    BY <1>ret, <2>1 DEF Candidates, Needed
  <2>3. LineOf(q, ins) \notin u
    BY <1>ret DEF LineOf
  <2> QED BY <1>6, <2>2, <2>3 DEF NotIn
<1>8. CASE r = << >>
  <2>1. ReturnCandidates(v, q, m, o) = NakedCandidates(v, m)
    BY <1>fits, <1>3, <1>5, <1>8 DEF ReturnCandidates
  <2>2. v.objs \ v.wrapped = {}
    <3>1. PICK y : y = [k |-> "assign", at |-> m, names |-> v.objs \ v.wrapped]
      OBVIOUS
    <3>2. y \notin ReturnCandidates(v, q, m, o)
      BY <1>7, <3>1
    <3> QED BY <2>1, <3>1, <3>2 DEF NakedCandidates
  <2> QED BY <1>3, <1>5, <1>8, <2>2 DEF Settled
<1>9. CASE r # << >> /\ n = 1 /\ v.n > 1
  <2>1. IsCall(r[1]) /\ v.indices = {v.n} /\ (r[1] = "wrap" \/ o.NoWrapN \/ ~ (v.n > 6))
    BY <1>ret, <1>fits, <1>1, <1>2, <1>9 DEF Skipped
  <2>2. s[1] = "wrap" \/ s[1] = r[1]
    <3>1. 1 \in 1 .. n
      BY <1>9
    <3> QED BY <1>3, <3>1
  <2>3. s[1] = "wrap"
    <3> SUFFICES ASSUME s[1] # "wrap" PROVE FALSE
      OBVIOUS
    <3>1. IsCall(s[1]) /\ s[1] = r[1] /\ s[1] \notin {"wrap", "nil"}
      BY <2>1, <2>2 DEF IsCall
    <3>2. ReturnCandidates(v, q, m, o) = CallCandidates(v, q, m, o)
      BY <1>fits, <1>3, <1>5, <1>9, <3>1 DEF ReturnCandidates
    <3>3. CASE o.NoWrapN
      <4>1. PICK y : y = [k |-> "block", at |-> m, n |-> v.n]
        OBVIOUS
      <4>2. y \in ReturnCandidates(v, q, m, o)
        BY <1>3, <2>1, <3>1, <3>2, <3>3, <4>1 DEF CallCandidates
      <4>3. y.at = m /\ y.k = "block"
        BY <4>1
      <4> QED BY <1>7, <4>2, <4>3
    <3>4. CASE ~ o.NoWrapN
      <4>1. PICK y : y = [k |-> "wrap", at |-> m, expr |-> 1, n |-> v.n]
        OBVIOUS
      <4>2. y \in ReturnCandidates(v, q, m, o)
        BY <1>3, <2>1, <3>1, <3>2, <3>4, <4>1 DEF CallCandidates, WrapInsert
      <4>3. y.at = m /\ y.expr = 1
        BY <4>1
      <4>4. s[1] \in {"wrap", "nil"}
        BY <1>7, <4>2, <4>3
      <4> QED BY <3>1, <4>4
    <3> QED BY <3>3, <3>4
  <2>4. s = <<"wrap">>
    BY <1>3, <1>9, <2>3
  <2> QED BY <1>3, <1>9, <2>4 DEF Settled
<1>10. CASE r # << >> /\ ~ (n = 1 /\ v.n > 1)
  <2>1. n = v.n
    <3>1. n # 0
      BY <1>1, <1>2, <1>4, <1>10
    <3>2. v.n \in Nat /\ \E j \in v.indices : j \in 1 .. v.n
      BY <1>fits DEF Visitors
    <3>3. n \in {0, 1, v.n}
      BY <1>fits, <1>1, <1>2
    <3> QED BY <1>10, <3>1, <3>2, <3>3
  <2>2. ReturnCandidates(v, q, m, o) = {WrapInsert(m, j, 1) : j \in v.indices}
    BY <1>fits, <1>3, <1>5, <1>10 DEF ReturnCandidates
  <2>3. ASSUME NEW j \in v.indices PROVE s[j] \in {"wrap", "nil"}
    <3>1. PICK y : y = [k |-> "wrap", at |-> m, expr |-> j, n |-> 1]
      OBVIOUS
    <3>2. y \in ReturnCandidates(v, q, m, o) /\ y.at = m /\ y.expr = j
      BY <2>2, <3>1 DEF WrapInsert
    <3> QED BY <1>7, <3>2
  <2> QED BY <1>3, <2>1, <2>3 DEF Settled
<1> QED BY <1>8, <1>9, <1>10

\* How a visitor's view of a return becomes that of the output.
LEMMA AccountedOf ==
  ASSUME NEW q, NEW m, NEW lines, NEW excused, NEW v, NEW p, NEW f, KnowsFunc(v, p, f),
         q[EnclosingFunc(q, m)].sig = p[f].sig,
         NamedErrors(q, EnclosingFunc(q, m)) = NamedErrors(p, f),
         \/ v.indices = {}
         \/ q[m].line \in lines
         \/ q[m].results = << >>
              /\ \A name \in v.objs : HandsOutWrap(q, m, name) \/ name \in excused
         \/ Len(q[m].results) = v.n /\ \A j \in v.indices : q[m].results[j] \in {"wrap", "nil"}
         \/ v.n > 1 /\ q[m].results = <<"wrap">>
  PROVE  Accounted(q, m, lines, excused)
<1>1. PICK sig : sig = p[f].sig
  OBVIOUS
<1>2. CASE ~ Traced(sig)
  BY <1>1, <1>2 DEF Accounted
<1>3. CASE Traced(sig)
  <2>1. v.indices = ErrorIndices(sig) /\ v.objs = NamedErrors(p, f) /\ v.n = Len(sig.results)
    BY <1>1, <1>3 DEF KnowsFunc
  <2>2. v.indices # {}
    BY <1>3, <2>1 DEF Traced
  <2>3. CASE q[m].line \in lines
    BY <2>3 DEF Accounted
  <2>4. CASE q[m].results = << >>
               /\ \A name \in v.objs : HandsOutWrap(q, m, name) \/ name \in excused
    BY <2>1, <2>4 DEF Accounted
  <2>5. CASE Len(q[m].results) = v.n /\ \A j \in v.indices : q[m].results[j] \in {"wrap", "nil"}
    BY <1>1, <2>1, <2>5 DEF Accounted
  <2>6. CASE v.n > 1 /\ q[m].results = <<"wrap">>
    BY <1>1, <2>1, <2>6 DEF Accounted
  <2> QED BY <2>2, <2>3, <2>4, <2>5, <2>6
<1> QED BY <1>2, <1>3

LEMMA AccountedKept ==
  ASSUME NEW p, IsFile(p), ReturnsFit(p), NEW o, NEW u, NEW off, OffsetsOf(p, o, u, off),
         NEW i \in 2 .. Len(p), p[i].k = "return", Kept(p, Made(p, o, u), i),
         \A ins \in NotIn(p, CandidatesAt(p, o, u, i), u) : ins.k = "wrap"
  PROVE  Accounted(OutputOf(p, o, u), off[i], u \union Walkers(p, o, u)[Len(p)].logs,
                   StaleErrors(p, i))
<1>1. PICK n \in Nat : n = Len(p)
  BY OpenInFile
<1>2. i \in 1 .. n /\ i - 1 \in 0 .. n
  BY <1>1
<1>3. PICK q : q = OutputOf(p, o, u)
  OBVIOUS
<1>4. PICK m \in Nat : m = off[i] /\ m - 1 = off[i - 1] /\ off[i - 1] < m
  <2>1. off[i] = off[i - 1] + 1
    BY <1>1, <1>2, OpenInKept
  <2>2. off[i - 1] \in Nat
    BY <1>1, <1>2, OffsetsAscend
  <2> QED BY <2>1, <2>2
<1>5. PICK lines : lines = u \union Walkers(p, o, u)[Len(p)].logs
  OBVIOUS
<1>6. PICK v \in Visitors : v = VisitorAt(p, o, u, i) /\ KnowsFunc(v, p, EnclosingFunc(p, i))
  <2>1. i # 1
    BY <1>1
  <2> QED BY <1>1, <1>2, <2>1, VisitorKnows
<1>7. PICK here : here = NotIn(p, Candidates(v, p, i, o), u)
  OBVIOUS
<1>8. p[i].results \in Seq(Exprs)
  <2>1. p[i] \in SyntaxNodes
    BY <1>1, <1>2, OpenInFile
  <2> QED BY <2>1, NodeFields
<1>9. here = NotIn(p, CandidatesAt(p, o, u, i), u) /\ InsertsAt(Made(p, o, u), i) = here
  <2>1. here = NotIn(p, CandidatesAt(p, o, u, i), u)
    BY <1>6, <1>7 DEF CandidatesAt
  <2> QED BY <1>1, <1>2, <2>1, InsertsAtReturn
<1>10. q[m].k = "return" /\ q[m].line = p[i].line /\ q[m].results = Wrapped(p[i].results, here)
  <2>1. q[m] = Piece(p, Made(p, o, u), i)[1]
    BY <1>1, <1>2, <1>3, <1>4, OpenInKept
  <2> QED BY <1>9, <2>1 DEF Kept
\* It stands where it stood.
<1>11. OpenAt(q, m) = Moved(off, OpenAt(p, i))
  BY <1>1, <1>2, <1>3, <1>4, StandsMoved DEF OpenAt
<1>12. EnclosingFunc(q, m) = off[EnclosingFunc(p, i)]
  BY <1>3, <1>11, EnclosingStays
<1>13. PICK f : f = EnclosingFunc(p, i)
  OBVIOUS
<1>14. /\ q[EnclosingFunc(q, m)].sig = p[f].sig
       /\ NamedErrors(q, EnclosingFunc(q, m)) = NamedErrors(p, f)
  BY <1>3, <1>12, <1>13, FuncMoved
<1>15. \/ v.indices = {}
       \/ q[m].line \in lines
       \/ q[m].results = << >>
            /\ \A name \in v.objs : HandsOutWrap(q, m, name) \/ name \in StaleErrors(p, i)
       \/ Len(q[m].results) = v.n /\ \A j \in v.indices : q[m].results[j] \in {"wrap", "nil"}
       \/ v.n > 1 /\ q[m].results = <<"wrap">>
  <2>1. CASE v.indices = {} \/ p[i].line \in u
    BY <1>5, <1>10, <2>1
  <2>2. CASE Skipped(v, p, i, o, u)
    <3>1. p[i].line \in Walkers(p, o, u)[Len(p)].logs
      BY <1>1, <1>2, <1>6, <2>2, SkippedLogged
    <3> QED BY <1>5, <1>10, <3>1
  <2>3. CASE v.indices # {} /\ p[i].line \notin u /\ ~ Skipped(v, p, i, o, u)
    <3>1. FitsVisitor(v, p[i].results)
      BY <1>1, <1>2, <1>6, <2>3, ReturnsFitVisitor DEF FitsVisitor
    <3>2. WrappedReturn(v, p, i, q, m, o, u)
      BY <1>7, <1>8, <1>9, <1>10 DEF WrappedReturn
    <3>3. Settled(v, q, m)
      BY <2>3, <3>1, <3>2, KeptSettled
    <3>4. ASSUME NEW name \in v.objs, name \in v.wrapped
          PROVE  HandsOutWrap(q, m, name) \/ name \in StaleErrors(p, i)
      <4>1. name # Other /\ name \in NamedErrors(p, EnclosingFunc(p, i))
        BY <1>1, <1>2, <1>6, <3>4, VisitorKnows DEF KnowsFunc
      <4>2. \A k \in off[i - 1] + 1 .. m - 1 : \A block :
              ~ Replaces(OutputOf(p, o, u), k, block, name)
        <5>1. off[i - 1] \in Nat
          BY <1>1, <1>2, OffsetsAscend
        <5> QED BY <1>4, <5>1
      <4>3. HandsOutWrap(q, m, name) \/ Stale(p, i, name)
        BY <1>3, <1>4, <1>6, <1>11, <3>4, <4>1, <4>2, MarkMoved
      <4> QED BY <4>1, <4>3 DEF StaleErrors
    <3> QED BY <3>3, <3>4 DEF Settled
  <2> QED BY <2>1, <2>2, <2>3
<1>16. Accounted(q, m, lines, StaleErrors(p, i))
  BY <1>6, <1>13, <1>14, <1>15, AccountedOf
<1> QED BY <1>3, <1>4, <1>5, <1>16

LEMMA AccountedAssigned ==
  ASSUME NEW p, IsFile(p), NEW o, NEW u, NEW off, OffsetsOf(p, o, u, off),
         NEW i \in 2 .. Len(p), p[i].k = "return", Assigned(p, o, u, i), NEW lines
  PROVE  Accounted(OutputOf(p, o, u), off[i - 1] + 2, lines, StaleErrors(p, i))
<1>1. PICK n \in Nat : n = Len(p)
  BY OpenInFile
<1>2. i \in 1 .. n /\ i - 1 \in 0 .. n
  BY <1>1
<1>3. PICK q : q = OutputOf(p, o, u)
  OBVIOUS
<1>4. PICK b \in Nat : b = off[i - 1]
  BY <1>1, <1>2, OffsetsAscend
<1>5. PICK c, m \in Nat : c = b + 1 /\ m = b + 2
  OBVIOUS
<1>6. c - 1 = b /\ m - 1 = c /\ b < m /\ c \in 1 .. m - 1
  <2>1. c = b + 1 /\ m = b + 2
    BY <1>5
  <2>2. c - 1 = b /\ m - 1 = c
    BY <2>1
  <2> QED BY <2>1, <2>2
<1>7. PICK v \in Visitors : v = VisitorAt(p, o, u, i) /\ KnowsFunc(v, p, EnclosingFunc(p, i))
  <2>1. i # 1
    BY <1>1
  <2> QED BY <1>1, <1>2, <2>1, VisitorKnows
<1>8. PICK x : /\ Piece(p, Made(p, o, u), i) = <<x, p[i]>>
               /\ x.k = "assign" /\ x.lhs \in Seq(Nat \X Nat)
               /\ ToSet(x.lhs) = v.objs \ v.wrapped
               /\ Len(x.rhs) = Len(x.lhs)
               /\ \A j \in 1 .. Len(x.lhs) : x.rhs[j] = "wrap"
  <2>1. i \in 1 .. Len(p) /\ v = VisitorAt(p, o, u, i)
    BY <1>1, <1>2, <1>7
  <2> QED BY <2>1, AssignedNodes
<1>9. /\ q[c] = x /\ q[m] = p[i]
      /\ Opened(q)[c] = Opened(q)[b] /\ Opened(q)[m] = Opened(q)[b]
  <2>1. Piece(p, Made(p, o, u), i)[1] = x
    BY <1>8
  <2>2. /\ OutputOf(p, o, u)[off[i - 1] + 1] = Piece(p, Made(p, o, u), i)[1]
        /\ OutputOf(p, o, u)[off[i - 1] + 2] = p[i]
        /\ Opened(OutputOf(p, o, u))[off[i - 1] + 1] = Opened(OutputOf(p, o, u))[off[i - 1]]
        /\ Opened(OutputOf(p, o, u))[off[i - 1] + 2] = Opened(OutputOf(p, o, u))[off[i - 1]]
    BY <1>1, <1>2, OpenInAssigned
  <2> QED BY <1>3, <1>4, <1>5, <2>1, <2>2
\* Both stand where the return stood.
<1>10. Opened(q)[b] = Moved(off, OpenAt(p, i))
  BY <1>1, <1>2, <1>3, <1>4, StandsMoved
<1>11. OpenAt(q, c) = Moved(off, OpenAt(p, i)) /\ OpenAt(q, m) = Moved(off, OpenAt(p, i))
  BY <1>6, <1>9, <1>10 DEF OpenAt
<1>12. EnclosingFunc(q, m) = off[EnclosingFunc(p, i)]
  BY <1>3, <1>11, EnclosingStays
<1>13. PICK f : f = EnclosingFunc(p, i)
  OBVIOUS
<1>14. /\ q[EnclosingFunc(q, m)].sig = p[f].sig
       /\ NamedErrors(q, EnclosingFunc(q, m)) = NamedErrors(p, f)
  BY <1>3, <1>12, <1>13, FuncMoved
<1>15. ASSUME NEW name \in v.objs
       PROVE  HandsOutWrap(q, m, name) \/ name \in StaleErrors(p, i)
  <2>1. CASE name \in v.wrapped
    <3>1. name \in VisitorAt(p, o, u, i).wrapped
      BY <1>7, <2>1
    <3>2. name # Other /\ name \in NamedErrors(p, EnclosingFunc(p, i))
      BY <1>1, <1>2, <1>7, <1>15, VisitorKnows DEF KnowsFunc
\* What is inserted wraps all that it assigns.
    <3>3. ASSUME NEW k \in off[i - 1] + 1 .. m - 1, NEW block
          PROVE  ~ Replaces(OutputOf(p, o, u), k, block, name)
      <4>1. k = c
        <5>1. k \in b + 1 .. m - 1
          BY <1>4
        <5> QED BY <1>5, <5>1
      <4>2. q[k] = x
        BY <1>9, <4>1
      <4>3. name \in ToSet(x.lhs) => SetsWrapped(x, name)
        BY <1>8 DEF SetsWrapped
      <4> QED BY <1>3, <1>8, <4>2, <4>3 DEF Replaces
    <3>4. HandsOutWrap(q, m, name) \/ Stale(p, i, name)
      BY <1>3, <1>4, <1>6, <1>11, <3>1, <3>2, <3>3, MarkMoved
    <3> QED BY <3>2, <3>4 DEF StaleErrors
  <2>2. CASE name \notin v.wrapped
    <3>1. PICK l \in Nat : l = Len(x.lhs) /\ DOMAIN x.lhs = 1 .. l
      BY <1>8, LenProperties
    <3>2. PICK j \in 1 .. l : x.lhs[j] = name
      BY <1>8, <1>15, <2>2, <3>1 DEF ToSet
    <3>3. SetsWrapped(q[c], name) /\ q[c].k = "assign"
      <4>1. name \in ToSet(x.lhs)
        BY <3>1, <3>2 DEF ToSet
      <4> QED BY <1>8, <1>9, <4>1 DEF SetsWrapped
    <3>4. InnermostBlock(q, c) \in ToSet(OpenAt(q, m))
      <4>1. PICK s \in Seq(0 .. n) : s = OpenAt(p, i) /\ s # << >>
        <5>1. PICK s \in Seq(0 .. n) : s = OpenAt(p, i)
          BY <1>1, <1>2, OpenNodes DEF OpenAt
        <5> QED BY <5>1 DEF IsFile
      <4>2. off \in [0 .. n -> Nat] /\ 0 \in 0 .. n
        BY <1>1 DEF OffsetsOf
      <4>3. PICK t \in Seq(Nat) : t = Moved(off, s) /\ Len(t) = Len(s)
        <5>1. Moved(off, s) \in Seq(Nat) /\ Len(Moved(off, s)) = Len(s)
          BY <4>1, <4>2, MovedOpen
        <5> QED BY <5>1
      <4>4. Len(t) \in 1 .. Len(t) /\ DOMAIN t = 1 .. Len(t)
        BY <4>1, <4>3, EmptySeq, LenProperties
      <4>5. OpenAt(q, m) = t /\ InnermostBlock(q, c) = t[Len(t)]
        BY <1>11, <4>1, <4>3 DEF InnermostBlock, Last
      <4> QED BY <4>4, <4>5 DEF ToSet
    <3>5. Reaches(q, c, m, name)
      <4>1. c + 1 .. m - 1 = {}
        BY <1>5
      <4> QED BY <3>3, <4>1 DEF Reaches
    <3> QED BY <1>6, <3>3, <3>4, <3>5 DEF HandsOutWrap
  <2> QED BY <2>1, <2>2
<1>16. q[m].results = << >>
  BY <1>9 DEF Assigned
<1>17. Accounted(q, m, lines, StaleErrors(p, i))
  BY <1>7, <1>13, <1>14, <1>15, <1>16, AccountedOf
<1> QED BY <1>3, <1>4, <1>5, <1>17

LEMMA AccountedInBlock ==
  ASSUME NEW p, IsFile(p), NEW o, NEW u, NEW off, OffsetsOf(p, o, u, off),
         NEW i \in 2 .. Len(p), p[i].k = "return", InBlock(p, o, u, i), NEW lines
  PROVE  Accounted(OutputOf(p, o, u), off[i - 1] + 3, lines, StaleErrors(p, i))
<1>1. PICK n \in Nat : n = Len(p)
  BY OpenInFile
<1>2. i \in 1 .. n /\ i - 1 \in 0 .. n
  BY <1>1
<1>3. PICK q : q = OutputOf(p, o, u)
  OBVIOUS
<1>4. PICK b \in Nat : b = off[i - 1]
  BY <1>1, <1>2, OffsetsAscend
<1>5. PICK c, d, m \in Nat : c = b + 1 /\ d = b + 2 /\ m = b + 3
  OBVIOUS
<1>6. m - 1 = d
  <2>1. \A a \in Nat : a + 3 - 1 = a + 2
    OBVIOUS
  <2> QED BY <1>5, <2>1
<1>7. PICK v \in Visitors : v = VisitorAt(p, o, u, i) /\ KnowsFunc(v, p, EnclosingFunc(p, i))
  <2>1. i # 1
    BY <1>1
  <2> QED BY <1>1, <1>2, <2>1, VisitorKnows
<1>8. PICK x, y, z, e : /\ Piece(p, Made(p, o, u), i) = <<x, y, z, e>>
                        /\ x.k = "block"
                        /\ Len(z.results) = v.n /\ z.results[v.n] = "wrap"
  BY <1>1, <1>2, <1>7, InBlockNodes
<1>9. Opened(q)[b] = Moved(off, OpenAt(p, i))
  BY <1>1, <1>2, <1>3, <1>4, StandsMoved
<1>10. Opened(q)[b] \in Seq(Nat)
  <2>1. PICK s \in Seq(0 .. n) : s = OpenAt(p, i)
    BY <1>1, <1>2, OpenNodes DEF OpenAt
  <2>2. off \in [0 .. n -> Nat]
    BY <1>1 DEF OffsetsOf
  <2>3. Moved(off, s) \in Seq(Nat)
    BY <1>2, <2>2, MovedOpen
  <2> QED BY <1>9, <2>1, <2>3
<1>11. q[c] = x /\ q[m] = z /\ Opened(q)[d] = Append(Opened(q)[b], c)
  <2>1. Opened(OutputOf(p, o, u))[off[i - 1]] \in Seq(Nat)
    BY <1>3, <1>4, <1>10
  <2>2. /\ \A k \in 1 .. 4 :
             OutputOf(p, o, u)[off[i - 1] + k] = Piece(p, Made(p, o, u), i)[k]
        /\ \A k \in 1 .. 3 : Opened(OutputOf(p, o, u))[off[i - 1] + k]
                               = Append(Opened(OutputOf(p, o, u))[off[i - 1]], off[i - 1] + 1)
    <3>1. i \in 1 .. Len(p)
      BY <1>1, <1>2
    <3>2. BlockStands(p, o, u, off, i)
      BY <2>1, <3>1, OpenInBlock, Zenon
    <3> QED BY <3>2 DEF BlockStands
  <2>3. Piece(p, Made(p, o, u), i)[1] = x /\ Piece(p, Made(p, o, u), i)[3] = z
    BY <1>8
  <2>4. 1 \in 1 .. 4 /\ 3 \in 1 .. 4 /\ 2 \in 1 .. 3
    OBVIOUS
  <2> QED BY <1>3, <1>4, <1>5, <2>2, <2>3, <2>4
\* The block around the return is no function.
<1>12. ToSet(OpenAt(q, m)) = ToSet(Moved(off, OpenAt(p, i))) \union {c}
  <2>1. PICK t \in Seq(Nat) : t = Opened(q)[b]
    BY <1>10
  <2>2. PICK k \in Nat : k = Len(t) /\ DOMAIN t = 1 .. k
    BY LenProperties
  <2>3. PICK a : a = Append(t, c)
    OBVIOUS
  <2>4. /\ a \in Seq(Nat) /\ Len(a) = k + 1 /\ \A j \in 1 .. k : a[j] = t[j]
        /\ a[k + 1] = c
    BY <1>5, <2>2, <2>3, AppendProperties
  <2>5. DOMAIN a = 1 .. k + 1
    BY <2>4, LenProperties
  <2>6. ToSet(a) = ToSet(t) \union {c}
    <3>1. ToSet(a) = {a[j] : j \in 1 .. k + 1} /\ ToSet(t) = {t[j] : j \in 1 .. k}
      BY <2>2, <2>5 DEF ToSet
    <3>2. \A j : j \in 1 .. k + 1 <=> j \in 1 .. k \/ j = k + 1
      OBVIOUS
    <3>3. {a[j] : j \in 1 .. k + 1} = {a[j] : j \in 1 .. k} \union {a[k + 1]}
      BY <3>2
    <3>4. {a[j] : j \in 1 .. k} = {t[j] : j \in 1 .. k}
      BY <2>4
    <3> QED BY <2>4, <3>1, <3>3, <3>4
  <2>7. OpenAt(q, m) = a
    BY <1>6, <1>11, <2>1, <2>3 DEF OpenAt
  <2> QED BY <1>9, <2>1, <2>6, <2>7
<1>13. EnclosingFunc(q, m) = off[EnclosingFunc(p, i)]
  <2>1. ~ IsFunc(OutputOf(p, o, u)[c])
    BY <1>3, <1>8, <1>11 DEF IsFunc
  <2>2. ToSet(OpenAt(OutputOf(p, o, u), m)) = ToSet(Moved(off, OpenAt(p, i))) \union {c}
    BY <1>3, <1>12
  <2>3. EnclosingFunc(OutputOf(p, o, u), m) = off[EnclosingFunc(p, i)]
    BY <2>1, <2>2, EnclosingOfBlock
  <2> QED BY <1>3, <2>3
<1>14. PICK f : f = EnclosingFunc(p, i)
  OBVIOUS
<1>15. /\ q[EnclosingFunc(q, m)].sig = p[f].sig
       /\ NamedErrors(q, EnclosingFunc(q, m)) = NamedErrors(p, f)
  BY <1>3, <1>13, <1>14, FuncMoved
<1>16. Len(q[m].results) = v.n /\ \A j \in v.indices : q[m].results[j] \in {"wrap", "nil"}
  <2>1. v.indices = {v.n}
    BY <1>7 DEF InBlock
  <2> QED BY <1>8, <1>11, <2>1
<1>17. Accounted(q, m, lines, StaleErrors(p, i))
  BY <1>7, <1>14, <1>15, <1>16, AccountedOf
<1> QED BY <1>3, <1>4, <1>5, <1>17

\* The returns of the output: those of the pieces.
LEMMA OutputAccounted ==
  ASSUME NEW p, IsFile(p), ReturnsFit(p), NEW o, NEW u,
         NEW m \in 1 .. Len(OutputOf(p, o, u)), OutputOf(p, o, u)[m].k = "return"
  PROVE  Accounted(OutputOf(p, o, u), m, u \union Walkers(p, o, u)[Len(p)].logs,
                   StaleErrors(p, OutputOf(p, o, u)[m].line))
<1>1. PICK off : OffsetsOf(p, o, u, off)
  BY OutputParts
<1>2. PICK i \in 1 .. Len(p) :
        \E k \in 1 .. Len(Piece(p, Made(p, o, u), i)) : m = off[i - 1] + k
  BY <1>1 DEF OffsetsOf
<1>3. PICK k \in 1 .. Len(Piece(p, Made(p, o, u), i)) : m = off[i - 1] + k
  BY <1>2
<1>4. OutputOf(p, o, u)[m] = Piece(p, Made(p, o, u), i)[k] /\ OutputOf(p, o, u)[m].line = i
  <2>1. OutputOf(p, o, u)[m] = Piece(p, Made(p, o, u), i)[k]
    BY <1>1, <1>3, PieceAt
  <2>2. Piece(p, Made(p, o, u), i)[k].line = p[i].line /\ p[i].line = i
    BY <1>3, PieceTyped, OpenInFile
  <2> QED BY <2>1, <2>2
<1>5. PICK x : x = Piece(p, Made(p, o, u), i)
  OBVIOUS
<1>6. k \in 1 .. Len(x) /\ x[k].k = "return"
  BY <1>3, <1>4, <1>5
<1>7. CASE Kept(p, Made(p, o, u), i)
  <2>1. PICK a : x = <<a>>
    BY <1>5, <1>7 DEF Kept
  <2>2. Len(x) = 1 /\ k = 1
    BY <1>6, <2>1
  <2>3. p[i].k = "return"
    BY <1>5, <1>6, <1>7, <2>2 DEF Kept
  <2>4. i \in 2 .. Len(p)
    <3>1. i # 1
      BY <2>3 DEF IsFile
    <3> QED BY <3>1, OpenInFile
  <2>5. CASE \A ins \in NotIn(p, CandidatesAt(p, o, u, i), u) : ins.k = "wrap"
    <3>1. off[i] = off[i - 1] + 1
      BY <1>1, <1>7, OpenInKept
    <3>2. off[i] = m
      BY <1>3, <2>2, <3>1
    <3>3. Accounted(OutputOf(p, o, u), off[i], u \union Walkers(p, o, u)[Len(p)].logs,
                    StaleErrors(p, i))
      BY <1>1, <1>7, <2>3, <2>4, <2>5, AccountedKept
    <3> QED BY <1>4, <3>2, <3>3
  <2>6. CASE Assigned(p, o, u, i)
    <3>1. PICK y, z : x = <<y, z>>
      BY <1>5, <2>3, <2>6, AssignedNodes
    <3>2. PICK l : l = Len(x) /\ l = 2
      BY <3>1
    <3>3. l = 1
      BY <2>2, <3>2
    <3> QED BY <3>2, <3>3
  <2>7. CASE InBlock(p, o, u, i)
    <3>1. PICK y, z, r, e : x = <<y, z, r, e>>
      BY <1>5, <2>3, <2>7, InBlockNodes
    <3>2. PICK l : l = Len(x) /\ l = 4
      BY <3>1
    <3>3. l = 1
      BY <2>2, <3>2
    <3> QED BY <3>2, <3>3
  <2> QED BY <2>3, <2>5, <2>6, <2>7, ReturnPiece
<1>8. CASE ~ Kept(p, Made(p, o, u), i)
  <2>1. p[i].k = "return"
    BY <1>8, KeptNode
  <2>2. i \in 2 .. Len(p)
    <3>1. i # 1
      BY <2>1 DEF IsFile
    <3> QED BY <3>1, OpenInFile
  <2>3. CASE Assigned(p, o, u, i)
    <3>1. PICK y : x = <<y, p[i]>> /\ y.k = "assign"
      BY <1>5, <2>1, <2>3, AssignedNodes
    <3>2. k = 2
      <4>1. Len(x) = 2 /\ x[1] = y
        BY <3>1
      <4>2. k = 1 \/ k = 2
        BY <1>6, <4>1
      <4> QED BY <1>6, <3>1, <4>1, <4>2
    <3>3. Accounted(OutputOf(p, o, u), off[i - 1] + 2, u \union Walkers(p, o, u)[Len(p)].logs,
                    StaleErrors(p, i))
      BY <1>1, <2>1, <2>2, <2>3, AccountedAssigned
    <3> QED BY <1>3, <1>4, <3>2, <3>3
  <2>4. CASE InBlock(p, o, u, i)
    <3>1. PICK y, z, r, e : /\ x = <<y, z, r, e>>
                            /\ y.k = "block" /\ z.k = "assign" /\ e.k = "end"
      BY <1>5, <2>1, <2>4, InBlockNodes
    <3>2. k = 3
      <4>1. Len(x) = 4 /\ x[1] = y /\ x[2] = z /\ x[4] = e
        BY <3>1
      <4>2. k = 1 \/ k = 2 \/ k = 3 \/ k = 4
        BY <1>6, <4>1
      <4> QED BY <1>6, <3>1, <4>1, <4>2
    <3>3. Accounted(OutputOf(p, o, u), off[i - 1] + 3, u \union Walkers(p, o, u)[Len(p)].logs,
                    StaleErrors(p, i))
      BY <1>1, <2>1, <2>2, <2>4, AccountedInBlock
    <3> QED BY <1>3, <1>4, <3>2, <3>3
  <2> QED BY <1>8, <2>1, <2>3, <2>4, ReturnPiece
<1> QED BY <1>7, <1>8

(***************************************************************************)
(* No error leaves a traced function unnoticed, whatever the file: each    *)
(* return the tool writes hands out errors that are wrapped or nil, or its *)
(* line is opted out, or the tool logged that it skipped it, or it is a    *)
(* naked return and each error it hands out unwrapped is one that the      *)
(* author had assigned an errtrace call in its block and then replaced     *)
(* (Stale in the file as written), where the walker is known to be wrong.  *)
(***************************************************************************)
THEOREM NoneMissed == Spec => []NothingMissed
<1>1. FileInv => NothingMissed
  <2> SUFFICES ASSUME FileInv, phase # "write",
                      NEW m \in Nodes(output), output[m].k = "return"
               PROVE  Accounted(output, m, optouts \union walked.logs,
                                StaleErrors(prog, output[m].line))
    BY DEF NothingMissed
  <2>1. PICK p, o, u : p = prog /\ o = opts /\ u = optouts
    OBVIOUS
  <2>2. IsFile(p) /\ ReturnsFit(p)
    BY <2>1 DEF FileInv
  <2>3. PICK n \in Nat : n = Len(p)
    BY <2>2, OpenInFile
  <2>4. output = OutputOf(p, o, u)
    BY <2>1 DEF FileInv, Walk, Made, OutputOf
  <2>5. walked.logs = Walkers(p, o, u)[Len(p)].logs
    BY <2>1 DEF FileInv, Walk
  <2>6. PICK x : x = m
    OBVIOUS
  <2>7. x \in 1 .. Len(OutputOf(p, o, u)) /\ OutputOf(p, o, u)[x].k = "return"
    BY <2>4, <2>6 DEF Nodes
  <2>8. Accounted(OutputOf(p, o, u), x, u \union Walkers(p, o, u)[Len(p)].logs,
                  StaleErrors(p, OutputOf(p, o, u)[x].line))
    BY <2>2, <2>7, OutputAccounted
  <2> QED BY <2>1, <2>4, <2>5, <2>6, <2>8
<1> QED BY <1>1, FileHolds, PTL
=============================================================================
