-------------------------- MODULE TreeWriterProofs --------------------------
(***************************************************************************)
(* What treeWriter draws, for every set of trees and messages of every     *)
(* length: each path is read intact, the nodes come in depth-first order   *)
(* and the pipes of one node connect to those of the node before it.       *)
(***************************************************************************)
EXTENDS TreeWriter, FiniteSetTheorems, SequenceTheorems, TLAPS

Slices == [array : ArrayIds \union {None}, len : Nat]
Activations == [node : Seq(Nat), path : Slices, i : Nat]
Lines == Seq({"+", "|", " "})

TypeInv ==
  /\ shape \in Trees
  /\ calls \in Seq(Activations)
  /\ arrays \in [ArrayIds -> Seq(Nat)]
  /\ written \in Seq(shape)
  /\ above \in Lines
  /\ block \in Seq(Lines)

\* The stack is the path to the current node; each call is at the child it
\* has called for.
StackInv ==
  /\ \A k \in 1 .. Len(calls) :
       /\ calls[k].node \in shape
       /\ Len(calls[k].node) = k - 1
       /\ calls[k].path.len = k - 1
  /\ \A k \in 1 .. Len(calls) - 1 :
       /\ calls[k].i > 0
       /\ calls[k + 1].node = Append(calls[k].node, calls[k].i - 1)

\* Every slice lies within its array.
SlicesInv ==
  \A k \in 1 .. Len(calls) :
    IF calls[k].path.array = None
    THEN calls[k].path.len = 0
    ELSE calls[k].path.len <= Len(arrays[calls[k].path.array])

\* Written is exactly what lies left of the next child.
WrittenInv ==
  \A q \in shape :
    q \in ToSet(written) <=> (calls = << >> \/ LeftOf(q, NextChild))

OrderInv ==
  \A i, j \in 1 .. Len(written) : i < j => Below(written[i], written[j])

\* w is the earlier sibling of x or of its nearest ancestor that has one.
NextBefore(w, x) ==
  \E d \in 1 .. Len(x) :
    /\ Len(w) = d
    /\ \A k \in 1 .. d - 1 : w[k] = x[k]
    /\ x[d] > 0 /\ w[d] = x[d] - 1
    /\ \A k \in d + 1 .. Len(x) : x[k] = 0

\* The last line drawn and the node it was drawn for.
LastInv ==
  written # << >> /\ calls # << >> =>
    /\ NextBefore(Last(written), NextChild)
    /\ block # << >>
    /\ Last(block) = Pipes(Last(written), "|")

ErrorInv == e \in BOOLEAN /\ failed \in BOOLEAN /\ (e <=> failed)

DrawInv ==
  /\ TypeInv
  /\ StackInv
  /\ SlicesInv
  /\ PathsIntact
  /\ WrittenInv
  /\ OrderInv
  /\ LastInv
  /\ PipesConnected
  /\ ErrorInv
----------------------------------------------------------------------------
(***************************************************************************)
(* Paths: prefixes, and what lies left of a path.                          *)
(***************************************************************************)
LEMMA SameElements ==
  ASSUME NEW p \in Seq(Nat), NEW q \in Seq(Nat), Len(p) = Len(q),
         \A k \in 1 .. Len(p) : p[k] = q[k]
  PROVE  p = q
BY SeqEqual

LEMMA AppendedPath ==
  ASSUME NEW p \in Seq(Nat), NEW n \in Nat
  PROVE  /\ Append(p, n) \in Seq(Nat)
         /\ Len(Append(p, n)) = Len(p) + 1
         /\ \A k \in 1 .. Len(p) : Append(p, n)[k] = p[k]
         /\ Append(p, n)[Len(p) + 1] = n
BY AppendProperties

LEMMA CutPath ==
  ASSUME NEW p \in Seq(Nat), NEW n \in 0 .. Len(p)
  PROVE  /\ SubSeq(p, 1, n) \in Seq(Nat)
         /\ Len(SubSeq(p, 1, n)) = n
         /\ \A k \in 1 .. n : SubSeq(p, 1, n)[k] = p[k]
<1>1. \A k \in 1 .. n : p[k] \in Nat
  BY ElementOfSeq
<1> QED BY <1>1, SubSeqProperties

LEMMA PrefixElements ==
  ASSUME NEW p \in Seq(Nat), NEW q \in Seq(Nat)
  PROVE  IsPrefix(p, q) <=> Len(p) <= Len(q) /\ \A k \in 1 .. Len(p) : p[k] = q[k]
<1> SUFFICES ASSUME Len(p) <= Len(q)
             PROVE  SubSeq(p, 1, Len(p)) = SubSeq(q, 1, Len(p))
                      <=> \A k \in 1 .. Len(p) : p[k] = q[k]
  BY DEF IsPrefix
<1>1. Len(p) \in 0 .. Len(p) /\ Len(p) \in 0 .. Len(q)
  BY LenProperties
<1>2. /\ SubSeq(p, 1, Len(p)) \in Seq(Nat) /\ Len(SubSeq(p, 1, Len(p))) = Len(p)
      /\ \A k \in 1 .. Len(p) : SubSeq(p, 1, Len(p))[k] = p[k]
  BY <1>1, CutPath
<1>3. /\ SubSeq(q, 1, Len(p)) \in Seq(Nat) /\ Len(SubSeq(q, 1, Len(p))) = Len(p)
      /\ \A k \in 1 .. Len(p) : SubSeq(q, 1, Len(p))[k] = q[k]
  BY <1>1, CutPath
<1>4. ASSUME SubSeq(p, 1, Len(p)) = SubSeq(q, 1, Len(p)), NEW k \in 1 .. Len(p)
      PROVE  p[k] = q[k]
  BY <1>2, <1>3, <1>4
<1>5. ASSUME \A k \in 1 .. Len(p) : p[k] = q[k]
      PROVE  SubSeq(p, 1, Len(p)) = SubSeq(q, 1, Len(p))
  BY <1>2, <1>3, <1>5, SameElements
<1> QED BY <1>4, <1>5

\* Below node p and left of its i-th child.
LEMMA LeftOfChild ==
  ASSUME NEW p \in Seq(Nat), NEW q \in Seq(Nat), NEW n \in Nat
  PROVE  LeftOf(q, Append(p, n)) <=>
           \/ LeftOf(q, p)
           \/ /\ IsPrefix(p, q)
              /\ Len(p) < Len(q)
              /\ q[Len(p) + 1] < n
<1> DEFINE x == Append(p, n)
<1>1. /\ x \in Seq(Nat) /\ Len(x) = Len(p) + 1
      /\ \A k \in 1 .. Len(p) : x[k] = p[k]
      /\ x[Len(p) + 1] = n
  BY AppendedPath
<1>2. Len(p) \in Nat /\ Len(q) \in Nat
  BY LenProperties
<1> HIDE DEF x
<1>3. ASSUME LeftOf(q, x), ~ LeftOf(q, p)
      PROVE  IsPrefix(p, q) /\ Len(p) < Len(q) /\ q[Len(p) + 1] < n
  <2>1. PICK d \in 1 .. Len(q) :
          d <= Len(x) /\ (\A k \in 1 .. d - 1 : q[k] = x[k]) /\ q[d] < x[d]
    BY <1>3 DEF LeftOf
  <2>2. d = Len(p) + 1
    <3> SUFFICES ASSUME d <= Len(p) PROVE FALSE
      BY <1>1, <1>2, <2>1
    <3>1. d \in 1 .. Len(p) /\ \A k \in 1 .. d - 1 : k \in 1 .. Len(p)
      BY <1>2, <2>1
    <3>2. x[d] = p[d] /\ \A k \in 1 .. d - 1 : x[k] = p[k]
      BY <1>1, <3>1
    <3>3. /\ d \in 1 .. Len(q) /\ d <= Len(p)
          /\ \A k \in 1 .. d - 1 : q[k] = p[k]
          /\ q[d] < p[d]
      BY <2>1, <3>1, <3>2
    <3>4. LeftOf(q, p)
      BY <3>3 DEF LeftOf
    <3> QED BY <1>3, <3>4
  <2>3. \A k \in 1 .. Len(p) : p[k] = q[k]
    BY <1>1, <1>2, <2>1, <2>2
  <2>4. Len(p) < Len(q) /\ q[Len(p) + 1] < n
    BY <1>1, <1>2, <2>1, <2>2
  <2>5. IsPrefix(p, q)
    BY <1>2, <2>3, <2>4, PrefixElements
  <2> QED BY <2>4, <2>5
<1>4. ASSUME LeftOf(q, p)
      PROVE  LeftOf(q, x)
  <2>1. PICK d \in 1 .. Len(q) :
          d <= Len(p) /\ (\A k \in 1 .. d - 1 : q[k] = p[k]) /\ q[d] < p[d]
    BY <1>4 DEF LeftOf
  <2>2. d <= Len(x) /\ x[d] = p[d] /\ \A k \in 1 .. d - 1 : x[k] = p[k]
    BY <1>1, <1>2, <2>1
  <2> QED BY <2>1, <2>2 DEF LeftOf
<1>5. ASSUME IsPrefix(p, q), Len(p) < Len(q), q[Len(p) + 1] < n
      PROVE  LeftOf(q, x)
  <2>1. \A k \in 1 .. Len(p) : p[k] = q[k]
    BY <1>5, PrefixElements
  <2>2. Len(p) + 1 \in 1 .. Len(q) /\ Len(p) + 1 <= Len(x)
    BY <1>1, <1>2, <1>5
  <2>3. \A k \in 1 .. (Len(p) + 1) - 1 : q[k] = x[k]
    BY <1>1, <1>2, <2>1
  <2> QED BY <1>1, <1>5, <2>2, <2>3 DEF LeftOf
<1> QED BY <1>3, <1>4, <1>5 DEF x

\* A call that starts has written nothing yet.
LEMMA LeftOfFirstChild ==
  ASSUME NEW p \in Seq(Nat), NEW q \in Seq(Nat)
  PROVE  LeftOf(q, Append(p, 0)) <=> LeftOf(q, p)
<1>1. Len(p) < Len(q) => q[Len(p) + 1] \in Nat
  BY ElementOfSeq, LenProperties
<1> QED BY <1>1, LeftOfChild

\* What lies left of the next sibling: this node and what is below it, too.
LEMMA LeftOfSibling ==
  ASSUME NEW p \in Seq(Nat), NEW q \in Seq(Nat), NEW n \in Nat
  PROVE  LeftOf(q, Append(p, n + 1)) <=>
           LeftOf(q, Append(p, n)) \/ IsPrefix(Append(p, n), q)
<1>1. Len(p) \in Nat /\ Len(q) \in Nat
  BY LenProperties
<1>2. Len(p) < Len(q) => q[Len(p) + 1] \in Nat
  BY <1>1, ElementOfSeq
<1>3. IsPrefix(Append(p, n), q) <=>
        IsPrefix(p, q) /\ Len(p) < Len(q) /\ q[Len(p) + 1] = n
  <2> DEFINE x == Append(p, n)
  <2>1. /\ x \in Seq(Nat) /\ Len(x) = Len(p) + 1
        /\ \A k \in 1 .. Len(p) : x[k] = p[k]
        /\ x[Len(p) + 1] = n
    BY AppendedPath
  <2> HIDE DEF x
  <2>2. /\ IsPrefix(x, q) <=> Len(x) <= Len(q) /\ \A k \in 1 .. Len(x) : x[k] = q[k]
        /\ IsPrefix(p, q) <=> Len(p) <= Len(q) /\ \A k \in 1 .. Len(p) : p[k] = q[k]
    BY <2>1, PrefixElements
  <2>3. (\A k \in 1 .. Len(x) : x[k] = q[k]) <=>
          ((\A k \in 1 .. Len(p) : p[k] = q[k]) /\ q[Len(p) + 1] = n)
    <3>1. \A k \in 1 .. Len(x) : k \in 1 .. Len(p) \/ k = Len(p) + 1
      BY <1>1, <2>1
    <3>2. Len(p) + 1 \in 1 .. Len(x) /\ \A k \in 1 .. Len(p) : k \in 1 .. Len(x)
      BY <1>1, <2>1
    <3>3. ASSUME \A k \in 1 .. Len(x) : x[k] = q[k]
          PROVE  (\A k \in 1 .. Len(p) : p[k] = q[k]) /\ q[Len(p) + 1] = n
      <4>1. \A k \in 1 .. Len(p) : x[k] = p[k]
        BY <2>1
      <4>2. x[Len(p) + 1] = n
        BY <2>1
      <4>3. \A k \in 1 .. Len(p) : x[k] = q[k]
        BY <3>2, <3>3
      <4>4. x[Len(p) + 1] = q[Len(p) + 1]
        BY <3>2, <3>3
      <4> QED BY <4>1, <4>2, <4>3, <4>4, Zenon
    <3>4. ASSUME \A k \in 1 .. Len(p) : p[k] = q[k], q[Len(p) + 1] = n, NEW k \in 1 .. Len(x)
          PROVE  x[k] = q[k]
      <4>1. CASE k \in 1 .. Len(p)
        BY <2>1, <3>4, <4>1, Zenon
      <4>2. CASE k = Len(p) + 1
        BY <2>1, <3>4, <4>2, Zenon
      <4> QED BY <3>1, <4>1, <4>2, Zenon
    <3> QED BY <3>3, <3>4
  <2>4. Len(x) <= Len(q) <=> Len(p) < Len(q)
    BY <1>1, <2>1
  <2>5. Len(p) < Len(q) => Len(p) <= Len(q)
    BY <1>1
  <2>6. IsPrefix(x, q) <=> IsPrefix(p, q) /\ Len(p) < Len(q) /\ q[Len(p) + 1] = n
    BY <2>2, <2>3, <2>4, <2>5, Zenon
  <2> QED BY <2>6 DEF x
<1>4. LeftOf(q, Append(p, n + 1)) <=>
        LeftOf(q, p) \/ (IsPrefix(p, q) /\ Len(p) < Len(q) /\ q[Len(p) + 1] < n + 1)
  BY LeftOfChild
<1>5. LeftOf(q, Append(p, n)) <=>
        LeftOf(q, p) \/ (IsPrefix(p, q) /\ Len(p) < Len(q) /\ q[Len(p) + 1] < n)
  BY LeftOfChild
<1> QED BY <1>2, <1>3, <1>4, <1>5

\* When a node has no n-th child, all that is below it lies left of that.
LEMMA NoMoreChildren ==
  ASSUME NEW t \in Trees, NEW p \in t, NEW q \in t, NEW n \in Nat,
         Append(p, n) \notin t, IsPrefix(p, q), p # q
  PROVE  LeftOf(q, Append(p, n))
<1>1. p \in Seq(Nat) /\ q \in Seq(Nat)
  BY TreesAssumption
<1>2. Len(p) \in Nat /\ Len(q) \in Nat
  BY <1>1, LenProperties
<1>3. Len(p) <= Len(q) /\ \A k \in 1 .. Len(p) : p[k] = q[k]
  BY <1>1, PrefixElements
<1>4. Len(p) < Len(q)
  BY <1>1, <1>2, <1>3, SameElements
<1>5. Len(p) + 1 \in 1 .. Len(q)
  BY <1>2, <1>4
<1>6. q[Len(p) + 1] \in Nat
  BY <1>1, <1>5, ElementOfSeq
<1>7. SubSeq(q, 1, (Len(p) + 1) - 1) = p
  <2>1. Len(p) \in 0 .. Len(q) /\ (Len(p) + 1) - 1 = Len(p)
    BY <1>2, <1>4
  <2>2. /\ SubSeq(q, 1, Len(p)) \in Seq(Nat) /\ Len(SubSeq(q, 1, Len(p))) = Len(p)
        /\ \A k \in 1 .. Len(p) : SubSeq(q, 1, Len(p))[k] = q[k]
    BY <1>1, <2>1, CutPath
  <2> QED BY <1>1, <1>3, <2>1, <2>2, SameElements
<1>8. \A j \in 0 .. q[Len(p) + 1] : Append(p, j) \in t
  BY <1>5, <1>7, TreesAssumption
<1>9. q[Len(p) + 1] < n
  BY <1>6, <1>8
<1> QED BY <1>1, <1>4, <1>9, LeftOfChild
----------------------------------------------------------------------------
(***************************************************************************)
(* Path slices.                                                            *)
(***************************************************************************)
LEMMA CurrentCall ==
  ASSUME TypeInv, StackInv, calls # << >>
  PROVE  /\ Len(calls) \in Nat \ {0}
         /\ cur = calls[Len(calls)]
         /\ cur \in Activations
         /\ cur.node \in shape
         /\ cur.node \in Seq(Nat)
         /\ Len(cur.node) = Len(calls) - 1
         /\ cur.path.len = Len(calls) - 1
         /\ NextChild \in Seq(Nat)
         /\ Len(NextChild) = Len(calls)
<1>1. Len(calls) \in Nat \ {0}
  BY EmptySeq, LenProperties DEF TypeInv
<1>2. cur = calls[Len(calls)] /\ cur \in Activations
  BY <1>1, ElementOfSeq DEF TypeInv, cur
<1>3. /\ cur.node \in shape
      /\ Len(cur.node) = Len(calls) - 1
      /\ cur.path.len = Len(calls) - 1
  BY <1>1, <1>2 DEF StackInv
<1>4. cur.node \in Seq(Nat) /\ cur.i \in Nat
  BY <1>2 DEF Activations
<1>5. NextChild \in Seq(Nat) /\ Len(NextChild) = Len(calls)
  BY <1>1, <1>3, <1>4, AppendedPath DEF NextChild
<1> QED BY <1>1, <1>2, <1>3, <1>4, <1>5

\* An array for each level is enough: one is free when append needs one.
LEMMA ArrayFree ==
  ASSUME TypeInv, Len(calls) < MaxDepth
  PROVE  FreshArray \in ArrayIds /\ FreshArray \notin Used
<1>1. Len(calls) \in Nat
  <2>1. calls \in Seq(Activations)
    BY DEF TypeInv
  <2> QED BY <2>1, LenProperties
<1>2. IsFiniteSet(1 .. Len(calls)) /\ Cardinality(1 .. Len(calls)) = Len(calls)
  <2>1. PICK n \in Nat : n = Len(calls)
    BY <1>1
  <2>2. IsFiniteSet(1 .. n) /\ Cardinality(1 .. n) = IF 1 > n THEN 0 ELSE n - 1 + 1
    BY FS_Interval
  <2>3. (IF 1 > n THEN 0 ELSE n - 1 + 1) = n
    OBVIOUS
  <2> QED BY <2>1, <2>2, <2>3
<1>3. IsFiniteSet(Used) /\ Cardinality(Used) <= Len(calls)
  <2> DEFINE f == [k \in 1 .. Len(calls) |-> calls[k].path.array]
  <2>1. f \in Surjection(1 .. Len(calls), Used)
    BY DEF Used, Surjection
  <2> QED BY <1>2, <2>1, FS_Surjection
<1>4. Cardinality(ArrayIds) = MaxDepth
  BY BoundsAssumption, FS_Interval DEF ArrayIds
<1>5. \E a \in ArrayIds : a \notin Used
  <2> SUFFICES ASSUME ArrayIds \subseteq Used PROVE FALSE
    OBVIOUS
  <2>1. Cardinality(ArrayIds) <= Cardinality(Used)
    BY <1>3, FS_Subset
  <2>2. Cardinality(Used) \in Nat
    BY <1>3, FS_CardinalityType
  <2> QED BY <1>1, <1>3, <1>4, <2>1, <2>2, BoundsAssumption
<1> QED BY <1>5 DEF FreshArray

\* Contents, element by element.
LEMMA ContentsElements ==
  ASSUME arrays \in [ArrayIds -> Seq(Nat)], NEW s \in Slices, s.array \in ArrayIds,
         s.len <= Len(arrays[s.array]), NEW p \in Seq(Nat), Len(p) = s.len
  PROVE  Contents(s) = p <=> \A j \in 1 .. s.len : arrays[s.array][j] = p[j]
<1> DEFINE a == arrays[s.array]
<1>1. a \in Seq(Nat)
  OBVIOUS
<1>2. s.len \in 0 .. Len(a)
  BY <1>1, LenProperties DEF Slices
<1>3. Contents(s) = SubSeq(a, 1, s.len)
  BY BoundsAssumption DEF Contents
<1>4. /\ SubSeq(a, 1, s.len) \in Seq(Nat) /\ Len(SubSeq(a, 1, s.len)) = s.len
      /\ \A k \in 1 .. s.len : SubSeq(a, 1, s.len)[k] = a[k]
  BY <1>1, <1>2, CutPath
<1> HIDE DEF a
<1>5. ASSUME \A j \in 1 .. s.len : a[j] = p[j]
      PROVE  SubSeq(a, 1, s.len) = p
  BY <1>4, <1>5, SameElements
<1>6. ASSUME SubSeq(a, 1, s.len) = p, NEW j \in 1 .. s.len
      PROVE  a[j] = p[j]
  BY <1>4, <1>6
<1> QED BY <1>3, <1>5, <1>6 DEF a

SlicesOK == TypeInv /\ StackInv /\ SlicesInv /\ PathsIntact

\* The slice passed to a child holds the path of the child, and no slice held
\* by an active call sees the element that append has written.
LEMMA AppendedSlice ==
  ASSUME SlicesOK, calls # << >>, NextChild \in shape
  PROVE  LET a == Appended(cur.path, cur.i) IN
         /\ a.slice \in Slices
         /\ a.slice.array \in ArrayIds
         /\ a.slice.len = Len(calls)
         /\ a.arrays \in [ArrayIds -> Seq(Nat)]
         /\ Len(calls) <= Len(a.arrays[a.slice.array])
         /\ \A j \in 1 .. Len(calls) : a.arrays[a.slice.array][j] = NextChild[j]
         /\ \A k \in 1 .. Len(calls) : calls[k].path.array \in ArrayIds =>
              LET p == calls[k].path IN
              /\ p.len <= Len(a.arrays[p.array])
              /\ \A j \in 1 .. p.len : a.arrays[p.array][j] = arrays[p.array][j]
<1> DEFINE s == cur.path
           n == Len(calls)
           cap == IF s.array = None THEN 0 ELSE Len(arrays[s.array])
           a == Appended(s, cur.i)
<1>1. /\ n \in Nat \ {0} /\ cur = calls[n] /\ cur \in Activations /\ s \in Slices
      /\ cur.node \in Seq(Nat) /\ Len(cur.node) = n - 1 /\ s.len = n - 1 /\ cur.i \in Nat
  BY CurrentCall DEF SlicesOK, Activations
<1>2. /\ \A j \in 1 .. n - 1 : NextChild[j] = cur.node[j]
      /\ NextChild[n] = cur.i
  BY <1>1, AppendedPath DEF NextChild
<1>3. arrays \in [ArrayIds -> Seq(Nat)] /\ None \notin ArrayIds
  BY BoundsAssumption DEF SlicesOK, TypeInv
<1>4. n < MaxDepth
  <2>1. Len(NextChild) = n
    BY CurrentCall DEF SlicesOK
  <2> QED BY <2>1, TreesAssumption DEF SlicesOK, TypeInv
<1>5. FreshArray \in ArrayIds /\ FreshArray \notin Used
  BY <1>4, ArrayFree DEF SlicesOK
<1>6. s.array = None \/ s.array \in ArrayIds
  BY <1>1 DEF Slices
<1>7. cap \in Nat /\ s.len <= cap
  BY <1>1, <1>3, <1>6, LenProperties DEF SlicesOK, SlicesInv
<1>8. Contents(s) = cur.node
  BY <1>1 DEF SlicesOK, PathsIntact
<1>9. \A k \in 1 .. n :
        /\ calls[k].path \in Slices
        /\ calls[k].path.len = k - 1
        /\ calls[k].path.array \in Used
        /\ calls[k].path.array \in ArrayIds => calls[k].path.len <= Len(arrays[calls[k].path.array])
  <2> TAKE k \in 1 .. n
  <2>1. calls[k] \in Activations
    BY <1>1, ElementOfSeq DEF SlicesOK, TypeInv
  <2> QED BY <1>3, <2>1 DEF SlicesOK, SlicesInv, StackInv, Activations, Used
<1>10. CASE s.len < cap
  <2>1. s.array \in ArrayIds /\ cap = Len(arrays[s.array])
    BY <1>6, <1>7, <1>10, <1>1
  <2>2. a = [slice |-> [s EXCEPT !.len = @ + 1],
             arrays |-> [arrays EXCEPT ![s.array][s.len + 1] = cur.i]]
    BY <1>10 DEF Appended
  <2> DEFINE old == arrays[s.array]
             new == [old EXCEPT ![n] = cur.i]
  <2>3. old \in Seq(Nat) /\ n \in 1 .. Len(old)
    BY <1>1, <1>3, <1>10, <2>1
  <2>4. /\ new \in Seq(Nat) /\ Len(new) = Len(old)
        /\ \A j \in 1 .. Len(old) : new[j] = IF j = n THEN cur.i ELSE old[j]
    BY <1>1, <2>3, ExceptSeq
  <2>5. a.arrays = [arrays EXCEPT ![s.array] = new]
    BY <1>1, <2>2
  <2> HIDE DEF new
  <2>6. /\ a.arrays \in [ArrayIds -> Seq(Nat)] /\ a.arrays[s.array] = new
        /\ \A b \in ArrayIds : b # s.array => a.arrays[b] = arrays[b]
    BY <1>3, <2>1, <2>4, <2>5
  <2>7. a.slice \in Slices /\ a.slice.array = s.array /\ a.slice.len = n
    BY <1>1, <2>2 DEF Slices
  <2>8. \A j \in 1 .. n - 1 : old[j] = cur.node[j]
    <3>1. s.len <= Len(old) /\ Len(cur.node) = s.len
      BY <1>1, <2>3
    <3>2. \A j \in 1 .. s.len : old[j] = cur.node[j]
      BY <1>1, <1>3, <1>8, <2>1, <3>1, ContentsElements
    <3> QED BY <1>1, <3>2
  <2>9. \A j \in 1 .. n : new[j] = NextChild[j]
    <3> SUFFICES ASSUME NEW j \in 1 .. n PROVE new[j] = NextChild[j]
      OBVIOUS
    <3>1. j \in 1 .. Len(old) /\ (j = n \/ j \in 1 .. n - 1)
      BY <1>1, <2>3
    <3> HIDE DEF n, old
    <3>2. CASE j = n
      BY <1>2, <2>4, <3>1, <3>2
    <3>3. CASE j # n
      BY <1>2, <2>4, <2>8, <3>1, <3>3
    <3> QED BY <3>2, <3>3
  <2>10. ASSUME NEW k \in 1 .. n, calls[k].path.array \in ArrayIds
         PROVE  LET p == calls[k].path IN
                /\ p.len <= Len(a.arrays[p.array])
                /\ \A j \in 1 .. p.len : a.arrays[p.array][j] = arrays[p.array][j]
    <3> DEFINE p == calls[k].path
    <3>1. p.len = k - 1 /\ p.len <= Len(arrays[p.array])
      BY <1>9, <2>10
    <3> HIDE DEF p
    <3>2. CASE p.array = s.array
      <4>1. a.arrays[p.array] = new /\ arrays[p.array] = old
        BY <2>6, <3>2
      <4> HIDE DEF old, a, s, n
      <4>2. Len(old) \in Nat /\ k - 1 < n /\ k - 1 \in Nat /\ n <= Len(old)
        BY <1>1, <2>3, LenProperties
      <4>3. \A j \in 1 .. p.len : j \in 1 .. Len(old) /\ j # n
        BY <1>1, <3>1, <4>2
      <4>4. \A j \in 1 .. p.len : new[j] = old[j]
        BY <2>4, <4>3
      <4> QED BY <2>4, <3>1, <4>1, <4>4 DEF p
    <3>3. CASE p.array # s.array
      BY <2>6, <2>10, <3>1, <3>3 DEF p
    <3> QED BY <3>2, <3>3 DEF p
  <2> HIDE DEF s, n, cap, a
  <2>11. n <= Len(a.arrays[a.slice.array])
    BY <2>3, <2>4, <2>6, <2>7
  <2>12. \A j \in 1 .. n : a.arrays[a.slice.array][j] = NextChild[j]
    BY <2>6, <2>7, <2>9
  <2> QED BY <2>1, <2>6, <2>7, <2>10, <2>11, <2>12 DEF s, n, a
<1>11. CASE ~ (s.len < cap)
  <2>1. s.len = cap
    <3>1. s.len \in Nat
      BY <1>1
    <3> HIDE DEF cap, s
    <3> QED BY <1>7, <1>11, <3>1
  <2> DEFINE new == [k \in 1 .. GrownCap(cap) |->
                       IF k <= s.len THEN Contents(s)[k]
                       ELSE IF k = s.len + 1 THEN cur.i ELSE 0]
  <2>2. a = [slice |-> [array |-> FreshArray, len |-> s.len + 1],
             arrays |-> [arrays EXCEPT ![FreshArray] = new]]
    BY <1>11 DEF Appended
  <2>3. GrownCap(cap) \in Nat /\ n <= GrownCap(cap)
    BY <1>1, <1>7, <2>1 DEF GrownCap
  <2>4. new = [k \in 1 .. GrownCap(cap) |->
                 IF k < n THEN cur.node[k] ELSE IF k = n THEN cur.i ELSE 0]
    BY <1>1, <1>8, <2>3
  <2> HIDE DEF new
  <2>5. ASSUME NEW k \in 1 .. GrownCap(cap), k < n
        PROVE  cur.node[k] \in Nat
    <3>1. k \in 1 .. Len(cur.node)
      BY <1>1, <2>3, <2>5
    <3>2. cur.node \in Seq(Nat)
      BY <1>1
    <3> QED BY <3>1, <3>2, ElementOfSeq
  <2>6. new \in Seq(Nat) /\ Len(new) = GrownCap(cap)
    <3>1. \A k \in 1 .. GrownCap(cap) :
            (IF k < n THEN cur.node[k] ELSE IF k = n THEN cur.i ELSE 0) \in Nat
      BY <1>1, <2>5
    <3>2. new \in [1 .. GrownCap(cap) -> Nat]
      BY <2>4, <3>1
    <3> QED BY <2>3, <3>2, SeqDef, LenProperties
  <2>7. \A j \in 1 .. n : new[j] = NextChild[j]
    BY <1>1, <1>2, <2>3, <2>4
  <2>8. /\ a.arrays \in [ArrayIds -> Seq(Nat)] /\ a.arrays[FreshArray] = new
        /\ \A b \in ArrayIds : b # FreshArray => a.arrays[b] = arrays[b]
    BY <1>3, <1>5, <2>2, <2>6
  <2>9. a.slice \in Slices /\ a.slice.array = FreshArray /\ a.slice.len = n
    BY <1>1, <1>5, <2>2 DEF Slices
  <2>10. ASSUME NEW k \in 1 .. n, calls[k].path.array \in ArrayIds
         PROVE  LET p == calls[k].path IN
                /\ p.len <= Len(a.arrays[p.array])
                /\ \A j \in 1 .. p.len : a.arrays[p.array][j] = arrays[p.array][j]
    <3>1. a.arrays[calls[k].path.array] = arrays[calls[k].path.array]
      BY <1>5, <1>9, <2>8, <2>10
    <3> QED BY <1>9, <2>10, <3>1
  <2> HIDE DEF s, n, cap, a
  <2>11. n <= Len(a.arrays[a.slice.array])
    BY <2>3, <2>6, <2>8, <2>9
  <2>12. \A j \in 1 .. n : a.arrays[a.slice.array][j] = NextChild[j]
    BY <2>7, <2>8, <2>9
  <2> QED BY <1>5, <2>8, <2>9, <2>10, <2>11, <2>12 DEF s, n, a
<1> QED BY <1>10, <1>11
----------------------------------------------------------------------------
(***************************************************************************)
(* Lines.                                                                  *)
(***************************************************************************)
\* A function on 1 .. n is a sequence of length n.
LEMMA LineOf ==
  ASSUME NEW S, NEW n \in Nat, NEW f \in [1 .. n -> S]
  PROVE  f \in Seq(S) /\ Len(f) = n
<1>1. f \in Seq(S)
  BY SeqDef
<1> QED BY <1>1, LenProperties

\* pipes writes one column for each level of the path.
LEMMA PipesLine ==
  ASSUME NEW p \in Seq(Nat), NEW last \in {"+", "|"}
  PROVE  /\ Pipes(p, last) \in Lines
         /\ Len(Pipes(p, last)) = Len(p)
         /\ \A d \in 1 .. Len(p) :
              Pipes(p, last)[d] = IF d = Len(p) THEN last ELSE IF p[d] = 0 THEN " " ELSE "|"
<1>1. Len(p) \in Nat
  BY LenProperties
<1>2. Pipes(p, last) \in [1 .. Len(p) -> {"+", "|", " "}]
  BY DEF Pipes
<1>3. \A f \in [1 .. Len(p) -> {"+", "|", " "}] : f \in Lines /\ Len(f) = Len(p)
  BY <1>1, LineOf DEF Lines
<1>4. Pipes(p, last) \in Lines /\ Len(Pipes(p, last)) = Len(p)
  BY <1>2, <1>3
<1> QED BY <1>3, <1>4 DEF Pipes

\* The lines of one node: "+" once, at the first, and a pipe to the next node
\* unless there is none.
LEMMA TraceLinesShape ==
  ASSUME NEW p \in Seq(Nat), NEW lines \in 1 .. MaxLines, NEW hasTrace \in BOOLEAN
  PROVE  LET b == TraceLines(p, lines, hasTrace) IN
         /\ b \in Seq(Lines)
         /\ Len(b) > 0
         /\ b[1] = Pipes(p, "+")
         /\ \A k \in 2 .. Len(b) : b[k] = Pipes(p, "|")
         /\ p # << >> => Len(b) > 1
<1> DEFINE plus == Pipes(p, "+")
           bar == Pipes(p, "|")
           first == <<plus>>
           more == [k \in 1 .. lines - 1 |-> bar]
           trace == IF hasTrace THEN [k \in 1 .. 3 |-> bar] ELSE << >>
           sep == IF p # << >> THEN <<bar>> ELSE << >>
           Bars(s) == s \in Seq(Lines) /\ \A k \in 1 .. Len(s) : s[k] = bar
<1>1. plus \in Lines /\ bar \in Lines
  BY PipesLine
<1>2. lines - 1 \in Nat
  BY BoundsAssumption
<1>3. TraceLines(p, lines, hasTrace) = first \o more \o trace \o sep
  BY DEF TraceLines
<1> HIDE DEF plus, bar
<1>4. first \in Seq(Lines) /\ Len(first) = 1 /\ first[1] = plus
  BY <1>1
<1>5. Bars(more)
  <2>1. more \in [1 .. lines - 1 -> Lines]
    BY <1>1
  <2>2. more \in Seq(Lines) /\ Len(more) = lines - 1
    BY <1>2, <2>1, SeqDef, LenProperties
  <2> QED BY <2>2
<1>6. Bars(trace)
  <2>1. [k \in 1 .. 3 |-> bar] \in [1 .. 3 -> Lines]
    BY <1>1
  <2>2. [k \in 1 .. 3 |-> bar] \in Seq(Lines) /\ Len([k \in 1 .. 3 |-> bar]) = 3
    BY <2>1, SeqDef, LenProperties
  <2>3. CASE hasTrace
    BY <2>2, <2>3
  <2>4. CASE ~ hasTrace
    BY <2>4
  <2> QED BY <2>3, <2>4
<1>7. Bars(sep) /\ (p # << >> => Len(sep) = 1)
  BY <1>1
<1> HIDE DEF first, more, trace, sep
<1>8. /\ first \o more \in Seq(Lines)
      /\ Len(first \o more) = 1 + Len(more)
      /\ (first \o more)[1] = plus
      /\ \A k \in 2 .. Len(first \o more) : (first \o more)[k] = bar
  <2>1. /\ first \o more \in Seq(Lines)
        /\ Len(first \o more) = 1 + Len(more)
        /\ \A k \in 1 .. 1 + Len(more) :
             (first \o more)[k] = IF k <= 1 THEN first[k] ELSE more[k - 1]
    <3>1. /\ first \o more \in Seq(Lines)
          /\ Len(first \o more) = Len(first) + Len(more)
          /\ \A k \in 1 .. Len(first) + Len(more) :
               (first \o more)[k] = IF k <= Len(first) THEN first[k] ELSE more[k - Len(first)]
      BY <1>4, <1>5, ConcatProperties
    <3> QED BY <1>4, <3>1
  <2>2. Len(more) \in Nat
    BY <1>5, LenProperties
  <2>3. \A k \in 2 .. 1 + Len(more) : (first \o more)[k] = more[k - 1] /\ k - 1 \in 1 .. Len(more)
    BY <2>1, <2>2
  <2>4. (first \o more)[1] = first[1]
    BY <2>1, <2>2
  <2> HIDE DEF bar
  <2> QED BY <1>4, <1>5, <2>1, <2>3, <2>4
<1> DEFINE b1 == first \o more
           b2 == b1 \o trace
           b3 == b2 \o sep
<1>9. /\ b1 \in Seq(Lines) /\ Len(b1) > 0 /\ b1[1] = plus
      /\ \A k \in 2 .. Len(b1) : b1[k] = bar
  BY <1>5, <1>8, LenProperties
<1> HIDE DEF b1
<1>10. /\ b2 \in Seq(Lines) /\ Len(b2) > 0 /\ b2[1] = plus
       /\ \A k \in 2 .. Len(b2) : b2[k] = bar
  BY <1>6, <1>9, ConcatProperties, LenProperties
<1> HIDE DEF b2
<1>11. /\ b3 \in Seq(Lines) /\ Len(b3) = Len(b2) + Len(sep) /\ b3[1] = plus
       /\ \A k \in 2 .. Len(b3) : b3[k] = bar
  BY <1>7, <1>10, ConcatProperties, LenProperties
<1>12. TraceLines(p, lines, hasTrace) = b3
  BY <1>3 DEF b1, b2
<1>13. Len(b2) \in Nat /\ Len(sep) \in Nat
  BY <1>7, <1>10, LenProperties
<1> HIDE DEF b3
<1> QED BY <1>7, <1>10, <1>11, <1>12, <1>13 DEF plus, bar

\* The lines of one node connect.
LEMMA NodeConnected ==
  ASSUME NEW p \in Seq(Nat), NEW m \in {"+", "|"}
  PROVE  Connected(Pipes(p, m), Pipes(p, "|"))
<1> DEFINE u == Pipes(p, m)
           l == Pipes(p, "|")
<1>1. /\ Len(u) = Len(p) /\ Len(l) = Len(p)
      /\ \A d \in 1 .. Len(p) :
           /\ u[d] = IF d = Len(p) THEN m ELSE IF p[d] = 0 THEN " " ELSE "|"
           /\ l[d] = IF d = Len(p) THEN "|" ELSE IF p[d] = 0 THEN " " ELSE "|"
  <2>1. /\ Len(u) = Len(p)
        /\ \A d \in 1 .. Len(p) :
             u[d] = IF d = Len(p) THEN m ELSE IF p[d] = 0 THEN " " ELSE "|"
    BY PipesLine
  <2>2. /\ Len(l) = Len(p)
        /\ \A d \in 1 .. Len(p) :
             l[d] = IF d = Len(p) THEN "|" ELSE IF p[d] = 0 THEN " " ELSE "|"
    <3>1. "|" \in {"+", "|"}
      OBVIOUS
    <3> QED BY <3>1, PipesLine
  <2> HIDE DEF u, l
  <2> QED BY <2>1, <2>2
<1> HIDE DEF u, l
<1>2. Connected(u, l)
  BY <1>1 DEF Connected, Line
<1> QED BY <1>2 DEF u, l

\* The first line of node c connects to the line above it.
LEMMA NextNodeConnected ==
  ASSUME NEW w \in Seq(Nat), NEW c \in Seq(Nat), NEW n \in Nat,
         NextBefore(w, Append(c, n))
  PROVE  Connected(Pipes(w, "|"), Pipes(c, "+"))
<1> DEFINE x == Append(c, n)
           u == Pipes(w, "|")
           l == Pipes(c, "+")
<1>1. /\ Len(x) = Len(c) + 1 /\ Len(c) \in Nat
      /\ \A k \in 1 .. Len(c) : x[k] = c[k] /\ c[k] \in Nat
      /\ x[Len(c) + 1] = n
  BY AppendedPath, LenProperties, ElementOfSeq
<1>2. /\ Len(u) = Len(w)
      /\ \A k \in 1 .. Len(w) :
           u[k] = IF k = Len(w) THEN "|" ELSE IF w[k] = 0 THEN " " ELSE "|"
      /\ Len(l) = Len(c)
      /\ \A k \in 1 .. Len(c) :
           l[k] = IF k = Len(c) THEN "+" ELSE IF c[k] = 0 THEN " " ELSE "|"
  BY PipesLine
<1>3. PICK d \in 1 .. Len(x) :
        /\ Len(w) = d
        /\ \A k \in 1 .. d - 1 : w[k] = x[k]
        /\ x[d] > 0 /\ w[d] = x[d] - 1
        /\ \A k \in d + 1 .. Len(x) : x[k] = 0
  BY DEF NextBefore
<1> HIDE DEF x, u, l
<1>4. /\ d \in 1 .. Len(c) + 1
      /\ \A k \in 1 .. d - 1 : k \in 1 .. Len(c) /\ w[k] = c[k]
      /\ d <= Len(c) => c[d] # 0
      /\ \A k \in 1 .. Len(c) : k > d => c[k] = 0
  BY <1>1, <1>3
<1>5. ASSUME NEW k \in 1 .. Len(l), l[k] = "|"
      PROVE  Line(u, k)
  <2>1. k \in 1 .. Len(c) /\ k # Len(c) /\ c[k] # 0
    BY <1>2, <1>5
  <2>2. k <= d
    BY <1>4, <2>1
  <2>3. k \in 1 .. Len(w) /\ (k # d => w[k] = c[k])
    BY <1>3, <1>4, <2>1, <2>2
  <2> QED BY <1>2, <1>3, <2>1, <2>3 DEF Line
<1>6. ASSUME NEW k \in 1 .. Len(u), Line(u, k)
      PROVE  \/ Line(l, k)
             \/ Len(l) = k - 1 /\ (k > 1 => l[k - 1] = "+")
  <2>1. k \in 1 .. d
    BY <1>2, <1>3
  <2>2. CASE k < d
    <3>0. k \in 1 .. Len(w) /\ k # Len(w) /\ k \in 1 .. d - 1
      BY <1>3, <2>1, <2>2
    <3>1. w[k] # 0 /\ w[k] = c[k] /\ k \in 1 .. Len(c)
      BY <1>2, <1>4, <1>6, <3>0 DEF Line
    <3> QED BY <1>2, <3>1 DEF Line
  <2>3. CASE k = d /\ d <= Len(c)
    <3>1. k \in 1 .. Len(c) /\ c[k] # 0
      BY <1>1, <1>4, <2>3
    <3> QED BY <1>2, <3>1 DEF Line
  <2>4. CASE k = d /\ d = Len(c) + 1
    <3>1. k - 1 = Len(c) /\ (k > 1 => k - 1 \in 1 .. Len(c))
      BY <1>1, <2>4
    <3> QED BY <1>2, <3>1
  <2> QED BY <1>1, <1>4, <2>1, <2>2, <2>3, <2>4
<1>7. Connected(u, l)
  BY <1>5, <1>6 DEF Connected
<1> QED BY <1>7 DEF u, l
----------------------------------------------------------------------------
(***************************************************************************)
(* The invariant holds before the walk, and every step keeps it.           *)
(***************************************************************************)
LEMMA DrawInitInv == Init => DrawInv
<1> SUFFICES ASSUME Init PROVE DrawInv
  OBVIOUS
<1> DEFINE root == [node |-> << >>, path |-> [array |-> None, len |-> 0], i |-> 0]
<1>1. /\ shape \in Trees /\ calls = <<root>> /\ arrays = [a \in ArrayIds |-> << >>]
      /\ written = << >> /\ above = << >> /\ block = << >> /\ e = FALSE /\ failed = FALSE
  BY DEF Init, Activation
<1>2. /\ << >> \in Seq(Nat) /\ Len(<< >>) = 0 /\ << >> \in Lines
      /\ << >> \in Seq(Lines) /\ << >> \in Seq(shape)
  BY EmptySeq DEF Lines
<1>3. root \in Activations
  BY <1>2 DEF Activations, Slices
<1> HIDE DEF root
<1>4. calls \in Seq(Activations) /\ Len(calls) = 1 /\ calls[1] = root
  BY <1>1, <1>3
<1>5. arrays \in [ArrayIds -> Seq(Nat)]
  BY <1>1, <1>2
<1>6. TypeInv
  BY <1>1, <1>2, <1>4, <1>5 DEF TypeInv
<1>7. << >> \in shape
  BY <1>1, TreesAssumption
<1>8. StackInv
  BY <1>2, <1>4, <1>7 DEF StackInv, root
<1>9. SlicesInv /\ PathsIntact
  BY <1>4 DEF SlicesInv, PathsIntact, Contents, root
<1>10. NextChild = Append(<< >>, 0)
  BY <1>4 DEF NextChild, cur, root
<1>11. ToSet(written) = {}
  BY <1>1 DEF ToSet
<1>12. WrittenInv
  <2> SUFFICES ASSUME NEW q \in shape PROVE ~ LeftOf(q, NextChild)
    BY <1>4, <1>11 DEF WrittenInv
  <2>1. q \in Seq(Nat)
    BY <1>1, TreesAssumption
  <2>2. LeftOf(q, NextChild) <=> LeftOf(q, << >>)
    BY <1>2, <1>10, <2>1, LeftOfFirstChild
  <2> QED BY <1>2, <2>2 DEF LeftOf
<1>13. OrderInv /\ LastInv
  BY <1>1, <1>2 DEF OrderInv, LastInv
<1>14. PipesConnected
  <2>1. Len(written) = 0
    BY <1>1, <1>2
  <2>2. (IF Len(written) > 1 THEN <<above>> ELSE << >>) \o block = << >>
    BY <1>1, <2>1
  <2> QED BY <1>2, <2>2 DEF PipesConnected
<1> QED BY <1>1, <1>6, <1>8, <1>9, <1>12, <1>13, <1>14 DEF DrawInv, ErrorInv

\* PipesConnected, one pair of lines at a time.
LEMMA ConnectedLines ==
  ASSUME NEW a \in Seq(Lines), NEW b \in Seq(Lines), Len(a) = 0 \/ Len(a) = 1,
         Len(a) = 1 /\ Len(b) > 0 => Connected(a[1], b[1]),
         \A k \in 1 .. Len(b) - 1 : Connected(b[k], b[k + 1])
  PROVE  \A k \in 1 .. Len(a \o b) - 1 : Connected((a \o b)[k], (a \o b)[k + 1])
<1>1. Len(a) \in Nat /\ Len(b) \in Nat
  BY LenProperties
<1>2. /\ Len(a \o b) = Len(a) + Len(b)
      /\ \A k \in 1 .. Len(a) + Len(b) :
           (a \o b)[k] = IF k <= Len(a) THEN a[k] ELSE b[k - Len(a)]
  BY ConcatProperties
<1>3. CASE Len(a) = 0
  BY <1>1, <1>2, <1>3
<1>4. CASE Len(a) = 1
  <2> SUFFICES ASSUME NEW k \in 1 .. Len(b)
               PROVE  Connected((a \o b)[k], (a \o b)[k + 1])
    BY <1>1, <1>2, <1>4
  <2>1. (a \o b)[k + 1] = b[k]
    BY <1>1, <1>2, <1>4
  <2>2. CASE k = 1
    BY <1>1, <1>2, <1>4, <2>1, <2>2
  <2>3. CASE k # 1
    <3>1. (a \o b)[k] = b[k - 1] /\ k - 1 \in 1 .. Len(b) - 1
      BY <1>1, <1>2, <1>4, <2>3
    <3>2. Connected(b[k - 1], b[(k - 1) + 1])
      BY <3>1
    <3> QED BY <2>1, <3>1, <3>2
  <2> QED BY <2>2, <2>3
<1> QED BY <1>1, <1>3, <1>4

\* A call for the next child.
LEMMA DescendKeepsInv == DrawInv /\ Descend => DrawInv'
<1> SUFFICES ASSUME DrawInv, Descend PROVE DrawInv'
  OBVIOUS
<1> USE DEF DrawInv
<1> DEFINE n == Len(calls)
           a == Appended(cur.path, cur.i)
           caller == [calls[n] EXCEPT !.i = @ + 1]
           child == [node |-> NextChild, path |-> a.slice, i |-> 0]
<1>1. /\ calls # << >> /\ NextChild \in shape
      /\ arrays' = a.arrays
      /\ calls' = Append([calls EXCEPT ![n] = caller], child)
      /\ shape' = shape /\ written' = written /\ above' = above /\ block' = block
      /\ failed' = failed /\ e' = e
  BY DEF Descend, Activation
<1>2. SlicesOK
  BY DEF SlicesOK
<1>3. /\ n \in Nat \ {0} /\ cur = calls[n] /\ cur \in Activations /\ cur.node \in shape
      /\ cur.node \in Seq(Nat) /\ Len(cur.node) = n - 1
      /\ NextChild \in Seq(Nat) /\ Len(NextChild) = n
  BY <1>1, CurrentCall
<1>4. /\ a.slice \in Slices
      /\ a.slice.array \in ArrayIds
      /\ a.slice.len = n
      /\ a.arrays \in [ArrayIds -> Seq(Nat)]
      /\ n <= Len(a.arrays[a.slice.array])
      /\ \A j \in 1 .. n : a.arrays[a.slice.array][j] = NextChild[j]
      /\ \A k \in 1 .. n : calls[k].path.array \in ArrayIds =>
           LET p == calls[k].path IN
           /\ p.len <= Len(a.arrays[p.array])
           /\ \A j \in 1 .. p.len : a.arrays[p.array][j] = arrays[p.array][j]
  BY <1>1, <1>2, AppendedSlice
<1> HIDE DEF a
<1>5. /\ caller \in Activations /\ caller.node = calls[n].node /\ caller.path = calls[n].path
      /\ caller.i = calls[n].i + 1 /\ calls[n].i \in Nat
  <2>1. PICK x : x = calls[n]
    OBVIOUS
  <2>2. x \in Activations
    BY <1>3, <2>1
  <2>3. x = [node |-> x.node, path |-> x.path, i |-> x.i]
        /\ x.node \in Seq(Nat) /\ x.path \in Slices /\ x.i \in Nat
    BY <2>2 DEF Activations
  <2>4. PICK y : y = caller
    OBVIOUS
  <2>5. y = [x EXCEPT !.i = @ + 1]
    BY <2>1, <2>4
  <2> HIDE DEF n, a, caller, child
  <2>6. y = [node |-> x.node, path |-> x.path, i |-> x.i + 1]
    BY <2>3, <2>5
  <2>7. y \in Activations
    BY <2>3, <2>6 DEF Activations
  <2> QED BY <2>1, <2>3, <2>4, <2>6, <2>7
<1>6. child \in Activations
  BY <1>3, <1>4 DEF Activations
<1> HIDE DEF caller, child
<1>7. /\ calls' \in Seq(Activations)
      /\ Len(calls') = n + 1
      /\ \A k \in 1 .. n - 1 : calls'[k] = calls[k]
      /\ calls'[n] = caller
      /\ calls'[n + 1] = child
  <2> DEFINE s == [calls EXCEPT ![n] = caller]
  <2>1. /\ s \in Seq(Activations) /\ Len(s) = n
        /\ \A k \in 1 .. n : s[k] = IF k = n THEN caller ELSE calls[k]
    <3>1. calls \in Seq(Activations) /\ n \in 1 .. Len(calls) /\ caller \in Activations
      BY <1>3, <1>5 DEF TypeInv
    <3> HIDE DEF a, caller, child
    <3> QED BY <3>1, ExceptSeq
  <2>2. calls' = Append(s, child)
    BY <1>1
  <2> HIDE DEF s
  <2>3. /\ calls' \in Seq(Activations) /\ Len(calls') = n + 1
        /\ \A k \in 1 .. n : calls'[k] = s[k]
        /\ calls'[n + 1] = child
    BY <1>6, <2>1, <2>2, AppendProperties
  <2> QED BY <1>3, <2>1, <2>3
<1> HIDE DEF n
<1>8. \A k \in 1 .. n :
        /\ calls'[k].node = calls[k].node
        /\ calls'[k].path = calls[k].path
        /\ calls[k] \in Activations
  <2> TAKE k \in 1 .. n
  <2>1. calls[k] \in Activations
    BY ElementOfSeq DEF n, TypeInv
  <2>2. CASE k = n
    BY <1>5, <1>7, <2>1, <2>2
  <2>3. CASE k # n
    <3>1. k \in 1 .. n - 1
      BY <1>3, <2>3
    <3> QED BY <1>7, <2>1, <3>1
  <2> QED BY <2>2, <2>3
<1>9. /\ child.node = NextChild /\ child.path = a.slice /\ child.i = 0
  BY DEF child
<1>10. TypeInv'
  BY <1>1, <1>4, <1>7 DEF TypeInv
<1>11. StackInv'
  <2>1. ASSUME NEW k \in 1 .. n + 1
        PROVE  /\ calls'[k].node \in shape
               /\ Len(calls'[k].node) = k - 1
               /\ calls'[k].path.len = k - 1
    <3>1. CASE k = n + 1
      BY <1>1, <1>3, <1>4, <1>7, <1>9, <3>1
    <3>2. CASE k # n + 1
      <4>1. k \in 1 .. n
        BY <1>3, <3>2
      <4> QED BY <1>8, <4>1 DEF StackInv, n
    <3> QED BY <3>1, <3>2
  <2>2. ASSUME NEW k \in 1 .. n
        PROVE  /\ calls'[k].i > 0
               /\ calls'[k + 1].node = Append(calls'[k].node, calls'[k].i - 1)
    <3>1. CASE k = n
      <4>1. NextChild = Append(calls[n].node, calls[n].i)
        BY <1>3 DEF NextChild
      <4>2. caller.i > 0 /\ caller.i - 1 = calls[n].i
        BY <1>5
      <4>3. calls'[k + 1].node = NextChild /\ calls'[k] = caller
        BY <1>7, <1>9, <3>1
      <4> QED BY <1>5, <3>1, <4>1, <4>2, <4>3
    <3>2. CASE k # n
      <4>1. k \in 1 .. n - 1 /\ k + 1 \in 1 .. n
        BY <1>3, <3>2
      <4> QED BY <1>7, <1>8, <4>1 DEF StackInv, n
    <3> QED BY <3>1, <3>2
  <2>3. Len(calls') = n + 1 /\ Len(calls') - 1 = n
    BY <1>3, <1>7
  <2> QED BY <1>1, <2>1, <2>2, <2>3 DEF StackInv
<1>12. None \notin ArrayIds
  BY BoundsAssumption
<1>13. SlicesInv' /\ PathsIntact'
  <2> SUFFICES ASSUME NEW k \in 1 .. n + 1
               PROVE  /\ IF calls'[k].path.array = None
                          THEN calls'[k].path.len = 0
                          ELSE calls'[k].path.len <= Len(arrays'[calls'[k].path.array])
                      /\ Contents(calls[k].path)' = calls'[k].node
    BY <1>3, <1>7 DEF SlicesInv, PathsIntact
  <2> DEFINE p == calls'[k].path
             arr == arrays'[p.array]
  <2>1. Contents(calls[k].path)' = IF p.array = None THEN << >> ELSE SubSeq(arr, 1, p.len)
    BY DEF Contents
  <2>2. /\ p \in Slices
        /\ calls'[k].node \in Seq(Nat)
        /\ Len(calls'[k].node) = p.len
        /\ p.array \in ArrayIds =>
             /\ p.len <= Len(arr)
             /\ \A j \in 1 .. p.len : arr[j] = calls'[k].node[j]
        /\ p.array = None => p.len = 0 /\ calls'[k].node = << >>
    <3>1. CASE k = n + 1
      <4>1. p = a.slice /\ calls'[k].node = NextChild
        BY <1>7, <1>9, <3>1
      <4> HIDE DEF p
      <4> QED BY <1>1, <1>3, <1>4, <1>12, <4>1
    <3>2. CASE k # n + 1
      <4>1. k \in 1 .. n
        BY <1>3, <3>2
      <4>2. /\ p = calls[k].path /\ p \in Slices /\ calls'[k].node = calls[k].node
            /\ calls[k].node \in Seq(Nat)
        BY <1>8, <4>1 DEF Activations
      <4>3. p.len = k - 1 /\ Len(calls[k].node) = k - 1
        BY <4>1, <4>2 DEF StackInv, n
      <4>4. IF p.array = None THEN p.len = 0 ELSE p.len <= Len(arrays[p.array])
        BY <4>1, <4>2 DEF SlicesInv, n
      <4>5. Contents(p) = calls[k].node
        BY <4>1, <4>2 DEF PathsIntact, n
      <4> HIDE DEF p
      <4>6. ASSUME p.array \in ArrayIds
            PROVE  /\ p.len <= Len(arr)
                   /\ \A j \in 1 .. p.len : arr[j] = calls'[k].node[j]
        <5>1. arrays \in [ArrayIds -> Seq(Nat)]
          BY DEF TypeInv
        <5>2. \A j \in 1 .. p.len : arrays[p.array][j] = calls[k].node[j]
          <6>1. p.len <= Len(arrays[p.array])
            BY <1>12, <4>4, <4>6
          <6>2. PICK s, w : s = p /\ w = calls[k].node
            OBVIOUS
          <6>3. /\ s \in Slices /\ s.array \in ArrayIds /\ s.len <= Len(arrays[s.array])
                /\ w \in Seq(Nat) /\ Len(w) = s.len /\ Contents(s) = w
            BY <4>2, <4>3, <4>5, <4>6, <6>1, <6>2
          <6>4. \A j \in 1 .. s.len : arrays[s.array][j] = w[j]
            BY <5>1, <6>3, ContentsElements
          <6> QED BY <6>2, <6>4
        <5>3. /\ p.len <= Len(a.arrays[p.array])
              /\ \A j \in 1 .. p.len : a.arrays[p.array][j] = arrays[p.array][j]
          BY <1>4, <4>1, <4>2, <4>6
        <5> QED BY <1>1, <4>2, <5>2, <5>3
      <4>7. p.array = None => calls[k].node = << >>
        BY <4>5 DEF Contents
      <4> QED BY <4>2, <4>3, <4>4, <4>6, <4>7
    <3> QED BY <3>1, <3>2
  <2> HIDE DEF p
  <2>3. p.array \in ArrayIds => SubSeq(arr, 1, p.len) = calls'[k].node
    <3> SUFFICES ASSUME p.array \in ArrayIds PROVE SubSeq(arr, 1, p.len) = calls'[k].node
      OBVIOUS
    <3>1. arr \in Seq(Nat)
      BY <1>1, <1>4
    <3> HIDE DEF arr
    <3>2. p.len \in 0 .. Len(arr)
      BY <2>2, <3>1, LenProperties DEF Slices
    <3>3. /\ SubSeq(arr, 1, p.len) \in Seq(Nat) /\ Len(SubSeq(arr, 1, p.len)) = p.len
          /\ \A j \in 1 .. p.len : SubSeq(arr, 1, p.len)[j] = arr[j]
      BY <3>1, <3>2, CutPath
    <3>4. \A j \in 1 .. p.len : arr[j] = calls'[k].node[j]
      BY <2>2 DEF arr
    <3> QED BY <2>2, <3>3, <3>4, SameElements
  <2>4. p.array = None \/ p.array \in ArrayIds
    BY <2>2 DEF Slices
  <2> QED BY <1>12, <2>1, <2>2, <2>3, <2>4 DEF p
<1>14. NextChild' = Append(NextChild, 0)
  BY <1>3, <1>7, <1>9 DEF NextChild, cur
<1>15. calls' # << >>
  BY <1>3, <1>7, EmptySeq
<1>16. WrittenInv'
  <2> SUFFICES ASSUME NEW q \in shape
               PROVE  q \in ToSet(written) <=> LeftOf(q, NextChild')
    BY <1>1, <1>15 DEF WrittenInv, LeftOf
  <2>1. q \in Seq(Nat)
    BY TreesAssumption DEF TypeInv
  <2>2. LeftOf(q, Append(NextChild, 0)) <=> LeftOf(q, NextChild)
    BY <1>3, <2>1, LeftOfFirstChild
  <2> QED BY <1>1, <1>14, <2>2 DEF WrittenInv
<1>17. OrderInv' /\ PipesConnected' /\ ErrorInv'
  BY <1>1 DEF OrderInv, PipesConnected, ErrorInv
<1>18. LastInv'
  <2> SUFFICES ASSUME written # << >>
               PROVE  /\ NextBefore(Last(written), Append(NextChild, 0))
                      /\ block # << >>
                      /\ Last(block) = Pipes(Last(written), "|")
    BY <1>1, <1>14, <1>15 DEF LastInv, NextBefore
  <2>1. /\ NextBefore(Last(written), NextChild)
        /\ block # << >>
        /\ Last(block) = Pipes(Last(written), "|")
    BY <1>1 DEF LastInv
  <2> DEFINE x == NextChild
             y == Append(x, 0)
             w == Last(written)
  <2>2. /\ Len(y) = n + 1
        /\ \A k \in 1 .. n : y[k] = x[k]
        /\ y[n + 1] = 0
    BY <1>3, AppendedPath
  <2>3. PICK d \in 1 .. Len(x) :
          /\ Len(w) = d
          /\ \A k \in 1 .. d - 1 : w[k] = x[k]
          /\ x[d] > 0 /\ w[d] = x[d] - 1
          /\ \A k \in d + 1 .. Len(x) : x[k] = 0
    BY <2>1 DEF NextBefore
  <2> HIDE DEF y, w, x
  <2>4. Len(x) = n /\ d \in 1 .. n
    BY <1>3, <2>3 DEF x
  <2>5. NextBefore(w, y)
    <3>1. \A k \in d + 1 .. Len(y) : y[k] = 0
      <4> SUFFICES ASSUME NEW k \in d + 1 .. n + 1 PROVE y[k] = 0
        BY <2>2
      <4>1. k = n + 1 \/ (k \in 1 .. n /\ k \in d + 1 .. n)
        BY <1>3, <2>4
      <4> QED BY <2>2, <2>3, <2>4, <4>1
    <3>2. (\A k \in 1 .. d - 1 : w[k] = y[k]) /\ y[d] = x[d] /\ d \in 1 .. Len(y)
      BY <1>3, <2>2, <2>3, <2>4
    <3> QED BY <2>3, <3>1, <3>2 DEF NextBefore
  <2> QED BY <2>1, <2>5 DEF x, y, w
<1> QED BY <1>10, <1>11, <1>13, <1>16, <1>17, <1>18

LEMMA FrontOfSeq ==
  ASSUME NEW S, NEW s \in Seq(S), s # << >>
  PROVE  /\ Front(s) \in Seq(S)
         /\ Len(Front(s)) = Len(s) - 1
         /\ \A k \in 1 .. Len(s) - 1 : Front(s)[k] = s[k]
<1>1. Len(s) \in Nat \ {0}
  BY EmptySeq, LenProperties
<1>2. PICK m \in Int : m = Len(s) - 1
  BY <1>1
<1>3. \A k \in 1 .. m : s[k] \in S
  BY <1>1, <1>2, ElementOfSeq
<1>4. Front(s) = SubSeq(s, 1, m)
  BY <1>2 DEF Front
<1>5. /\ SubSeq(s, 1, m) \in Seq(S)
      /\ Len(SubSeq(s, 1, m)) = IF 1 <= m THEN m - 1 + 1 ELSE 0
      /\ \A k \in 1 .. m - 1 + 1 : SubSeq(s, 1, m)[k] = s[1 + k - 1]
  BY <1>3, SubSeqProperties
<1> QED BY <1>1, <1>2, <1>4, <1>5

\* A node is drawn: the call returns to its caller.
LEMMA WriteTraceKeepsInv == DrawInv /\ WriteTrace => DrawInv'
<1> SUFFICES ASSUME DrawInv, WriteTrace PROVE DrawInv'
  OBVIOUS
<1> USE DEF DrawInv
<1> DEFINE n == Len(calls)
           c == cur.node
<1>1. PICK lines \in 1 .. MaxLines, hasTrace \in BOOLEAN, bad \in BOOLEAN :
        /\ block' = TraceLines(Contents(cur.path), lines, hasTrace)
        /\ failed' = (failed \/ bad)
        /\ e' = (e \/ bad)
  BY DEF WriteTrace
<1>2. /\ calls # << >> /\ NextChild \notin shape
      /\ above' = IF block = << >> THEN << >> ELSE Last(block)
      /\ written' = Append(written, c)
      /\ calls' = Front(calls)
      /\ shape' = shape /\ arrays' = arrays
  BY DEF WriteTrace
<1>3. /\ n \in Nat \ {0} /\ cur = calls[n] /\ cur \in Activations /\ c \in shape
      /\ c \in Seq(Nat) /\ Len(c) = n - 1 /\ cur.i \in Nat
      /\ NextChild = Append(c, cur.i)
  BY <1>2, CurrentCall DEF NextChild, Activations
<1> HIDE DEF c
<1>4. /\ calls' \in Seq(Activations) /\ Len(calls') = n - 1
      /\ \A k \in 1 .. n - 1 : calls'[k] = calls[k]
  BY <1>2, FrontOfSeq DEF TypeInv
<1>5. Contents(cur.path) = c
  BY <1>3 DEF PathsIntact, c
<1>6. /\ block' \in Seq(Lines)
      /\ Len(block') > 0
      /\ block'[1] = Pipes(c, "+")
      /\ \A k \in 2 .. Len(block') : block'[k] = Pipes(c, "|")
      /\ c # << >> => Len(block') > 1
  BY <1>1, <1>3, <1>5, TraceLinesShape
<1>7. /\ written' \in Seq(shape) /\ Len(written') = Len(written) + 1
      /\ \A k \in 1 .. Len(written) : written'[k] = written[k]
      /\ written'[Len(written) + 1] = c
      /\ Len(written) \in Nat
  BY <1>2, <1>3, AppendProperties, LenProperties DEF TypeInv
<1>8. \A q \in shape : q \in Seq(Nat)
  BY TreesAssumption DEF TypeInv
<1> HIDE DEF n
<1>9. TypeInv'
  <2>1. above' \in Lines
    <3>1. CASE block = << >>
      BY <1>2, <3>1, EmptySeq DEF Lines
    <3>2. CASE block # << >>
      <4>1. Len(block) \in 1 .. Len(block)
        BY <3>2, EmptySeq, LenProperties DEF TypeInv
      <4> QED BY <1>2, <3>2, <4>1, ElementOfSeq DEF TypeInv, Last
    <3> QED BY <3>1, <3>2
  <2> QED BY <1>2, <1>4, <1>6, <1>7, <2>1 DEF TypeInv
<1>10. StackInv' /\ SlicesInv'
  <2>1. \A k \in 1 .. n - 1 : k \in 1 .. n
    BY <1>3
  <2>2. \A k \in 1 .. (n - 1) - 1 : k \in 1 .. n - 1 /\ k + 1 \in 1 .. n - 1
    BY <1>3
  <2> QED BY <1>2, <1>4, <2>1, <2>2 DEF StackInv, SlicesInv, n
<1>11. PathsIntact'
  <2> SUFFICES ASSUME NEW k \in 1 .. n - 1
               PROVE  Contents(calls[k].path)' = calls[k].node
    BY <1>4 DEF PathsIntact
  <2>1. calls'[k] = calls[k] /\ k \in 1 .. n
    BY <1>3, <1>4
  <2>2. Contents(calls[k].path)' = Contents(calls[k].path)
    BY <1>2, <2>1 DEF Contents
  <2> QED BY <2>1, <2>2 DEF PathsIntact, n
\* What was written lies left of c or below it.
<1>12. \A q \in shape : q \in ToSet(written) <=> LeftOf(q, c) \/ (IsPrefix(c, q) /\ q # c)
  <2> SUFFICES ASSUME NEW q \in shape
               PROVE  LeftOf(q, NextChild) <=> LeftOf(q, c) \/ (IsPrefix(c, q) /\ q # c)
    BY <1>2 DEF WrittenInv
  <2>1. q \in Seq(Nat)
    BY <1>8
  <2>2. LeftOf(q, NextChild) <=>
          \/ LeftOf(q, c)
          \/ IsPrefix(c, q) /\ Len(c) < Len(q) /\ q[Len(c) + 1] < cur.i
    BY <1>3, <2>1, LeftOfChild
  <2>3. IsPrefix(c, q) /\ c # q => LeftOf(q, NextChild)
    BY <1>2, <1>3, NoMoreChildren DEF TypeInv
  <2>4. Len(c) < Len(q) => q # c
    BY <1>3
  <2> QED BY <2>2, <2>3, <2>4
<1>13. \A q : q \in ToSet(written') <=> q \in ToSet(written) \/ q = c
  <2>1. \A k \in 1 .. Len(written) + 1 : k = Len(written) + 1 \/ k \in 1 .. Len(written)
    BY <1>7
  <2>2. \A k \in 1 .. Len(written) : k \in 1 .. Len(written) + 1
    BY <1>7
  <2>3. Len(written) + 1 \in 1 .. Len(written) + 1
    BY <1>7
  <2>4. DOMAIN written = 1 .. Len(written) /\ DOMAIN written' = 1 .. Len(written) + 1
    BY <1>2, <1>7, LenProperties DEF TypeInv
  <2> QED BY <1>7, <2>1, <2>2, <2>3, <2>4 DEF ToSet
<1>14. IsPrefix(c, c)
  BY <1>3, PrefixElements, LenProperties
<1>15. \A q \in shape : q \in ToSet(written') <=> LeftOf(q, c) \/ IsPrefix(c, q)
  <2>1. ~ LeftOf(c, c)
    BY <1>3, ElementOfSeq DEF LeftOf
  <2> QED BY <1>12, <1>13, <1>14
<1> DEFINE p == calls[n - 1].node
           m == calls[n - 1].i - 1
<1>16. ASSUME n > 1
       PROVE  /\ p \in Seq(Nat) /\ m \in Nat
              /\ Len(p) + 1 = n - 1
              /\ c = Append(p, m)
              /\ NextChild' = Append(p, m + 1)
  <2>1. n - 1 \in 1 .. n - 1 /\ n - 1 \in 1 .. n /\ (n - 1) + 1 = n
    BY <1>3, <1>16
  <2>2. calls[n - 1] \in Activations
    BY <2>1, ElementOfSeq DEF TypeInv, n
  <2>3. c = Append(p, m) /\ calls[n - 1].i > 0
    BY <1>3, <2>1 DEF StackInv, n, c
  <2>4. NextChild' = Append(p, calls[n - 1].i)
    BY <1>4, <2>1 DEF NextChild, cur
  <2>5. p \in Seq(Nat) /\ calls[n - 1].i \in Nat
    BY <2>2 DEF Activations
  <2>6. m \in Nat /\ m + 1 = calls[n - 1].i
    BY <2>3, <2>5
  <2>7. Len(p) = (n - 1) - 1
    BY <2>1 DEF StackInv, n
  <2> QED BY <1>3, <2>3, <2>4, <2>5, <2>6, <2>7
<1> HIDE DEF p, m
<1>17. n = 1 => calls' = << >>
  BY <1>4, EmptySeq
<1>18. n > 1 => calls' # << >>
  BY <1>4, <1>3, EmptySeq
<1>19. WrittenInv'
  <2> SUFFICES ASSUME NEW q \in shape
               PROVE  q \in ToSet(written') <=> (calls' = << >> \/ LeftOf(q, NextChild'))
    BY <1>2 DEF WrittenInv, LeftOf
  <2>1. CASE n = 1
    <3>1. c = << >>
      BY <1>3, <2>1, EmptySeq
    <3>2. IsPrefix(c, q)
      BY <1>3, <1>8, <3>1, EmptySeq, PrefixElements, LenProperties
    <3> QED BY <1>15, <1>17, <2>1, <3>2
  <2>2. CASE n > 1
    <3>1. LeftOf(q, Append(p, m + 1)) <=> LeftOf(q, Append(p, m)) \/ IsPrefix(Append(p, m), q)
      BY <1>8, <1>16, <2>2, LeftOfSibling
    <3> QED BY <1>15, <1>16, <1>18, <2>2, <3>1
  <2> QED BY <1>3, <2>1, <2>2
<1>20. OrderInv'
  <2> SUFFICES ASSUME NEW i \in 1 .. Len(written) + 1, NEW j \in 1 .. Len(written) + 1, i < j
               PROVE  Below(written'[i], written'[j])
    BY <1>7 DEF OrderInv, Below, LeftOf
  <2>1. i \in 1 .. Len(written)
    BY <1>7
  <2>2. CASE j = Len(written) + 1
    <3>1. written[i] \in shape /\ written[i] \in ToSet(written)
      BY <2>1, ElementOfSeq, LenProperties DEF TypeInv, ToSet
    <3>2. LeftOf(written[i], c) \/ IsStrictPrefix(c, written[i])
      BY <1>12, <3>1 DEF IsStrictPrefix
    <3> QED BY <1>7, <2>1, <2>2, <3>2 DEF Below
  <2>3. CASE j # Len(written) + 1
    <3>1. j \in 1 .. Len(written)
      BY <1>7, <2>3
    <3> QED BY <1>7, <2>1, <3>1 DEF OrderInv
  <2> QED BY <2>2, <2>3
<1>21. LastInv'
  <2> SUFFICES ASSUME n > 1
               PROVE  /\ NextBefore(c, NextChild')
                      /\ block' # << >>
                      /\ Last(block') = Pipes(c, "|")
    <3>1. Last(written') = c
      BY <1>7 DEF Last
    <3>2. written' # << >> /\ calls' # << >> => n > 1
      BY <1>3, <1>17
    <3>3. NextBefore(Last(written), NextChild)' <=> NextBefore(c, NextChild')
      BY <3>1 DEF NextBefore
    <3>4. (Last(block) = Pipes(Last(written), "|"))' <=> Last(block') = Pipes(c, "|")
      BY <3>1 DEF Pipes
    <3> QED BY <3>2, <3>3, <3>4 DEF LastInv
  <2> DEFINE x == Append(p, m + 1)
  <2>1. /\ Len(x) = n - 1 /\ Len(c) = n - 1
        /\ \A k \in 1 .. Len(p) : x[k] = p[k] /\ c[k] = p[k]
        /\ x[n - 1] = m + 1 /\ c[n - 1] = m
    BY <1>16, AppendedPath
  <2> HIDE DEF x
  <2>2. NextBefore(c, x)
    <3>1. n - 1 \in 1 .. Len(x) /\ \A k \in 1 .. (n - 1) - 1 : k \in 1 .. Len(p)
      BY <1>3, <1>16, <2>1
    <3>2. \A k \in (n - 1) + 1 .. Len(x) : FALSE
      BY <1>3, <2>1
    <3>3. x[n - 1] > 0 /\ c[n - 1] = x[n - 1] - 1
      BY <1>16, <2>1
    <3> QED BY <2>1, <3>1, <3>2, <3>3 DEF NextBefore
  <2>3. c # << >>
    BY <1>3
  <2>4. Len(block') \in Nat /\ Len(block') \in 2 .. Len(block')
    BY <1>6, <2>3, LenProperties
  <2>5. Last(block') = Pipes(c, "|")
    BY <1>6, <2>4 DEF Last
  <2>6. block' # << >>
    BY <1>6, EmptySeq
  <2>7. NextChild' = x
    BY <1>16 DEF x
  <2> QED BY <2>2, <2>5, <2>6, <2>7
<1>22. PipesConnected'
  <2> DEFINE top == IF Len(written') > 1 THEN <<above'>> ELSE << >>
  <2>1. /\ top \in Seq(Lines)
        /\ Len(top) = 0 \/ Len(top) = 1
        /\ Len(top) = 1 => Len(written') > 1 /\ top[1] = above'
    BY <1>9 DEF TypeInv
  <2>2. ASSUME Len(written') > 1 PROVE Connected(above', block'[1])
    <3>1. written # << >>
      BY <1>7, <2>2, EmptySeq
    <3>2. /\ NextBefore(Last(written), NextChild)
          /\ above' = Pipes(Last(written), "|")
      BY <1>2, <3>1 DEF LastInv
    <3>3. Last(written) \in shape
      BY <1>7, <2>2, ElementOfSeq DEF TypeInv, Last
    <3> QED BY <1>3, <1>6, <1>8, <3>2, <3>3, NextNodeConnected
  <2>3. ASSUME NEW k \in 1 .. Len(block') - 1
        PROVE  Connected(block'[k], block'[k + 1])
    <3>1. Len(block') \in Nat
      BY <1>6, LenProperties
    <3>2. block'[k + 1] = Pipes(c, "|")
      BY <1>6, <3>1
    <3>3. block'[k] = Pipes(c, "+") \/ block'[k] = Pipes(c, "|")
      BY <1>6, <3>1
    <3> QED BY <1>3, <3>2, <3>3, NodeConnected
  <2> HIDE DEF top
  <2>4. \A k \in 1 .. Len(top \o block') - 1 :
          Connected((top \o block')[k], (top \o block')[k + 1])
    BY <1>6, <2>1, <2>2, <2>3, ConnectedLines
  <2> QED BY <2>4 DEF PipesConnected, Connected, Line, top
<1>23. ErrorInv'
  BY <1>1 DEF ErrorInv
<1> QED BY <1>9, <1>10, <1>11, <1>19, <1>20, <1>21, <1>22, <1>23
----------------------------------------------------------------------------
LEMMA DrawInvariant == Spec => []DrawInv
<1>1. DrawInv /\ [Next]_vars => DrawInv'
  <2> SUFFICES ASSUME DrawInv, [Next]_vars PROVE DrawInv'
    OBVIOUS
  <2>1. CASE Descend
    BY <2>1, DescendKeepsInv
  <2>2. CASE WriteTrace
    BY <2>2, WriteTraceKeepsInv
  <2>3. CASE UNCHANGED vars
    <3>1. /\ shape' = shape /\ calls' = calls /\ arrays' = arrays /\ written' = written
          /\ above' = above /\ block' = block /\ failed' = failed /\ e' = e
      BY <2>3 DEF vars
    <3>2. TypeInv' /\ StackInv' /\ SlicesInv' /\ ErrorInv'
      BY <3>1 DEF DrawInv, TypeInv, StackInv, SlicesInv, ErrorInv
    <3>3. PathsIntact'
      BY <3>1 DEF DrawInv, PathsIntact, Contents
    <3>4. NextChild' = NextChild
      BY <3>1 DEF NextChild, cur
    <3>5. WrittenInv'
      BY <3>1, <3>4 DEF DrawInv, WrittenInv, LeftOf
    <3>6. LastInv'
      BY <3>1, <3>4 DEF DrawInv, LastInv, NextBefore
    <3>7. OrderInv'
      BY <3>1 DEF DrawInv, OrderInv
    <3>8. PipesConnected'
      BY <3>1 DEF DrawInv, PipesConnected
    <3> QED BY <3>2, <3>3, <3>5, <3>6, <3>7, <3>8 DEF DrawInv
  <2> QED BY <2>1, <2>2, <2>3 DEF Next
<1> QED BY <1>1, DrawInitInv, PTL DEF Spec

\* Every call stands at a node of the tree, with a path slice as long as the
\* call is deep, and only nodes of the tree are drawn.
THEOREM TypeCorrect == Spec => []TypeOK
<1>1. DrawInv => TypeOK
  <2> SUFFICES ASSUME DrawInv, NEW k \in 1 .. Len(calls)
               PROVE  /\ calls[k].node \in shape
                      /\ calls[k].path.array \in ArrayIds \union {None}
                      /\ calls[k].path.len = Len(calls[k].node)
    BY DEF DrawInv, TypeInv, TypeOK
  <2>1. calls[k] \in Activations
    BY ElementOfSeq DEF DrawInv, TypeInv
  <2> QED BY <2>1 DEF DrawInv, StackInv, Activations, Slices
<1> QED BY <1>1, DrawInvariant, PTL

\* No append for one child is seen by another active call: append(path, i)
\* may share the array, but only past what any caller reads.
THEOREM PathsStayIntact == Spec => []PathsIntact
<1>1. DrawInv => PathsIntact
  BY DEF DrawInv
<1> QED BY <1>1, DrawInvariant, PTL

\* Every pipe drawn connects to the line above it, between the lines of a
\* node and from one node to the next.
THEOREM PipesAlwaysConnect == Spec => []PipesConnected
<1>1. DrawInv => PipesConnected
  BY DEF DrawInv
<1> QED BY <1>1, DrawInvariant, PTL

\* Nodes are drawn in depth-first order, and all of them by the end.
THEOREM DrawnDepthFirst == Spec => []DepthFirst
<1>1. DrawInv => DepthFirst
  <2> SUFFICES ASSUME DrawInv, calls = << >>
               PROVE  ToSet(written) = shape
    BY DEF DepthFirst, DrawInv, OrderInv
  <2>1. ToSet(written) \subseteq shape
    BY ElementOfSeq, LenProperties DEF DrawInv, TypeInv, ToSet
  <2> QED BY <2>1 DEF DrawInv, WrittenInv
<1> QED BY <1>1, DrawInvariant, PTL

\* Format fails exactly if a write failed.
THEOREM FailuresReported == Spec => []FailureReported
<1>1. DrawInv => FailureReported
  BY DEF DrawInv, ErrorInv, FailureReported
<1> QED BY <1>1, DrawInvariant, PTL
============================================================================
