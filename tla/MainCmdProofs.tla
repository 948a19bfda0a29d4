--------------------------- MODULE MainCmdProofs ---------------------------
(***************************************************************************)
(* What the command does to the files it is given, for any files, command  *)
(* lines and failures: FilesIntact, GofmtGuards and EveryFileProcessed;    *)
(* then what it prints: ListAgrees, RunAgain and CallsResolve.             *)
(***************************************************************************)
EXTENDS MainCmd, FiniteSetTheorems, WellFoundedInduction, TLAPS

(***************************************************************************)
(* What the command writes into a file, it recognises: rewriting a file    *)
(* that was rewritten changes nothing, whatever the file imports.          *)
(***************************************************************************)
\* A set of positive numbers that is not empty has a least element.
LEMMA LeastNumber ==
  ASSUME NEW S, S \subseteq Nat, S # {}
  PROVE  \E x \in S : \A y \in S : x <= y
<1>1. PICK x \in S : \A y \in S : ~ (<<y, x>> \in OpToRel(<, Nat))
  BY NatLessThanWellFounded, WFMin
<1>2. \A y \in S : <<y, x>> \in OpToRel(<, Nat) <=> y < x
  BY DEF OpToRel
<1>3. \A y \in S : ~ (y < x)
  BY <1>1, <1>2, Zenon
<1> QED BY <1>3

\* The search for a name ends: among one candidate more than the file has
\* identifiers, one is free, and the first free one is found.
LEMMA FreeNameFound ==
  ASSUME NEW src, IsFiniteSet(Idents(src))
  PROVE  FreeName(src) \in Nat /\ FreeName(src) >= 1 /\ FreeName(src) \notin Idents(src)
<1> DEFINE n == Cardinality(Idents(src))
           Free == {k \in 1 .. n + 1 : k \notin Idents(src)}
<1>1. n \in Nat
  BY FS_CardinalityType
<1>2. Free # {}
  <2>1. SUFFICES ASSUME 1 .. n + 1 \subseteq Idents(src)
                 PROVE  FALSE
    OBVIOUS
  <2>2. Cardinality(1 .. n + 1) <= n
    BY <2>1, FS_Subset
  <2>3. Cardinality(1 .. n + 1) = n + 1
    BY <1>1, FS_Interval
  <2> QED BY <1>1, <2>2, <2>3
<1>3. PICK k \in Free : \A j \in Free : k <= j
  <2>1. Free \subseteq Nat
    BY <1>1
  <2> QED BY <1>2, <2>1, LeastNumber
<1>4. k \in 1 .. n + 1 /\ k \notin Idents(src)
  OBVIOUS
<1>5. \A j \in 1 .. k - 1 : j \in Idents(src)
  BY <1>1, <1>3, <1>4
<1> QED BY <1>1, <1>4, <1>5 DEF FreeName

\* The least of a set of numbers.
LEMMA MinIsLeast ==
  ASSUME NEW S, S \subseteq Nat, S # {}
  PROVE  Min(S) \in S /\ \A y \in S : Min(S) <= y
BY LeastNumber, Zenon DEF Min

\* The import parseFile takes is the first that it can use.
LEMMA FirstUsable ==
  ASSUME NEW src, src \in Source
  PROVE  /\ Usable(src) \subseteq 1 .. Len(src.imports) /\ Len(src.imports) \in Nat
         /\ UsableImport(src) = 0 <=> Usable(src) = {}
         /\ Usable(src) # {} => /\ UsableImport(src) \in Usable(src)
                                /\ \A j \in Usable(src) : UsableImport(src) <= j
<1>1. Usable(src) \subseteq 1 .. Len(src.imports) /\ Len(src.imports) \in Nat
  BY DEF Usable, Source
<1>2. Usable(src) \subseteq Nat /\ 0 \notin Usable(src)
  BY <1>1
<1>3. CASE Usable(src) = {}
  BY <1>1, <1>3 DEF UsableImport
<1>4. CASE Usable(src) # {}
  <2>1. Min(Usable(src)) \in Usable(src) /\ \A j \in Usable(src) : Min(Usable(src)) <= j
    BY <1>2, <1>4, MinIsLeast
  <2>2. UsableImport(src) = Min(Usable(src))
    BY <1>4 DEF UsableImport
  <2> QED BY <1>1, <1>2, <1>4, <2>1, <2>2
<1> QED BY <1>3, <1>4

\* Its name is the one that is used.
LEMMA UsedName ==
  ASSUME NEW src, src \in Source, UsableImport(src) # 0
  PROVE  LET u == UsableImport(src) IN
         /\ u \in Usable(src) /\ u \in 1 .. Len(src.imports)
         /\ src.imports[u] \in Import /\ src.imports[u] \in ToSet(src.imports)
         /\ IsErrtrace(src.imports[u]) /\ src.imports[u].name # Blank
         /\ ErrtracePkg(src) = src.imports[u].name /\ ErrtracePkg(src) \in Names
<1>1. UsableImport(src) \in Usable(src) /\ UsableImport(src) \in 1 .. Len(src.imports)
  BY FirstUsable
<1>2. src.imports[UsableImport(src)] \in Import /\ src.imports[UsableImport(src)] \in ToSet(src.imports)
  BY <1>1 DEF Source, ToSet
<1>3. src.imports[UsableImport(src)].name \in Names
  BY <1>2 DEF Import
<1> QED BY <1>1, <1>2, <1>3 DEF Usable, ErrtracePkg

\* The chosen name is a name, and not the blank one.
LEMMA PkgIsUsable ==
  ASSUME NEW src, IsSource(src)
  PROVE  ErrtracePkg(src) \in Names /\ ErrtracePkg(src) # Blank
<1>1. CASE UsableImport(src) # 0
  BY <1>1, UsedName DEF IsSource
<1>2. CASE UsableImport(src) = 0
  BY <1>2, FreeNameFound DEF ErrtracePkg, IsSource, Names, Dot, Blank
<1> QED BY <1>1, <1>2

----------------------------------------------------------------------------
(***************************************************************************)
(* Before is the strict order in which gofmt sorts imports.                *)
(***************************************************************************)
LEMMA BeforeIsOrder ==
  ASSUME NEW a \in Import, NEW b \in Import, NEW c \in Import
  PROVE  /\ ~Before(a, a)
         /\ Before(a, b) /\ Before(b, c) => Before(a, c)
         /\ ~(Before(a, b) /\ Before(b, a))
<1>1. /\ a.run \in Nat /\ a.path \in Int /\ a.spelt \in BOOLEAN /\ a.name \in Int
      /\ b.run \in Nat /\ b.path \in Int /\ b.spelt \in BOOLEAN /\ b.name \in Int
      /\ c.run \in Nat /\ c.path \in Int /\ c.spelt \in BOOLEAN /\ c.name \in Int
  BY DEF Import, Names
<1> QED BY <1>1 DEF Before

\* Imports of a file that differ are sorted.
LEMMA BeforeIsTotal ==
  ASSUME NEW a \in Import, NEW b \in Import, a # b,
         a.run = b.run => a.group = b.group
  PROVE  Before(a, b) \/ Before(b, a)
<1>1. /\ a.run \in Nat /\ a.path \in Int /\ a.spelt \in BOOLEAN /\ a.name \in Int
      /\ b.run \in Nat /\ b.path \in Int /\ b.spelt \in BOOLEAN /\ b.name \in Int
  BY DEF Import, Names
<1>2. a = [path |-> a.path, name |-> a.name, spelt |-> a.spelt, group |-> a.group, run |-> a.run]
  BY DEF Import
<1>3. b = [path |-> b.path, name |-> b.name, spelt |-> b.spelt, group |-> b.group, run |-> b.run]
  BY DEF Import
<1>4. ~(a.path = b.path /\ a.name = b.name /\ a.spelt = b.spelt /\ a.run = b.run)
  BY <1>2, <1>3
<1> QED BY <1>1, <1>4 DEF Before

\* A sequence with one element more.
Inserted(t, at, x) ==
  [j \in 1 .. Len(t) + 1 |-> IF j <= at THEN t[j] ELSE IF j = at + 1 THEN x ELSE t[j - 1]]

\* Its elements.
IsInserted(new, t, at, x) ==
  /\ DOMAIN new = 1 .. Len(t) + 1 /\ Len(new) = Len(t) + 1
  /\ \A j \in 1 .. at : new[j] = t[j]
  /\ new[at + 1] = x
  /\ \A j \in at + 2 .. Len(t) + 1 : new[j] = t[j - 1]
  /\ ToSet(new) = ToSet(t) \union {x}

LEMMA InsertedHas ==
  ASSUME NEW t, Len(t) \in Nat, DOMAIN t = 1 .. Len(t), NEW at, at \in 0 .. Len(t), NEW x,
         NEW new, new = Inserted(t, at, x)
  PROVE  IsInserted(new, t, at, x)
<1> DEFINE n == Len(t)
<1>1. DOMAIN new = 1 .. n + 1 /\ Len(new) = n + 1 /\ n \in Nat
  BY DEF Inserted
<1>2. \A j \in 1 .. n + 1 :
        new[j] = IF j <= at THEN t[j] ELSE IF j = at + 1 THEN x ELSE t[j - 1]
  BY DEF Inserted
<1>3. DOMAIN t = 1 .. n
  OBVIOUS
<1> HIDE DEF n
<1>4. at \in 0 .. n
  BY DEF n
<1>5. \A j \in 1 .. at : new[j] = t[j]
  BY <1>1, <1>2, <1>4
<1>6. new[at + 1] = x
  BY <1>1, <1>2, <1>4
<1>7. \A j \in at + 2 .. n + 1 : new[j] = t[j - 1]
  BY <1>1, <1>2, <1>4
<1>8. ToSet(new) = ToSet(t) \union {x}
  <2>1. ASSUME NEW j \in 1 .. n + 1
        PROVE  new[j] \in ToSet(t) \union {x}
    <3>1. CASE j <= at
      BY <1>1, <1>3, <1>4, <1>5, <3>1 DEF ToSet
    <3>2. CASE j = at + 1
      BY <1>6, <3>2
    <3>3. CASE j > at + 1
      <4>1. new[j] = t[j - 1] /\ j - 1 \in 1 .. n
        BY <1>1, <1>4, <1>7, <3>3
      <4> QED BY <1>3, <4>1 DEF ToSet
    <3> QED BY <1>1, <1>4, <3>1, <3>2, <3>3
  <2>2. ASSUME NEW j \in 1 .. n
        PROVE  t[j] \in ToSet(new)
    <3>1. CASE j <= at
      <4>1. new[j] = t[j] /\ j \in 1 .. n + 1
        BY <1>1, <1>4, <1>5, <3>1
      <4> QED BY <1>1, <4>1 DEF ToSet
    <3>2. CASE j > at
      <4>1. j + 1 \in at + 2 .. n + 1 /\ (j + 1) - 1 = j /\ j + 1 \in 1 .. n + 1
        BY <1>1, <1>4, <3>2
      <4>2. new[j + 1] = t[j]
        BY <1>7, <4>1
      <4> QED BY <1>1, <4>1, <4>2 DEF ToSet
    <3> QED BY <1>1, <1>4, <3>1, <3>2
  <2>3. x \in ToSet(new)
    <3>1. at + 1 \in 1 .. n + 1
      BY <1>1, <1>4
    <3> QED BY <1>1, <1>6, <3>1 DEF ToSet
  <2> QED BY <1>1, <1>3, <2>1, <2>2, <2>3 DEF ToSet
<1> QED BY <1>1, <1>5, <1>6, <1>7, <1>8 DEF n, IsInserted

\* Every finite set of imports that differ in what they are sorted by can be
\* sorted: all but one of them, and the last one put in its place.
CanSort(S) ==
  \E t \in [1 .. Cardinality(S) -> S] : ToSet(t) = S /\ Sorted(t)

LEMMA SortExists ==
  ASSUME NEW All, All \subseteq Import,
         \A a, b \in All : a # b => Before(a, b) \/ Before(b, a)
  PROVE  \A S \in SUBSET All : IsFiniteSet(S) => CanSort(S)
<1> DEFINE Bad == {n \in Nat : \E S \in SUBSET All :
                     IsFiniteSet(S) /\ Cardinality(S) = n /\ ~CanSort(S)}
<1> SUFFICES ASSUME Bad # {}
             PROVE  FALSE
  BY FS_CardinalityType
<1>1. PICK n \in Bad : \A m \in Bad : n <= m
  <2>1. Bad \subseteq Nat
    OBVIOUS
  <2> QED BY <2>1, LeastNumber
<1>2. PICK S \in SUBSET All : IsFiniteSet(S) /\ Cardinality(S) = n /\ ~CanSort(S)
  BY <1>1
<1>3. n \in Nat
  OBVIOUS
<1>4. S # {}
  <2> SUFFICES ASSUME S = {}
               PROVE  FALSE
    OBVIOUS
  <2>1. Cardinality(S) = 0
    BY FS_EmptySet
  <2>2. << >> \in [1 .. 0 -> S] /\ ToSet(<< >>) = S /\ Sorted(<< >>)
    BY DEF ToSet, Sorted
  <2> QED BY <1>2, <2>1, <2>2 DEF CanSort
<1>5. PICK x \in S : TRUE
  BY <1>4
<1> DEFINE R == S \ {x}
<1>6. IsFiniteSet(R) /\ Cardinality(R) = n - 1 /\ n - 1 \in Nat
  <2>1. IsFiniteSet(R) /\ Cardinality(R) = n - 1
    BY <1>2, <1>5, FS_RemoveElement
  <2> QED BY <2>1, FS_CardinalityType
<1>7. CanSort(R)
  <2>1. n - 1 \notin Bad
    BY <1>1, <1>3
  <2>2. R \in SUBSET All
    OBVIOUS
  <2> QED BY <1>6, <2>1, <2>2
<1>8. PICK t \in [1 .. n - 1 -> R] : ToSet(t) = R /\ Sorted(t)
  BY <1>6, <1>7 DEF CanSort
<1> HIDE DEF Bad
<1>9. Len(t) = n - 1 /\ DOMAIN t = 1 .. n - 1 /\ \A j \in 1 .. n - 1 : t[j] \in R
  BY <1>6, <1>8
<1> DEFINE After == {k \in 1 .. n : k = n \/ Before(x, t[k])}
<1>10. PICK p \in After : \A k \in After : p <= k
  <2>1. n \in After /\ After \subseteq Nat
    BY <1>3, <1>6
  <2> QED BY <2>1, LeastNumber
<1>11. p \in 1 .. n /\ p - 1 \in 0 .. n - 1
  BY <1>3, <1>10
<1>12. \A k \in 1 .. p - 1 : k \in 1 .. n - 1 /\ Before(t[k], x)
  <2> SUFFICES ASSUME NEW k \in 1 .. p - 1
               PROVE  k \in 1 .. n - 1 /\ Before(t[k], x)
    OBVIOUS
  <2>1. k \in 1 .. n - 1 /\ k \notin After
    BY <1>3, <1>10, <1>11
  <2>2. ~Before(x, t[k]) /\ t[k] \in R
    BY <1>3, <1>9, <2>1
  <2>3. t[k] # x /\ t[k] \in All /\ x \in All
    BY <1>2, <1>5, <2>2
  <2> QED BY <2>1, <2>2, <2>3
<1>13. \A k \in p .. n - 1 : Before(x, t[k])
  <2> SUFFICES ASSUME NEW k \in p .. n - 1
               PROVE  Before(x, t[k])
    OBVIOUS
  <2>1. p \in 1 .. n - 1 /\ k \in 1 .. n - 1 /\ p # n
    BY <1>3, <1>11
  <2>2. Before(x, t[p])
    BY <1>10, <2>1
  <2>3. k = p \/ Before(t[p], t[k])
    BY <1>8, <1>9, <1>11, <2>1 DEF Sorted
  <2>4. x \in Import /\ t[p] \in Import /\ t[k] \in Import
    BY <1>2, <1>5, <1>9, <2>1
  <2> QED BY <2>2, <2>3, <2>4, BeforeIsOrder
<1> HIDE DEF After
<1>14. PICK at : at = p - 1
  OBVIOUS
<1>15. PICK new : new = Inserted(t, at, x)
  OBVIOUS
<1>16. /\ DOMAIN new = 1 .. n /\ Len(new) = n
       /\ \A j \in 1 .. p - 1 : new[j] = t[j]
       /\ new[p] = x
       /\ \A j \in p + 1 .. n : new[j] = t[j - 1]
       /\ ToSet(new) = S
  <2>1. Len(t) \in Nat /\ DOMAIN t = 1 .. Len(t) /\ at \in 0 .. Len(t)
    BY <1>6, <1>9, <1>11, <1>14
  <2>2. /\ DOMAIN new = 1 .. Len(t) + 1 /\ Len(new) = Len(t) + 1
        /\ \A j \in 1 .. at : new[j] = t[j]
        /\ new[at + 1] = x
        /\ \A j \in at + 2 .. Len(t) + 1 : new[j] = t[j - 1]
        /\ ToSet(new) = ToSet(t) \union {x}
    <3>1. IsInserted(new, t, at, x)
      BY <1>15, <2>1, InsertedHas, Zenon
    <3> QED BY <3>1 DEF IsInserted
  <2>3. at = p - 1 /\ at + 1 = p /\ at + 2 = p + 1 /\ Len(t) + 1 = n
    BY <1>3, <1>9, <1>11, <1>14
  <2>4. ToSet(t) \union {x} = S
    BY <1>5, <1>8
  <2> QED BY <2>2, <2>3, <2>4
<1>17. new \in [1 .. n -> S]
  <2>1. \A j \in 1 .. n : new[j] \in S
    BY <1>16 DEF ToSet
  <2>2. new = [j \in DOMAIN new |-> new[j]]
    BY <1>15 DEF Inserted
  <2> QED BY <1>16, <2>1, <2>2
<1> HIDE DEF R
<1>18. Sorted(new)
  <2> SUFFICES ASSUME NEW j \in 1 .. n, NEW k \in 1 .. n, j < k
               PROVE  Before(new[j], new[k])
    BY <1>16 DEF Sorted
  <2>1. CASE k < p
    <3>1. j \in 1 .. p - 1 /\ k \in 1 .. p - 1 /\ j \in 1 .. n - 1 /\ k \in 1 .. n - 1
      BY <1>3, <1>11, <2>1
    <3> QED BY <1>8, <1>9, <1>16, <3>1 DEF Sorted
  <2>2. CASE k = p
    <3>1. j \in 1 .. p - 1
      BY <1>11, <2>2
    <3> QED BY <1>12, <1>16, <2>2, <3>1
  <2>3. CASE k > p /\ j < p
    <3>1. j \in 1 .. p - 1 /\ k \in p + 1 .. n /\ k - 1 \in 1 .. n - 1 /\ j < k - 1 /\ j \in 1 .. n - 1
      BY <1>3, <1>11, <2>3
    <3> QED BY <1>8, <1>9, <1>16, <3>1 DEF Sorted
  <2>4. CASE k > p /\ j = p
    <3>1. k \in p + 1 .. n /\ k - 1 \in p .. n - 1
      BY <1>3, <1>11, <2>4
    <3> QED BY <1>13, <1>16, <2>4, <3>1
  <2>5. CASE k > p /\ j > p
    <3>1. /\ j \in p + 1 .. n /\ k \in p + 1 .. n /\ j - 1 \in 1 .. n - 1 /\ k - 1 \in 1 .. n - 1
          /\ j - 1 < k - 1
      BY <1>3, <1>11, <2>5
    <3> QED BY <1>8, <1>9, <1>16, <3>1 DEF Sorted
  <2> QED BY <1>11, <2>1, <2>2, <2>3, <2>4, <2>5
<1> QED BY <1>2, <1>16, <1>17, <1>18 DEF CanSort

\* The imports of a file come in finitely many, each at its place.
LEMMA ImportSet ==
  ASSUME NEW imports, imports \in Seq(Import)
  PROVE  /\ IsFiniteSet(ToSet(imports)) /\ ToSet(imports) \subseteq Import
         /\ DOMAIN imports = 1 .. Len(imports) /\ Len(imports) \in Nat
         /\ \A a \in ToSet(imports) : \E j \in 1 .. Len(imports) : imports[j] = a
<1>1. DOMAIN imports = 1 .. Len(imports) /\ Len(imports) \in Nat
  OBVIOUS
<1>2. ToSet(imports) \subseteq Import
  BY <1>1 DEF ToSet
<1>3. \A a \in ToSet(imports) : \E j \in 1 .. Len(imports) : imports[j] = a
  BY <1>1 DEF ToSet
<1>4. IsFiniteSet(ToSet(imports))
  <2>1. imports \in Surjection(1 .. Len(imports), ToSet(imports))
    <3>1. imports \in [1 .. Len(imports) -> ToSet(imports)]
      BY <1>1 DEF ToSet
    <3> QED BY <1>3, <3>1 DEF Surjection
  <2>2. IsFiniteSet(1 .. Len(imports))
    BY <1>1, FS_Interval
  <2> QED BY <2>1, <2>2, FS_Surjection
<1> QED BY <1>1, <1>2, <1>3, <1>4

\* What gofmt makes of the imports: the same ones, sorted.
LEMMA SortedImports ==
  ASSUME NEW imports, imports \in Seq(Import), RunsAscend(imports)
  PROVE  LET t == SortImports(imports) IN
         /\ t \in Seq(Import) /\ ToSet(t) = ToSet(imports) /\ Sorted(t)
         /\ RunsAscend(t)
<1> DEFINE S == ToSet(imports)
           t == SortImports(imports)
<1>1. /\ IsFiniteSet(S) /\ S \subseteq Import
      /\ \A a \in S : \E j \in 1 .. Len(imports) : imports[j] = a
      /\ Len(imports) \in Nat
  BY ImportSet
<1>2. \A a, b \in S : a # b /\ a.run = b.run => a.group /\ b.group
  <2> SUFFICES ASSUME NEW a \in S, NEW b \in S, a # b, a.run = b.run
               PROVE  a.group /\ b.group
    OBVIOUS
  <2>1. PICK j \in 1 .. Len(imports), k \in 1 .. Len(imports) : imports[j] = a /\ imports[k] = b
    BY <1>1
  <2>2. j < k \/ k < j
    BY <1>1, <2>1
  <2> QED BY <2>1, <2>2 DEF RunsAscend
<1>3. CanSort(S)
  <2>1. \A a, b \in S : a # b => Before(a, b) \/ Before(b, a)
    <3> SUFFICES ASSUME NEW a \in S, NEW b \in S, a # b
                 PROVE  Before(a, b) \/ Before(b, a)
      OBVIOUS
    <3>1. a \in Import /\ b \in Import /\ a.group \in BOOLEAN /\ b.group \in BOOLEAN
      BY <1>1 DEF Import
    <3>2. a.run = b.run => a.group = b.group
      BY <1>2, <3>1
    <3> QED BY <3>1, <3>2, BeforeIsTotal
  <2> QED BY <1>1, <2>1, SortExists
<1>4. t \in [1 .. Cardinality(S) -> S] /\ ToSet(t) = S /\ Sorted(t)
  BY <1>3, Zenon DEF CanSort, SortImports
<1>5. Cardinality(S) \in Nat
  BY <1>1, FS_CardinalityType
<1> HIDE DEF S, t
<1>6. t \in Seq(Import) /\ DOMAIN t = 1 .. Len(t)
  <2>1. t \in Seq(S)
    BY <1>4, <1>5
  <2> QED BY <1>1, <2>1
<1>7. RunsAscend(t)
  <2> SUFFICES ASSUME NEW j \in 1 .. Len(t), NEW k \in 1 .. Len(t), j < k
               PROVE  /\ t[j].run <= t[k].run
                      /\ t[j].run = t[k].run => t[j].group /\ t[k].group
    BY DEF RunsAscend
  <2>1. t[j] \in S /\ t[k] \in S /\ t[j] \in Import /\ t[k] \in Import /\ Before(t[j], t[k])
    BY <1>1, <1>4, <1>6 DEF Sorted, ToSet
  <2>2. t[j] # t[k]
    BY <2>1, BeforeIsOrder
  <2>3. t[j].run \in Nat /\ t[k].run \in Nat
    BY <2>1 DEF Import
  <2>4. t[j].run <= t[k].run
    BY <2>1, <2>3 DEF Before
  <2> QED BY <1>2, <2>1, <2>2, <2>4
<1> QED BY <1>4, <1>6, <1>7 DEF S, t

\* Whether there is an import to use depends on the set of imports.
LEMMA UsableInSet ==
  ASSUME NEW src, src \in Source
  PROVE  Usable(src) = {} <=> ~ \E imp \in ToSet(src.imports) : IsErrtrace(imp) /\ imp.name # Blank
<1>1. DOMAIN src.imports = 1 .. Len(src.imports)
  BY DEF Source
<1> QED BY <1>1 DEF Usable, ToSet

\* gofmt makes a file of a file; doing it again changes nothing.
LEMMA GofmtFile ==
  ASSUME NEW src, IsSource(src)
  PROVE  LET out == Gofmt(src) IN
         /\ IsSource(out) /\ InOrder(out)
         /\ ToSet(out.imports) = ToSet(src.imports) /\ Sorted(out.imports)
         /\ out.locals = src.locals /\ out.sites = src.sites /\ out.parses = src.parses
         /\ Idents(out) = Idents(src)
         /\ UsableImport(out) = 0 <=> UsableImport(src) = 0
         /\ Gofmt(out) = out
<1> DEFINE out == Gofmt(src)
           t == SortImports(src.imports)
<1>1. src \in Source /\ src.imports \in Seq(Import) /\ RunsAscend(src.imports)
      /\ IsFiniteSet(Idents(src))
  BY DEF IsSource, Source
<1>2. t \in Seq(Import) /\ ToSet(t) = ToSet(src.imports) /\ Sorted(t) /\ RunsAscend(t)
  BY <1>1, SortedImports
<1>3. out = [imports |-> t, locals |-> src.locals, sites |-> src.sites,
             formatted |-> TRUE, parses |-> src.parses]
  <2>1. out = [src EXCEPT !.imports = t, !.formatted = TRUE]
    BY DEF Gofmt
  <2> HIDE DEF t, out
  <2> QED BY <1>1, <2>1 DEF Source
<1>4. SortImports(t) = t
  BY <1>2 DEF SortImports
<1>5. Gofmt(out) = out
  BY <1>3, <1>4 DEF Gofmt
<1> HIDE DEF t
<1>6. /\ out.imports = t /\ out.locals = src.locals /\ out.sites = src.sites
      /\ out.parses = src.parses
  BY <1>3
<1>7. out \in Source
  BY <1>1, <1>2, <1>3 DEF Source
<1> HIDE DEF out
<1>8. Idents(out) = Idents(src)
  BY <1>2, <1>6 DEF Idents
<1>9. UsableImport(out) = 0 <=> UsableImport(src) = 0
  <2>1. Usable(out) = {} <=> Usable(src) = {}
    BY <1>1, <1>2, <1>6, <1>7, UsableInSet
  <2> QED BY <1>1, <1>7, <2>1, FirstUsable
<1>10. InOrder(out)
  <2> SUFFICES ASSUME NEW j \in Usable(out), NEW k \in Usable(out), j < k
               PROVE  ~Before(out.imports[k], out.imports[j])
    BY DEF InOrder
  <2>1. j \in 1 .. Len(t) /\ k \in 1 .. Len(t) /\ t[j] \in Import /\ t[k] \in Import /\ DOMAIN t = 1 .. Len(t)
    BY <1>2, <1>6 DEF Usable
  <2>2. Before(t[j], t[k])
    BY <1>2, <2>1 DEF Sorted
  <2> QED BY <1>6, <2>1, <2>2, BeforeIsOrder
<1> QED BY <1>1, <1>2, <1>5, <1>6, <1>7, <1>8, <1>9, <1>10 DEF IsSource, out

\* If it leaves imports of errtrace in order, gofmt changes nothing of what the
\* rewriter looks at.
LEMMA GofmtKeeps ==
  ASSUME NEW src, IsSource(src), InOrder(src)
  PROVE  /\ ErrtracePkg(Gofmt(src)) = ErrtracePkg(src)
         /\ HasInserts(Gofmt(src)) <=> HasInserts(src)
<1> DEFINE out == Gofmt(src)
<1>1. /\ IsSource(out) /\ src \in Source /\ out \in Source
      /\ ToSet(out.imports) = ToSet(src.imports) /\ Sorted(out.imports)
      /\ out.sites = src.sites /\ Idents(out) = Idents(src)
      /\ UsableImport(out) = 0 <=> UsableImport(src) = 0
  BY GofmtFile DEF IsSource
<1> HIDE DEF out
<1>2. ErrtracePkg(out) = ErrtracePkg(src)
  <2>1. CASE UsableImport(src) = 0
    BY <1>1, <2>1 DEF ErrtracePkg, FreeName
  <2>2. CASE UsableImport(src) # 0
    <3>1. PICK u, v : u = UsableImport(src) /\ v = UsableImport(out)
      OBVIOUS
    <3>2. /\ u \in Usable(src) /\ u \in 1 .. Len(src.imports) /\ src.imports[u] \in ToSet(src.imports)
          /\ IsErrtrace(src.imports[u]) /\ src.imports[u].name # Blank
          /\ src.imports[u] \in Import
          /\ ErrtracePkg(src) = src.imports[u].name
      BY <1>1, <2>2, <3>1, UsedName
    <3>3. /\ v \in Usable(out) /\ v \in 1 .. Len(out.imports) /\ out.imports[v] \in ToSet(out.imports)
          /\ IsErrtrace(out.imports[v]) /\ out.imports[v].name # Blank
          /\ out.imports[v] \in Import
          /\ ErrtracePkg(out) = out.imports[v].name
      BY <1>1, <2>2, <3>1, UsedName
    <3>4. /\ DOMAIN src.imports = 1 .. Len(src.imports) /\ Len(src.imports) \in Nat
          /\ DOMAIN out.imports = 1 .. Len(out.imports) /\ Len(out.imports) \in Nat
      BY <1>1 DEF Source
    <3>5. PICK k \in 1 .. Len(src.imports) : src.imports[k] = out.imports[v]
      BY <1>1, <3>3, <3>4 DEF ToSet
    <3>6. k \in Usable(src)
      BY <3>3, <3>5 DEF Usable
    <3>7. u <= k
      BY <1>1, <3>1, <3>6, FirstUsable
    <3>8. PICK w \in 1 .. Len(out.imports) : out.imports[w] = src.imports[u]
      BY <1>1, <3>2, <3>4 DEF ToSet
    <3>9. w \in Usable(out)
      BY <3>2, <3>8 DEF Usable
    <3>10. v <= w
      BY <1>1, <3>1, <3>9, FirstUsable
    <3>11. CASE u = k
      BY <3>2, <3>3, <3>5, <3>11
    <3>12. CASE u < k /\ v < w
      <4>1. Before(out.imports[v], out.imports[w])
        BY <1>1, <3>4, <3>3, <3>8, <3>12 DEF Sorted
      <4>2. ~Before(src.imports[k], src.imports[u])
        BY <3>2, <3>6, <3>12 DEF InOrder
      <4> QED BY <3>5, <3>8, <4>1, <4>2
    <3>13. CASE v = w
      BY <3>2, <3>3, <3>8, <3>13
    <3> QED BY <3>4, <3>7, <3>10, <3>11, <3>12, <3>13, <3>2, <3>3
  <2> QED BY <2>1, <2>2
<1>3. Unwrapped(out) = Unwrapped(src)
  BY <1>1, <1>2 DEF Unwrapped
<1> QED BY <1>2, <1>3 DEF HasInserts, out

\* The last import in parentheses.
LEMMA LastGrouped ==
  ASSUME NEW src, IsSource(src), Grouped(src) # {}
  PROVE  InsertImportAt(src) \in Grouped(src)
<1> DEFINE n == Len(src.imports)
<1>1. n \in Nat
  BY DEF IsSource, Source
<1>2. \E x \in Grouped(src) : \A j \in Grouped(src) : j <= x
  <2> DEFINE S == {n - k : k \in Grouped(src)}
  <2>1. Grouped(src) \subseteq 1 .. n
    BY DEF Grouped
  <2>2. S # {} /\ S \subseteq Nat
    BY <1>1, <2>1
  <2>3. PICK m \in S : \A x \in S : m <= x
    BY <2>2, LeastNumber
  <2>4. PICK x \in Grouped(src) : m = n - x
    OBVIOUS
  <2>5. \A j \in Grouped(src) : n - x <= n - j
    BY <2>3, <2>4
  <2>6. \A j \in Grouped(src) : j <= x
    BY <1>1, <2>1, <2>5
  <2> QED BY <2>6
<1> QED BY <1>2 DEF InsertImportAt

\* The new import goes behind an import, or behind the package clause.
LEMMA InsertsInRange ==
  ASSUME NEW src, IsSource(src)
  PROVE  InsertImportAt(src) \in 0 .. Len(src.imports)
<1>1. Len(src.imports) \in Nat
  BY DEF IsSource, Source
<1>2. CASE Grouped(src) = {}
  BY <1>1, <1>2 DEF InsertImportAt
<1>3. CASE Grouped(src) # {}
  BY <1>1, <1>3, LastGrouped DEF Grouped
<1> QED BY <1>2, <1>3

\* The imports with the new one are those without it and the new one.
LEMMA WithImportInserts ==
  ASSUME NEW src, IsSource(src)
  PROVE  LET n == Len(src.imports)
             at == InsertImportAt(src)
             new == WithImport(src)
         IN  /\ n \in Nat /\ at \in 0 .. n /\ DOMAIN src.imports = 1 .. n
             /\ DOMAIN new = 1 .. n + 1 /\ Len(new) = n + 1
             /\ \A j \in 1 .. at : new[j] = src.imports[j]
             /\ new[at + 1] = NewImport(src)
             /\ \A j \in at + 2 .. n + 1 : new[j] = src.imports[j - 1]
             /\ ToSet(new) = ToSet(src.imports) \union {NewImport(src)}
<1>1. Len(src.imports) \in Nat /\ DOMAIN src.imports = 1 .. Len(src.imports)
  BY DEF IsSource, Source
<1>2. InsertImportAt(src) \in 0 .. Len(src.imports)
  BY InsertsInRange
<1>3. WithImport(src) = Inserted(src.imports, InsertImportAt(src), NewImport(src))
  BY DEF WithImport, Inserted
<1>4. IsInserted(WithImport(src), src.imports, InsertImportAt(src), NewImport(src))
  BY <1>1, <1>2, <1>3, InsertedHas, Zenon
<1> QED BY <1>1, <1>2, <1>4 DEF IsInserted

\* The import that is added is the only one the second run can use.
LEMMA NewImportIsUsed ==
  ASSUME NEW src, IsSource(src), UsableImport(src) = 0, NEW out, out \in Source,
         out.imports = WithImport(src)
  PROVE  /\ UsableImport(out) # 0 /\ ErrtracePkg(out) = ErrtracePkg(src)
         /\ InOrder(out)
<1> DEFINE n == Len(src.imports)
           at == InsertImportAt(src)
           CanUse(imp) == IsErrtrace(imp) /\ imp.name # Blank
<1>1. /\ n \in Nat /\ at \in 0 .. n /\ Len(out.imports) = n + 1
      /\ \A j \in 1 .. at : out.imports[j] = src.imports[j]
      /\ out.imports[at + 1] = NewImport(src)
      /\ \A j \in at + 2 .. n + 1 : out.imports[j] = src.imports[j - 1]
  BY WithImportInserts
<1>2. src \in Source
  BY DEF IsSource
<1>3. \A x \in 1 .. n : ~CanUse(src.imports[x])
  BY <1>2, FirstUsable DEF Usable
<1>4. CanUse(NewImport(src)) /\ NewImport(src).name = ErrtracePkg(src)
  BY PkgIsUsable DEF NewImport, IsErrtrace
<1> HIDE DEF at, n
<1>5. \A j \in 1 .. n + 1 : CanUse(out.imports[j]) <=> j = at + 1
  <2> SUFFICES ASSUME NEW j \in 1 .. n + 1
               PROVE  CanUse(out.imports[j]) <=> j = at + 1
    OBVIOUS
  <2> HIDE DEF CanUse
  <2>1. CASE j <= at
    <3>1. j \in 1 .. at /\ j \in 1 .. n /\ j # at + 1
      BY <1>1, <2>1
    <3> QED BY <1>1, <1>3, <3>1
  <2>2. CASE j = at + 1
    BY <1>1, <1>4, <2>2
  <2>3. CASE j > at + 1
    <3>1. j \in at + 2 .. n + 1 /\ j - 1 \in 1 .. n
      BY <1>1, <2>3
    <3> QED BY <1>1, <1>3, <3>1, <2>3
  <2> QED BY <1>1, <2>1, <2>2, <2>3
<1>6. Usable(out) = {at + 1}
  <2>1. at + 1 \in 1 .. n + 1
    BY <1>1
  <2> QED BY <1>1, <1>5, <2>1 DEF Usable
<1>7. UsableImport(out) = at + 1 /\ UsableImport(out) # 0
  BY <1>6, FirstUsable
<1>8. ErrtracePkg(out) = ErrtracePkg(src)
  BY <1>1, <1>4, <1>7 DEF ErrtracePkg
<1>9. InOrder(out)
  BY <1>1, <1>6 DEF InOrder
<1> QED BY <1>7, <1>8, <1>9

\* rewriteFile makes files of files.
LEMMA RewriteTyped ==
  ASSUME NEW src, IsSource(src)
  PROVE  RewriteFile(src) \in Source
<1>1. src \in Source /\ ErrtracePkg(src) \in Names
  BY PkgIsUsable DEF IsSource
<1>2. NewImport(src) \in Import
  <2> DEFINE at == InsertImportAt(src)
             last == IF at = 0 THEN 0 ELSE src.imports[at].run
  <2>1. at \in 0 .. Len(src.imports)
    BY InsertsInRange
  <2>2. last \in Nat
    <3>1. CASE at = 0
      BY <3>1
    <3>2. CASE at # 0
      <4>1. src.imports[at] \in Import
        BY <1>1, <2>1, <3>2 DEF Source
      <4> QED BY <3>2, <4>1 DEF Import
    <3> QED BY <3>1, <3>2
  <2>3. (IF Grouped(src) # {} THEN last ELSE last + 1) \in Nat
    BY <2>2
  <2>4. Errtrace \in Int
    BY DEF Errtrace
  <2> HIDE DEF last, at
  <2>5. NewImport(src) = [path |-> Errtrace, name |-> ErrtracePkg(src),
          spelt |-> ErrtracePkg(src) # Default, group |-> Grouped(src) # {},
          run |-> IF Grouped(src) # {} THEN last ELSE last + 1]
    BY DEF NewImport, last, at
  <2> QED BY <1>1, <2>3, <2>4, <2>5 DEF Import
<1>3. WithImport(src) \in Seq(Import)
  <2> DEFINE n == Len(src.imports)
             new == WithImport(src)
  <2>1. /\ n \in Nat /\ DOMAIN new = 1 .. n + 1
        /\ ToSet(new) = ToSet(src.imports) \union {NewImport(src)}
    BY WithImportInserts
  <2>2. ToSet(new) \subseteq Import
    BY <1>1, <1>2, <2>1, ImportSet DEF Source
  <2>3. new = [j \in 1 .. n + 1 |-> new[j]]
    BY DEF WithImport
  <2> HIDE DEF new, n
  <2>4. \A j \in 1 .. n + 1 : new[j] \in Import
    BY <2>1, <2>2 DEF ToSet
  <2> QED BY <2>1, <2>3, <2>4 DEF new
<1>4. {WrapSite(src, s) : s \in src.sites} \in SUBSET Seq(Names)
  <2>1. ASSUME NEW s \in Seq(Names)
       PROVE  <<ErrtracePkg(src)>> \o s \in Seq(Names)
    BY <1>1
  <2>2. src.sites \subseteq Seq(Names)
    BY <1>1 DEF Source
  <2>3. \A s \in src.sites : WrapSite(src, s) \in Seq(Names)
    BY <2>1, <2>2, Zenon DEF WrapSite
  <2> QED BY <2>3
<1>5. (WellPlaced(src) /\ ErrtracePkg(src) # Dot) \in BOOLEAN
  BY DEF WellPlaced
<1> QED BY <1>1, <1>3, <1>4, <1>5 DEF RewriteFile, Source

\* The runs of imports are still in order behind the new import.
LEMMA NewRunsAscend ==
  ASSUME NEW src, IsSource(src)
  PROVE  RunsAscend(WithImport(src))
<1> DEFINE n == Len(src.imports)
           at == InsertImportAt(src)
           old == src.imports
           new == WithImport(src)
           x == NewImport(src)
<1>1. /\ n \in Nat /\ at \in 0 .. n
      /\ DOMAIN new = 1 .. n + 1 /\ Len(new) = n + 1
      /\ \A j \in 1 .. at : new[j] = old[j]
      /\ new[at + 1] = x
      /\ \A j \in at + 2 .. n + 1 : new[j] = old[j - 1]
  BY WithImportInserts
<1>2. \A j \in 1 .. n : old[j].run \in Nat
  <2>1. \A j \in 1 .. n : old[j] \in Import
    BY DEF IsSource, Source
  <2> QED BY <2>1 DEF Import
<1>3. RunsAscend(old)
  BY DEF IsSource
<1>4. /\ x.group <=> Grouped(src) # {}
      /\ Grouped(src) # {} => x.run = IF at = 0 THEN 0 ELSE old[at].run
      /\ Grouped(src) = {} => x.run = (IF at = 0 THEN 0 ELSE old[at].run) + 1
  BY DEF NewImport
<1>5. Grouped(src) # {} => at \in 1 .. n /\ old[at].group
  <2> SUFFICES ASSUME Grouped(src) # {}
               PROVE  at \in Grouped(src)
    BY DEF Grouped
  <2> QED BY LastGrouped
<1>6. Grouped(src) = {} => at = n
  BY DEF InsertImportAt
<1> HIDE DEF n, at, old, new, x
<1> DEFINE Fits(a, b) == a.run <= b.run /\ (a.run = b.run => a.group /\ b.group)
<1>7. \A j, k \in 1 .. n : j < k => Fits(old[j], old[k])
  BY <1>3 DEF RunsAscend, n, old
<1>8. \A j \in 1 .. at : Fits(old[j], x)
  <2> SUFFICES ASSUME NEW j \in 1 .. at
               PROVE  Fits(old[j], x)
    OBVIOUS
  <2>1. j \in 1 .. n /\ at \in 1 .. n /\ at # 0
    BY <1>1
  <2>2. j = at \/ Fits(old[j], old[at])
    BY <1>7, <2>1
  <2>3. CASE Grouped(src) # {}
    <3>1. x.run = old[at].run /\ x.group /\ old[at].group
      BY <1>4, <1>5, <2>1, <2>3
    <3> QED BY <1>2, <2>1, <2>2, <3>1
  <2>4. CASE Grouped(src) = {}
    <3>1. x.run = old[at].run + 1 /\ old[at].run \in Nat /\ old[j].run \in Nat
      BY <1>2, <1>4, <2>1, <2>4
    <3>2. old[j].run <= old[at].run
      BY <2>2, <3>1
    <3> QED BY <3>1, <3>2
  <2> QED BY <2>3, <2>4
<1>9. \A k \in at + 1 .. n : Fits(x, old[k])
  <2> SUFFICES ASSUME NEW k \in at + 1 .. n
               PROVE  Fits(x, old[k])
    OBVIOUS
  <2>1. Grouped(src) # {}
    BY <1>1, <1>6
  <2>2. at \in 1 .. n /\ x.run = old[at].run /\ x.group /\ old[at].group /\ k \in 1 .. n /\ at < k
    BY <1>1, <1>4, <1>5, <2>1
  <2>3. Fits(old[at], old[k])
    BY <1>7, <2>2
  <2> QED BY <2>2, <2>3
<1> HIDE DEF Fits
<1>10. \A j, k \in 1 .. n + 1 : j < k => Fits(new[j], new[k])
  <2> SUFFICES ASSUME NEW j \in 1 .. n + 1, NEW k \in 1 .. n + 1, j < k
               PROVE  Fits(new[j], new[k])
    OBVIOUS
  <2>1. CASE k <= at
    <3>1. j \in 1 .. at /\ k \in 1 .. at /\ j \in 1 .. n /\ k \in 1 .. n
      BY <1>1, <2>1
    <3> QED BY <1>1, <1>7, <3>1
  <2>2. CASE k = at + 1
    <3>1. j \in 1 .. at
      BY <1>1, <2>2
    <3> QED BY <1>1, <1>8, <2>2, <3>1
  <2>3. CASE k > at + 1
    <3>1. k \in at + 2 .. n + 1 /\ k - 1 \in at + 1 .. n /\ k - 1 \in 1 .. n
      BY <1>1, <2>3
    <3>2. CASE j <= at
      <4>1. j \in 1 .. at /\ j \in 1 .. n /\ j < k - 1
        BY <1>1, <2>3, <3>2
      <4> QED BY <1>1, <1>7, <3>1, <4>1
    <3>3. CASE j = at + 1
      BY <1>1, <1>9, <3>1, <3>3
    <3>4. CASE j > at + 1
      <4>1. j \in at + 2 .. n + 1 /\ j - 1 \in 1 .. n /\ j - 1 < k - 1
        BY <1>1, <3>4
      <4> QED BY <1>1, <1>7, <3>1, <4>1
    <3> QED BY <1>1, <3>2, <3>3, <3>4
  <2> QED BY <1>1, <2>1, <2>2, <2>3
<1> QED BY <1>1, <1>10 DEF RunsAscend, Fits, new

\* And a rewritten file has finitely many names.
LEMMA RewriteIsSource ==
  ASSUME NEW src, IsSource(src)
  PROVE  IsSource(RewriteFile(src))
<1> DEFINE out == RewriteFile(src)
           pkg == ErrtracePkg(src)
<1>1. out \in Source /\ src \in Source /\ RunsAscend(src.imports) /\ IsFiniteSet(Idents(src))
  BY RewriteTyped DEF IsSource
<1>2. CASE ~HasInserts(src)
  BY <1>2 DEF RewriteFile
<1>3. CASE HasInserts(src)
  <2>1. /\ out.imports = IF NeedsImport(src) THEN WithImport(src) ELSE src.imports
        /\ out.sites = {WrapSite(src, s) : s \in src.sites}
        /\ out.locals = src.locals
    BY <1>1, <1>3 DEF RewriteFile, Source
  <2> HIDE DEF out
  <2>2. RunsAscend(out.imports)
    BY <1>1, <2>1, NewRunsAscend
  <2>3. Idents(out) \subseteq Idents(src) \union {pkg}
    <3>1. {imp.name : imp \in {x \in ToSet(out.imports) : x.spelt}} \subseteq Idents(src) \union {pkg}
      <4> SUFFICES ASSUME NEW imp \in ToSet(out.imports), imp.spelt
                   PROVE  imp.name \in Idents(src) \union {pkg}
        OBVIOUS
      <4>1. imp \in ToSet(src.imports) \/ imp = NewImport(src)
        BY <2>1, WithImportInserts
      <4> QED BY <4>1 DEF Idents, NewImport
    <3>2. UNION {{s[j] : j \in 1 .. Len(s)} : s \in out.sites} \subseteq Idents(src) \union {pkg}
      <4> SUFFICES ASSUME NEW s \in src.sites, NEW j \in 1 .. Len(WrapSite(src, s))
                   PROVE  WrapSite(src, s)[j] \in Idents(src) \union {pkg}
        BY <2>1
      <4>1. s \in Seq(Names) /\ pkg \in Names
        BY <1>1, PkgIsUsable DEF Source
      <4>2. \A k \in 1 .. Len(s) : s[k] \in Idents(src)
        BY DEF Idents
      <4>3. CASE s \in Unwrapped(src)
        <5>1. WrapSite(src, s) = <<pkg>> \o s
          BY <4>3 DEF WrapSite
        <5> HIDE DEF pkg
        <5>2. j = 1 \/ (j - 1 \in 1 .. Len(s) /\ WrapSite(src, s)[j] = s[j - 1])
          BY <4>1, <5>1
        <5>3. WrapSite(src, s)[1] = pkg
          BY <4>1, <5>1
        <5> QED BY <4>2, <5>2, <5>3
      <4>4. CASE s \notin Unwrapped(src)
        BY <4>2, <4>4 DEF WrapSite
      <4> QED BY <4>3, <4>4
    <3>3. src.locals \subseteq Idents(src)
      BY DEF Idents
    <3> HIDE DEF pkg
    <3> QED BY <2>1, <3>1, <3>2, <3>3 DEF Idents
  <2>4. IsFiniteSet(Idents(src) \union {pkg})
    BY <1>1, FS_AddElement
  <2>5. IsFiniteSet(Idents(out))
    BY <2>3, <2>4, FS_Subset
  <2> QED BY <1>1, <2>2, <2>5 DEF IsSource, out
<1> QED BY <1>2, <1>3

\* The second run uses the name of the first; and the order of the imports of
\* errtrace is what it was.
LEMMA SameName ==
  ASSUME NEW src, IsSource(src)
  PROVE  /\ ErrtracePkg(RewriteFile(src)) = ErrtracePkg(src)
         /\ InOrder(src) => InOrder(RewriteFile(src))
<1> DEFINE out == RewriteFile(src)
<1>1. out \in Source /\ src \in Source
  BY RewriteTyped DEF IsSource
<1>2. CASE ~HasInserts(src)
  BY <1>2 DEF RewriteFile
<1>3. CASE HasInserts(src) /\ UsableImport(src) # 0
  <2>1. out.imports = src.imports
    BY <1>1, <1>3 DEF RewriteFile, NeedsImport, Source
  <2> HIDE DEF out
  <2>2. Usable(out) = Usable(src) /\ UsableImport(out) = UsableImport(src)
    BY <2>1 DEF UsableImport, Usable
  <2> QED BY <1>3, <2>1, <2>2 DEF ErrtracePkg, InOrder, out
<1>4. CASE HasInserts(src) /\ UsableImport(src) = 0
  <2>1. out.imports = WithImport(src)
    BY <1>1, <1>4 DEF RewriteFile, NeedsImport, Source
  <2> HIDE DEF out
  <2> QED BY <1>1, <1>4, <2>1, NewImportIsUsed DEF out
<1> QED BY <1>2, <1>3, <1>4

\* No site of a rewritten file that is Go is left to be wrapped.
LEMMA NothingLeft ==
  ASSUME NEW src, IsSource(src), RewriteFile(src).parses
  PROVE  ~HasInserts(RewriteFile(src))
<1> DEFINE out == RewriteFile(src)
<1>1. CASE ~HasInserts(src)
  BY <1>1 DEF RewriteFile
<1>2. CASE HasInserts(src)
  <2>1. out.sites = {WrapSite(src, s) : s \in src.sites} /\ ErrtracePkg(src) # Dot
    BY <1>2 DEF RewriteFile, IsSource, Source
  <2>2. \A s \in src.sites : WrapSite(src, s) # << >> /\ WrapSite(src, s)[1] = ErrtracePkg(src)
    <3> SUFFICES ASSUME NEW s \in src.sites
                 PROVE  WrapSite(src, s) # << >> /\ WrapSite(src, s)[1] = ErrtracePkg(src)
      OBVIOUS
    <3>1. s \in Seq(Names) /\ ErrtracePkg(src) \in Names
      BY PkgIsUsable DEF IsSource, Source
    <3>2. CASE s \in Unwrapped(src)
      BY <3>1, <3>2 DEF WrapSite
    <3>3. CASE s \notin Unwrapped(src)
      BY <3>1, <3>3 DEF WrapSite, Unwrapped
    <3> QED BY <3>2, <3>3
  <2>3. ErrtracePkg(out) = ErrtracePkg(src)
    BY SameName
  <2> HIDE DEF out
  <2>4. Unwrapped(out) = {}
    BY <2>1, <2>2, <2>3 DEF Unwrapped
  <2> QED BY <2>4 DEF HasInserts, out
<1> QED BY <1>1, <1>2

(***************************************************************************)
(* What rewriteFile makes of a file it leaves as it is, however the file   *)
(* imports errtrace; also when gofmt comes between, if gofmt leaves the    *)
(* imports of errtrace in their order.  If it does not, the second rewrite *)
(* after it may differ, but then nothing changes any more.                 *)
(***************************************************************************)
THEOREM RewriteTwice ==
  ASSUME NEW src, IsSource(src), RewriteFile(src).parses
  PROVE  LET once == Gofmt(RewriteFile(src))
             again == Gofmt(RewriteFile(once))
         IN  /\ RewriteFile(RewriteFile(src)) = RewriteFile(src)
             /\ InOrder(src) => RewriteFile(once) = once
             /\ RewriteFile(once).parses => RewriteFile(again) = again
<1>1. ASSUME NEW x, IsSource(x), InOrder(x), RewriteFile(x).parses
      PROVE  RewriteFile(Gofmt(RewriteFile(x))) = Gofmt(RewriteFile(x))
  <2>1. IsSource(RewriteFile(x)) /\ InOrder(RewriteFile(x)) /\ ~HasInserts(RewriteFile(x))
    BY <1>1, RewriteIsSource, SameName, NothingLeft
  <2>2. ~HasInserts(Gofmt(RewriteFile(x)))
    BY <2>1, GofmtKeeps
  <2> QED BY <2>2 DEF RewriteFile
<1>2. RewriteFile(RewriteFile(src)) = RewriteFile(src)
  <2>1. ~HasInserts(RewriteFile(src))
    BY NothingLeft
  <2> QED BY <2>1 DEF RewriteFile
<1>3. IsSource(Gofmt(RewriteFile(src))) /\ InOrder(Gofmt(RewriteFile(src)))
  BY RewriteIsSource, GofmtFile
<1> QED BY <1>1, <1>2, <1>3

----------------------------------------------------------------------------
(***************************************************************************)
(* The command.                                                            *)
(***************************************************************************)

Arguments == Paths \union {Stdin}

\* The labels of processFile after the file was read.
Inside == {"parse", "rewrite", "format", "output"}

----------------------------------------------------------------------------
(***************************************************************************)
(* The inductive invariant.                                                *)
(***************************************************************************)
\* The loop of Run.
Loop ==
  /\ pc \in Labels
  /\ files \in Seq(Arguments)
  /\ i \in 0 .. Len(files) + 1
  /\ pc \notin {"args", "exit"} => i \in 1 .. Len(files)
  /\ pc = "args" => i = 0 /\ files = << >> /\ stderr = {}
  /\ pc = "exit" /\ 0 \notin stderr => i > Len(files) \/ files = << >>
  /\ stderr \subseteq 0 .. Len(files)
  /\ \A k \in stderr \ {0} : k < i
  /\ exitCode \in {0, 1}
  /\ exitCode = 0 <=> stderr = {}
  /\ disk = [p \in Paths |-> disk[p]]
  /\ params \in Commands
  /\ before \in Inputs
  /\ stdout = [j \in 1 .. Len(stdout) |-> stdout[j]] /\ Len(stdout) \in Nat

\* What has become of a file so far that was in the list once, or more often.
Once(p) == \E k \in 1 .. Len(files) : k < i /\ files[k] = p

Again(p) == \E j, k \in 1 .. Len(files) : j < k /\ k < i /\ files[j] = p /\ files[k] = p

Made(p) ==
  IF Again(p) THEN Result(Result(before[p]))
  ELSE IF Once(p) THEN Result(before[p])
  ELSE before[p]

Writes == params.Write /\ ~params.List

\* A file is as it was, or what it is to become, or there was an error.
Intact(p) ==
  /\ ~Writes => disk[p] = before[p]
  /\ disk[p] # before[p] => before[p].parses /\ Once(p)
  /\ Writes => Failed(p) \/ disk[p] = Made(p)
  /\ Writes /\ Once(p) /\ ~Failed(p) => before[p].parses /\ (ShouldFormat => disk[p].parses)
  /\ Writes /\ Again(p) /\ ~Failed(p) => Result(before[p]).parses

\* The local variables of processFile, in terms of the file it is at.
Buffer ==
  /\ pc \in {"rewrite", "format", "output"} => ~params.List
  /\ pc \in Inside /\ params.Write => files[i] # Stdin
  /\ pc \in Inside /\ files[i] # Stdin =>
       /\ pc \in {"parse", "rewrite"} => buf = disk[files[i]]
       /\ pc \in {"rewrite", "format", "output"} => disk[files[i]].parses
       /\ pc = "format" => buf = RewriteFile(disk[files[i]])
       /\ pc = "output" => buf = Result(disk[files[i]]) /\ (ShouldFormat => buf.parses)

\* Stdin can be read once.
StdinRead ==
  \E j \in 1 .. Len(files) : files[j] = Stdin /\ (j < i \/ (j = i /\ pc \in Inside))

StdinLeft == stdin = IF StdinRead THEN Empty ELSE before[Stdin]

\* What comes from stdin.
FromStdin ==
  pc \in Inside /\ files[i] = Stdin =>
    /\ pc \in {"parse", "rewrite"} => buf = Original(i)
    /\ pc \in {"rewrite", "format", "output"} => Original(i).parses
    /\ pc = "format" => buf = RewriteFile(Original(i))
    /\ pc = "output" => buf = Result(Original(i))

\* The files before the current one are dealt with.
Progress ==
  \A k \in 1 .. Len(files) :
    k < i /\ k \notin stderr => IF Writes THEN files[k] # Stdin ELSE Processed(k)

MainInv ==
  Loop /\ (\A p \in Paths : Intact(p)) /\ Buffer /\ StdinLeft /\ FromStdin /\ Progress
----------------------------------------------------------------------------
(***************************************************************************)
(* Facts about the contents of files.                                      *)
(***************************************************************************)
\* What the command makes of a file is a file.
LEMMA ResultIsSource ==
  ASSUME NEW src, IsSource(src)
  PROVE  IsSource(Result(src)) /\ Result(src).parses = RewriteFile(src).parses
<1>1. IsSource(RewriteFile(src))
  BY RewriteIsSource
<1> QED BY <1>1, GofmtFile DEF Result

\* From the second time on, nothing changes any more.
LEMMA ResultSettles ==
  ASSUME NEW src, IsSource(src), Result(src).parses, Result(Result(src)).parses
  PROVE  /\ Result(Result(Result(src))) = Result(Result(src))
         /\ RewriteFile(Result(Result(src))) = Result(Result(src))
<1> DEFINE once == Result(src)
           again == Result(once)
<1>1. IsSource(once) /\ RewriteFile(src).parses /\ RewriteFile(once).parses
  BY ResultIsSource
<1>2. CASE ShouldFormat
  <2>1. once = Gofmt(RewriteFile(src)) /\ again = Gofmt(RewriteFile(once))
    BY <1>2 DEF Result
  <2> HIDE DEF once, again
  <2>2. RewriteFile(again) = again
    BY <1>1, <2>1, RewriteTwice
  <2>3. Gofmt(again) = again
    BY <1>1, <2>1, RewriteIsSource, GofmtFile
  <2>4. Result(again) = again
    BY <1>2, <2>2, <2>3 DEF Result
  <2> QED BY <2>2, <2>4 DEF once, again
<1>3. CASE ~ShouldFormat
  <2>1. once = RewriteFile(src) /\ RewriteFile(RewriteFile(src)) = RewriteFile(src)
    BY <1>1, <1>3, RewriteTwice DEF Result
  <2> QED BY <1>3, <2>1 DEF Result
<1> QED BY <1>2, <1>3

\* What is written to the file at hand is what it is to become now.
LEMMA WritesMade ==
  ASSUME MainInv, NEW p \in Paths, disk[p].parses, ~Failed(p), Writes,
         i \in 1 .. Len(files), files[i] = p, i' = i + 1, UNCHANGED <<params, files, before>>
  PROVE  /\ Result(disk[p]) = Made(p)' /\ before[p].parses /\ Once(p)'
         /\ Again(p)' => Result(before[p]).parses
<1>1. IsSource(before[p])
  BY SourcesAssumption DEF MainInv, Loop
<1>2. Intact(p)
  BY DEF MainInv
<1>3. i \in Nat /\ Len(files) \in Nat
  BY DEF MainInv, Loop
<1>4. Once(p)' /\ (Again(p)' <=> Once(p)) /\ (Again(p) => Once(p))
  <2>1. Once(p)'
    BY <1>3 DEF Once
  <2>2. Again(p)' => Once(p)
    BY <1>3 DEF Once, Again
  <2>3. Once(p) => Again(p)'
    BY <1>3 DEF Once, Again
  <2>4. Again(p) => Once(p)
    BY <1>3 DEF Once, Again
  <2> QED BY <2>1, <2>2, <2>3, <2>4
<1>5. Made(p)' = IF Once(p) THEN Result(Result(before[p])) ELSE Result(before[p])
  BY <1>4 DEF Made, Result, ShouldFormat
<1>6. disk[p] = Made(p) /\ (Once(p) => before[p].parses) /\ (Again(p) => Result(before[p]).parses)
  BY <1>2 DEF Intact
<1>7. CASE ~Once(p)
  <2>1. disk[p] = before[p]
    BY <1>4, <1>6, <1>7 DEF Made
  <2> QED BY <1>4, <1>5, <1>7, <2>1
<1>8. CASE Once(p) /\ ~Again(p)
  <2>1. disk[p] = Result(before[p])
    BY <1>6, <1>8 DEF Made
  <2> QED BY <1>4, <1>5, <1>6, <1>8, <2>1
<1>9. CASE Again(p)
  <2>1. disk[p] = Result(Result(before[p]))
    BY <1>6, <1>9 DEF Made
  <2>2. Result(disk[p]) = disk[p]
    BY <1>1, <1>6, <1>9, <2>1, ResultSettles
  <2> QED BY <1>4, <1>5, <1>6, <1>9, <2>1, <2>2
<1> QED BY <1>7, <1>8, <1>9
----------------------------------------------------------------------------
\* Nothing has happened yet.
LEMMA MainInit == Init => MainInv
BY DEF Init, MainInv, Loop, Labels, Intact, Once, Again, Made, Buffer, Inside, StdinLeft,
       StdinRead, FromStdin, Progress, Arguments

\* The list of files is made.
LEMMA ExpandKeeps == MainInv /\ Expand => MainInv'
<1> SUFFICES ASSUME MainInv, Expand
             PROVE  MainInv'
  OBVIOUS
<1>1. \A p \in Paths : disk[p] = before[p]
  BY DEF MainInv, Loop, Intact, Once, Expand
<1>2. files' \in Seq(Arguments)
  BY ArgsAssumption DEF MainInv, Loop, Expand, Arguments
<1>3. Loop'
  BY <1>2 DEF MainInv, Loop, Expand, Labels
<1>4. (\A p \in Paths : Intact(p))'
  <2>1. i' \in {0, 1} /\ UNCHANGED <<disk, before>>
    BY DEF Expand
  <2>2. \A k \in 1 .. Len(files') : ~(k < i')
    BY <2>1
  <2>3. \A p : ~Once(p)' /\ ~Again(p)'
    BY <2>2 DEF Once, Again
  <2> QED BY <1>1, <2>1, <2>3 DEF Intact, Made
<1>5. Buffer' /\ FromStdin'
  BY DEF Buffer, FromStdin, Expand, Inside
<1>6. StdinLeft'
  BY DEF MainInv, Loop, StdinLeft, StdinRead, Expand, Inside
<1>7. Progress'
  BY <1>2 DEF Progress, Expand
<1> QED BY <1>3, <1>4, <1>5, <1>6, <1>7 DEF MainInv

\* Nothing is processed.
LEMMA GoListFailsKeeps == MainInv /\ GoListFails => MainInv'
<1> SUFFICES ASSUME MainInv, GoListFails
             PROVE  MainInv'
  OBVIOUS
<1>1. \A p \in Paths : disk[p] = before[p]
  BY DEF MainInv, Loop, Intact, Once, GoListFails
<1>2. Loop'
  BY DEF MainInv, Loop, GoListFails, Labels
<1>3. (\A p \in Paths : Intact(p))'
  <2>1. i' = 0 /\ UNCHANGED <<disk, before>>
    BY DEF MainInv, Loop, GoListFails
  <2>2. \A p : ~Once(p)' /\ ~Again(p)'
    BY <2>1 DEF Once, Again
  <2> QED BY <1>1, <2>1, <2>2 DEF Intact, Made
<1>4. Buffer' /\ FromStdin' /\ StdinLeft' /\ Progress'
  BY DEF MainInv, Loop, Buffer, FromStdin, StdinLeft, StdinRead, Progress, GoListFails, Inside
<1> QED BY <1>2, <1>3, <1>4 DEF MainInv
----------------------------------------------------------------------------
(***************************************************************************)
(* The three ways a step of processFile can end, for the parts of the      *)
(* invariant that do not depend on what the step did.                      *)
(***************************************************************************)
\* The step is within the current file, or ends it with or without an error.
Ends(label) == Then(label) \/ Done \/ Fail

\* What is printed comes after what was printed.
LEMMA PrintedAfter ==
  ASSUME NEW s, s = [j \in 1 .. Len(s) |-> s[j]], Len(s) \in Nat, NEW e
  PROVE  /\ Len(Append(s, e)) = Len(s) + 1
         /\ \A j \in 1 .. Len(s) : Append(s, e)[j] = s[j]
         /\ Append(s, e)[Len(s) + 1] = e
         /\ Append(s, e) = [j \in 1 .. Len(Append(s, e)) |-> Append(s, e)[j]]
<1> DEFINE S == {s[j] : j \in 1 .. Len(s)} \union {e}
<1>1. [j \in 1 .. Len(s) |-> s[j]] \in Seq(S)
  OBVIOUS
<1>2. s \in Seq(S) /\ e \in S
  BY <1>1
<1> HIDE DEF S
<1>3. /\ Append(s, e) \in Seq(S)
      /\ Len(Append(s, e)) = Len(s) + 1
      /\ Append(s, e)[Len(s) + 1] = e
      /\ \A j \in 1 .. Len(s) : Append(s, e)[j] = s[j]
  BY <1>2
<1>4. Append(s, e) = [j \in 1 .. Len(Append(s, e)) |-> Append(s, e)[j]]
  <2>1. \A t \in Seq(S) : t = [j \in 1 .. Len(t) |-> t[j]]
    OBVIOUS
  <2> QED BY <1>3, <2>1
<1> QED BY <1>3, <1>4

\* The loop goes on.
LEMMA LoopKept ==
  ASSUME MainInv, pc \in {"read"} \union Inside, NEW label \in Inside, Ends(label),
         UNCHANGED <<params, files, before>>, disk' = [p \in Paths |-> disk'[p]],
         stdout' = [j \in 1 .. Len(stdout') |-> stdout'[j]], Len(stdout') \in Nat
  PROVE  Loop'
<1>1. Loop /\ i \in 1 .. Len(files) /\ i \in Nat /\ Len(files) \in Nat
  BY DEF MainInv, Loop, Inside
<1>2. CASE Then(label)
  BY <1>1, <1>2 DEF Loop, Then, Inside, Labels
<1>3. CASE Done
  BY <1>1, <1>3 DEF Loop, Done, Continue, Labels
<1>4. CASE Fail
  BY <1>1, <1>4 DEF Loop, Fail, Continue, Labels
<1> QED BY <1>2, <1>3, <1>4 DEF Ends

\* Where nothing is written, the files stay intact.
LEMMA IntactKept ==
  ASSUME MainInv, UNCHANGED <<params, files, before, disk>>, stderr \subseteq stderr',
         \/ i' = i
         \/ /\ i' = i + 1 /\ i \in 1 .. Len(files)
            /\ i \in stderr' \/ ~Writes
  PROVE  (\A p \in Paths : Intact(p))'
<1> SUFFICES ASSUME NEW p \in Paths
             PROVE  Intact(p)'
  OBVIOUS
<1>1. Failed(p) => Failed(p)'
  BY DEF Failed
<1>2. Intact(p) /\ i \in Nat /\ Len(files) \in Nat
  BY DEF MainInv, Loop
<1>3. /\ Result(before[p])' = Result(before[p]) /\ (ShouldFormat' <=> ShouldFormat)
      /\ Result(Result(before[p]))' = Result(Result(before[p])) /\ (Writes' <=> Writes)
  BY DEF Result, ShouldFormat, Writes
<1>4. Once(p) => Once(p)'
  BY <1>2 DEF Once
<1>5. CASE ~Writes
  BY <1>2, <1>3, <1>5 DEF Intact
<1>6. CASE Writes /\ Failed(p)'
  BY <1>2, <1>3, <1>4, <1>6 DEF Intact
<1>7. CASE Writes /\ ~Failed(p)'
  <2>1. (Once(p)' <=> Once(p)) /\ (Again(p)' <=> Again(p))
    <3>1. CASE i' = i
      BY <3>1 DEF Once, Again
    <3>2. CASE i' = i + 1
      <4>1. i \in stderr' \ {0} /\ i \in 1 .. Len(files)
        BY <1>2, <1>7, <3>2
      <4>2. files[i] # p
        BY <1>7, <4>1 DEF Failed
      <4>3. \A k \in 1 .. Len(files) : files[k] = p => (k < i' <=> k < i)
        BY <1>2, <3>2, <4>2
      <4> QED BY <4>3 DEF Once, Again
    <3> QED BY <3>1, <3>2
  <2>2. Made(p)' = Made(p)
    BY <1>3, <2>1 DEF Made
  <2> QED BY <1>1, <1>2, <1>3, <1>7, <2>1, <2>2 DEF Intact
<1> QED BY <1>5, <1>6, <1>7

\* What was dealt with stays so, and the current file joins it.
LEMMA ProgressKept ==
  ASSUME MainInv, UNCHANGED <<params, files, before>>,
         stderr \subseteq stderr', stderr' \subseteq stderr \union {i},
         Len(stdout') \in Nat, Len(stdout') >= Len(stdout),
         \A j \in 1 .. Len(stdout) : stdout'[j] = stdout[j],
         NEW n \in 1 .. Len(files), n = i,
         \/ i' = i
         \/ /\ i' = i + 1
            /\ \/ n \in stderr'
               \/ Writes /\ files[n] # Stdin
               \/ ~Writes /\ Processed(n)'
  PROVE  Progress'
<1>1. Writes' <=> Writes
  BY DEF Writes
<1> SUFFICES ASSUME NEW k \in 1 .. Len(files), k < i', k \notin stderr'
             PROVE  IF Writes THEN files[k] # Stdin ELSE Processed(k)'
  BY <1>1 DEF Progress
<1>2. i \in Nat /\ Len(files) \in Nat /\ Len(stdout) \in Nat
  BY DEF MainInv, Loop
<1>3. CASE k = n
  BY <1>2, <1>3
<1>4. CASE k # n
  <2>1. IF Writes THEN files[k] # Stdin ELSE Processed(k)
    BY <1>2, <1>4 DEF MainInv, Progress
  <2>2. /\ Original(k)' = Original(k)
        /\ Result(Original(k))' = Result(Original(k))
    BY DEF Original, Result, ShouldFormat
  <2>3. CASE Writes
    BY <2>1, <2>3
  <2>4. CASE params.List
    BY <2>1, <2>2, <2>4 DEF Processed, Writes
  <2>5. CASE ~params.List /\ ~params.Write
    BY <1>2, <2>1, <2>2, <2>5 DEF Processed, Writes
  <2> QED BY <2>3, <2>4, <2>5 DEF Writes
<1> QED BY <1>3, <1>4

\* Stdin stays as it is in steps that do not read it.
LEMMA StdinKept ==
  ASSUME MainInv, pc \in Inside, NEW label \in Inside, Ends(label),
         UNCHANGED <<files, before, stdin>>
  PROVE  StdinLeft'
<1>1. i \in 1 .. Len(files) /\ i \in Nat /\ Len(files) \in Nat
  BY DEF MainInv, Loop, Inside
<1>2. StdinRead' <=> StdinRead
  <2>1. CASE Then(label)
    BY <1>1, <2>1 DEF StdinRead, Then
  <2>2. CASE Done \/ Fail
    <3>1. i' = i + 1 /\ pc' \notin Inside
      BY <2>2 DEF Done, Fail, Continue, Inside
    <3>2. \A j \in 1 .. Len(files) :
            j < i \/ (j = i /\ pc \in Inside) <=> j < i' \/ (j = i' /\ pc' \in Inside)
      BY <1>1, <3>1
    <3> QED BY <3>2 DEF StdinRead
  <2> QED BY <2>1, <2>2 DEF Ends
<1> QED BY <1>2 DEF MainInv, StdinLeft

\* Between two files there is no buffer.
LEMMA BufferFree ==
  ASSUME Done \/ Fail
  PROVE  Buffer' /\ FromStdin'
BY DEF Done, Fail, Continue, Buffer, FromStdin, Inside
----------------------------------------------------------------------------
(***************************************************************************)
(* Every step keeps the invariant.                                         *)
(***************************************************************************)
\* Where the loop and stdin are.
LEMMA Current ==
  ASSUME MainInv, pc \in {"read"} \union Inside
  PROVE  /\ i \in 1 .. Len(files) /\ i \in Nat /\ Len(files) \in Nat
         /\ files[i] \in Arguments
         /\ files[i] # Stdin => files[i] \in Paths /\ Original(i) = before[files[i]]
         /\ IsSource(Original(i)) \/ Original(i) = Empty
<1>1. i \in 1 .. Len(files) /\ i \in Nat /\ Len(files) \in Nat
  BY DEF MainInv, Loop, Inside
<1>2. files[i] \in Arguments
  BY <1>1 DEF MainInv, Loop
<1>3. IsSource(before[files[i]])
  BY <1>2, SourcesAssumption DEF MainInv, Loop, Arguments
<1> QED BY <1>1, <1>2, <1>3 DEF Arguments, Original

\* An error, of a step that writes nothing and prints nothing.
LEMMA FailKeeps ==
  ASSUME MainInv, pc \in Inside, Fail, UNCHANGED <<params, files, disk, stdin, stdout, before>>
  PROVE  MainInv'
<1>1. Loop'
  <2>1. "parse" \in Inside /\ Ends("parse")
    BY DEF Inside, Ends
  <2> QED BY <2>1, LoopKept DEF MainInv, Loop
<1>2. (\A p \in Paths : Intact(p))'
  BY Current, IntactKept DEF Fail
<1>3. Buffer' /\ FromStdin'
  BY BufferFree
<1>4. StdinLeft'
  <2>1. "parse" \in Inside /\ Ends("parse")
    BY DEF Inside, Ends
  <2> QED BY <2>1, StdinKept
<1>5. Progress'
  <2>1. i \in 1 .. Len(files) /\ Len(stdout) \in Nat
    BY Current DEF MainInv, Loop
  <2>2. PICK n \in 1 .. Len(files) : n = i
    BY <2>1
  <2>3. n \in stderr'
    BY <2>2 DEF Fail
  <2> QED BY <2>1, <2>2, <2>3, ProgressKept DEF Fail
<1> QED BY <1>1, <1>2, <1>3, <1>4, <1>5 DEF MainInv

\* A step of the same file that leaves everything but buf alone.
LEMMA ThenKeeps ==
  ASSUME MainInv, pc \in Inside, NEW label \in Inside, Then(label),
         UNCHANGED <<params, files, disk, stdin, stdout, before>>,
         Buffer', FromStdin'
  PROVE  MainInv'
<1>1. Loop'
  BY LoopKept DEF Ends, MainInv, Loop
<1>2. (\A p \in Paths : Intact(p))'
  BY IntactKept DEF Then
<1>3. StdinLeft'
  BY StdinKept DEF Ends
<1>4. Progress'
  <2>1. i \in 1 .. Len(files) /\ Len(stdout) \in Nat
    BY Current DEF MainInv, Loop
  <2>2. PICK n \in 1 .. Len(files) : n = i
    BY <2>1
  <2> QED BY <2>1, <2>2, ProgressKept DEF Then
<1> QED BY <1>1, <1>2, <1>3, <1>4 DEF MainInv

\* A file is read.
LEMMA ReadFileKeeps == MainInv /\ ReadFile => MainInv'
<1> SUFFICES ASSUME MainInv, ReadFile
             PROVE  MainInv'
  OBVIOUS
<1>1. "parse" \in Inside /\ pc \notin Inside /\ Then("parse")
  BY DEF Inside, ReadFile
<1>2. /\ i \in 1 .. Len(files) /\ i \in Nat /\ Len(files) \in Nat
      /\ files[i] # Stdin
  BY Current DEF ReadFile
<1>3. Loop'
  BY <1>1, LoopKept DEF ReadFile, Ends, MainInv, Loop
<1>4. (\A p \in Paths : Intact(p))'
  BY IntactKept DEF ReadFile, Then
<1>5. Buffer' /\ FromStdin'
  BY <1>2 DEF Buffer, FromStdin, ReadFile, Then
<1>6. StdinLeft'
  BY <1>1, <1>2 DEF MainInv, StdinLeft, StdinRead, ReadFile, Then
<1>7. Progress'
  <2>1. PICK n \in 1 .. Len(files) : n = i
    BY <1>2
  <2>2. Len(stdout) \in Nat
    BY DEF MainInv, Loop
  <2> QED BY <2>1, <2>2, ProgressKept DEF ReadFile, Then
<1> QED BY <1>3, <1>4, <1>5, <1>6, <1>7 DEF MainInv

\* Stdin is read, or found empty.
LEMMA ReadStdinKeeps == MainInv /\ ReadStdin => MainInv'
<1> SUFFICES ASSUME MainInv, ReadStdin
             PROVE  MainInv'
  OBVIOUS
<1>1. "parse" \in Inside /\ pc \notin Inside /\ Then("parse") /\ pc' = "parse"
  BY DEF Inside, ReadStdin, Then
<1>2. /\ i \in 1 .. Len(files) /\ i \in Nat /\ Len(files) \in Nat
      /\ files[i] = Stdin
  BY Current DEF ReadStdin
<1>3. Loop'
  BY <1>1, LoopKept DEF ReadStdin, Ends, MainInv, Loop
<1>4. (\A p \in Paths : Intact(p))'
  BY IntactKept DEF ReadStdin, Then
<1>5. Buffer'
  BY <1>1, <1>2 DEF Buffer, ReadStdin, Then
<1>6. StdinLeft'
  <2>1. StdinRead'
    BY <1>1, <1>2 DEF StdinRead, ReadStdin, Then
  <2> QED BY <2>1 DEF StdinLeft, ReadStdin
<1>7. FromStdin'
  <2>1. StdinRead <=> \E j \in 1 .. i - 1 : files[j] = Stdin
    BY <1>1, <1>2 DEF StdinRead
  <2>2. stdin = Original(i)
    BY <1>2, <2>1 DEF MainInv, StdinLeft, Original
  <2>3. Original(i)' = Original(i)
    BY DEF Original, ReadStdin, Then
  <2> QED BY <1>1, <2>2, <2>3 DEF FromStdin, ReadStdin
<1>8. Progress'
  <2>1. PICK n \in 1 .. Len(files) : n = i
    BY <1>2
  <2>2. Len(stdout) \in Nat
    BY DEF MainInv, Loop
  <2> QED BY <2>1, <2>2, ProgressKept DEF ReadStdin, Then
<1> QED BY <1>3, <1>4, <1>5, <1>6, <1>7, <1>8 DEF MainInv

\* Nothing is read, from stdin never again.
LEMMA ReadFailsKeeps == MainInv /\ ReadFails => MainInv'
<1> SUFFICES ASSUME MainInv, ReadFails
             PROVE  MainInv'
  OBVIOUS
<1>1. "parse" \in Inside /\ pc \notin Inside /\ Fail /\ i' = i + 1 /\ pc' \notin Inside
  BY DEF Inside, ReadFails, Fail, Continue
<1>2. i \in 1 .. Len(files) /\ i \in Nat /\ Len(files) \in Nat
  BY Current DEF ReadFails
<1>3. Loop'
  BY <1>1, LoopKept DEF ReadFails, Ends, MainInv, Loop
<1>4. (\A p \in Paths : Intact(p))'
  BY <1>2, IntactKept DEF ReadFails, Fail
<1>5. Buffer' /\ FromStdin'
  BY <1>1, BufferFree
<1>6. StdinLeft'
  <2>1. StdinRead' <=> StdinRead \/ files[i] = Stdin
    BY <1>1, <1>2 DEF StdinRead, ReadFails
  <2> QED BY <2>1 DEF MainInv, StdinLeft, ReadFails
<1>7. Progress'
  <2>1. PICK n \in 1 .. Len(files) : n = i
    BY <1>2
  <2>2. Len(stdout) \in Nat
    BY DEF MainInv, Loop
  <2>3. n \in stderr'
    BY <2>1 DEF ReadFails, Fail
  <2> QED BY <2>1, <2>2, <2>3, ProgressKept DEF ReadFails, Fail
<1> QED BY <1>3, <1>4, <1>5, <1>6, <1>7 DEF MainInv

\* What does not parse is an error.
LEMMA ParseFailsKeeps == MainInv /\ ParseFails => MainInv'
BY FailKeeps DEF ParseFails, Inside

\* With -l, the file is done once it is parsed.
LEMMA ListFileKeeps == MainInv /\ ListFile => MainInv'
<1> SUFFICES ASSUME MainInv, ListFile
             PROVE  MainInv'
  OBVIOUS
<1>1. "parse" \in Inside /\ pc \in Inside /\ pc = "parse"
  BY DEF Inside, ListFile
<1>2. CASE Fail /\ UNCHANGED stdout
  BY <1>1, <1>2, FailKeeps DEF ListFile
<1>3. CASE Done
  <2>1. /\ Len(stdout) \in Nat /\ Len(stdout') \in Nat /\ Len(stdout') >= Len(stdout)
        /\ \A j \in 1 .. Len(stdout) : stdout'[j] = stdout[j]
        /\ stdout' = [j \in 1 .. Len(stdout') |-> stdout'[j]]
    <3>1. stdout = [j \in 1 .. Len(stdout) |-> stdout[j]] /\ Len(stdout) \in Nat
      BY DEF MainInv, Loop
    <3>2. CASE stdout' = stdout
      BY <3>1, <3>2
    <3>3. CASE stdout' = Append(stdout, Output("name", buf))
      BY <3>1, <3>3, PrintedAfter
    <3> QED BY <1>3, <3>2, <3>3 DEF ListFile, Done, Fail
  <2>2. Loop'
    BY <1>1, <1>3, <2>1, LoopKept DEF ListFile, Ends, MainInv, Loop
  <2>3. (\A p \in Paths : Intact(p))'
    BY <1>1, <1>3, Current, IntactKept DEF ListFile, Done, Writes
  <2>4. Buffer' /\ FromStdin'
    BY <1>3, BufferFree
  <2>5. StdinLeft'
    BY <1>1, <1>3, StdinKept DEF ListFile, Ends
  <2>6. Progress'
    <3>1. i \in 1 .. Len(files)
      BY <1>1, Current
    <3>2. PICK n \in 1 .. Len(files) : n = i
      BY <3>1
    <3>3. Original(n).parses
      <4>1. CASE files[i] = Stdin
        BY <1>1, <3>2, <4>1 DEF MainInv, FromStdin, ListFile
      <4>2. CASE files[i] # Stdin
        <5>1. files[i] \in Paths /\ Original(i) = before[files[i]]
          BY <1>1, <4>2, Current
        <5>2. disk[files[i]] = before[files[i]]
          BY <5>1 DEF MainInv, Intact, ListFile, Writes
        <5> QED BY <1>1, <3>2, <4>2, <5>1, <5>2 DEF MainInv, Buffer, ListFile
      <4> QED BY <4>1, <4>2
    <3>4. Original(n)' = Original(n)
      BY DEF Original, ListFile
    <3>5. Processed(n)'
      BY <3>3, <3>4 DEF Processed, ListFile
    <3>6. ~Writes
      BY DEF ListFile, Writes
    <3> QED BY <1>3, <2>1, <3>1, <3>2, <3>5, <3>6, ProgressKept DEF ListFile, Done
  <2> QED BY <2>2, <2>3, <2>4, <2>5, <2>6 DEF MainInv
<1> QED BY <1>2, <1>3 DEF ListFile

\* Parsed without -l.
LEMMA ParseKeeps == MainInv /\ Parse => MainInv'
<1> SUFFICES ASSUME MainInv, Parse
             PROVE  MainInv'
  OBVIOUS
<1>1. pc \in Inside /\ "rewrite" \in Inside /\ pc' = "rewrite" /\ Then("rewrite")
  BY DEF Inside, Parse, Then
<1>2. Original(i)' = Original(i)
  BY DEF Original, Parse, Then
<1>3. Buffer' /\ FromStdin'
  BY <1>1, <1>2 DEF MainInv, Buffer, FromStdin, Parse, Then
<1> QED BY <1>1, <1>3, ThenKeeps DEF Parse

\* The wraps are written.
LEMMA RewriteKeeps == MainInv /\ Rewrite => MainInv'
<1> SUFFICES ASSUME MainInv, Rewrite
             PROVE  MainInv'
  OBVIOUS
<1>1. pc \in Inside /\ "format" \in Inside /\ pc' = "format" /\ Then("format")
  BY DEF Inside, Rewrite, Then
<1>2. Original(i)' = Original(i)
  BY DEF Original, Rewrite, Then
<1>3. Buffer' /\ FromStdin'
  BY <1>1, <1>2 DEF MainInv, Buffer, FromStdin, Rewrite, Then
<1> QED BY <1>1, <1>3, ThenKeeps DEF Rewrite

\* The result is formatted, if it is to be.
LEMMA FormatKeeps == MainInv /\ Format => MainInv'
<1> SUFFICES ASSUME MainInv, Format
             PROVE  MainInv'
  OBVIOUS
<1>1. pc \in Inside /\ "output" \in Inside
  BY DEF Inside, Format
<1>2. CASE Fail
  BY <1>1, <1>2, FailKeeps DEF Format
<1>3. CASE Then("output") /\ buf' = (IF ShouldFormat THEN Gofmt(buf) ELSE buf)
           /\ (ShouldFormat => buf.parses)
  <2>1. pc' = "output" /\ Original(i)' = Original(i) /\ (ShouldFormat' <=> ShouldFormat)
    BY <1>3 DEF Then, Original, Format, ShouldFormat
  <2>2. buf = RewriteFile(disk[files[i]]) => buf' = Result(disk[files[i]])'
    BY <1>3, <2>1 DEF Result, Format, Then
  <2>3. buf = RewriteFile(Original(i)) => buf' = Result(Original(i))'
    BY <1>3, <2>1 DEF Result
  <2>5. ShouldFormat /\ files[i] # Stdin => buf'.parses
    <3> SUFFICES ASSUME ShouldFormat, files[i] # Stdin
                 PROVE  buf'.parses
      OBVIOUS
    <3>1. buf' = Gofmt(buf) /\ buf.parses
      BY <1>3
    <3> QED BY <3>1 DEF Gofmt
  <2>6. Buffer'
    BY <1>1, <1>3, <2>1, <2>2, <2>5 DEF MainInv, Buffer, Format, Then, Result
  <2>7. FromStdin'
    BY <1>1, <1>3, <2>1, <2>3 DEF MainInv, FromStdin, Format, Then, Result
  <2> QED BY <1>1, <1>3, <2>6, <2>7, ThenKeeps DEF Format
<1> QED BY <1>2, <1>3 DEF Format

\* A write, whole or not, is to a file that was given and parses.
LEMMA WriteKeeps ==
  ASSUME MainInv, pc = "output", params.Write, UNCHANGED <<params, files, stdin, stdout, before>>,
         NEW p \in Paths, p = files[i], NEW new, disk' = [disk EXCEPT ![p] = new],
         Fail \/ (Done /\ new = buf)
  PROVE  MainInv'
<1>1. /\ "output" \in Inside /\ Ends("output") /\ i' = i + 1 /\ stderr \subseteq stderr'
      /\ files[i] # Stdin
  BY DEF Inside, Ends, Done, Fail, MainInv, Buffer
<1>2. /\ i \in 1 .. Len(files) /\ i \in Nat /\ Len(files) \in Nat
      /\ Len(stdout) \in Nat
  BY <1>1, Current DEF MainInv, Loop
<1>3. PICK n \in 1 .. Len(files) : n = i
  BY <1>2
<1>4. disk = [q \in Paths |-> disk[q]] /\ disk' = [q \in Paths |-> disk'[q]]
  BY DEF MainInv, Loop
<1>5. disk'[p] = new /\ \A q \in Paths \ {p} : disk'[q] = disk[q]
  BY <1>4
<1>6. /\ Writes /\ disk[p].parses /\ buf = Result(disk[p])
      /\ ShouldFormat => buf.parses
  BY <1>1 DEF MainInv, Buffer, Writes
<1>7. /\ \A q : Failed(q) => Failed(q)'
      /\ Fail => Failed(p)'
  BY <1>1, <1>2 DEF Failed, Fail
<1>8. /\ \A q \in Paths : Result(before[q])' = Result(before[q])
      /\ \A q \in Paths : Result(Result(before[q]))' = Result(Result(before[q]))
      /\ ShouldFormat' <=> ShouldFormat
      /\ Writes' <=> Writes
  BY DEF Result, ShouldFormat, Writes
<1>9. Intact(p) /\ (Once(p) => before[p].parses \/ Failed(p)) /\ before[p].parses /\ Once(p)'
  <2>1. Intact(p)
    BY DEF MainInv
  <2>2. before[p].parses
    BY <1>6, <2>1 DEF Intact
  <2>3. Once(p)'
    BY <1>1, <1>2 DEF Once
  <2> QED BY <2>1, <2>2, <2>3
<1>10. Loop'
  BY <1>1, <1>4, LoopKept DEF MainInv, Loop
<1>11. (\A q \in Paths : Intact(q))'
  <2> SUFFICES ASSUME NEW q \in Paths
               PROVE  Intact(q)'
    OBVIOUS
  <2>1. CASE q = p /\ Failed(p)'
    BY <1>6, <1>8, <1>9, <2>1 DEF Intact
  <2>2. CASE q = p /\ ~Failed(p)'
    <3>1. Done /\ new = buf /\ ~Failed(p)
      BY <1>7, <2>2
    <3>2. /\ Result(disk[p]) = Made(p)'
          /\ Again(p)' => Result(before[p]).parses
      BY <1>1, <1>2, <1>6, <3>1, WritesMade
    <3>3. disk'[p] = Made(p)' /\ (ShouldFormat => disk'[p].parses)
      BY <1>5, <1>6, <3>1, <3>2
    <3> QED BY <1>6, <1>8, <1>9, <2>2, <3>2, <3>3 DEF Intact
  <2>3. CASE q # p
    <3>1. Intact(q) /\ disk'[q] = disk[q]
      BY <1>5, <2>3 DEF MainInv
    <3>2. Failed(q)' <=> Failed(q)
      BY <1>1, <1>2, <2>3 DEF Failed, Fail, Done
    <3>3. \A k \in 1 .. Len(files) : files[k] = q => (k < i' <=> k < i)
      BY <1>1, <1>2, <2>3
    <3>4. (Once(q)' <=> Once(q)) /\ (Again(q)' <=> Again(q))
      BY <3>3 DEF Once, Again
    <3>5. Made(q)' = Made(q)
      BY <1>8, <3>4 DEF Made
    <3> QED BY <1>8, <3>1, <3>2, <3>4, <3>5 DEF Intact
  <2> QED BY <2>1, <2>2, <2>3
<1>12. Buffer' /\ FromStdin'
  BY BufferFree
<1>13. StdinLeft'
  BY <1>1, StdinKept
<1>14. Progress'
  <2>1. stderr' \subseteq stderr \union {i}
    BY DEF Fail, Done
  <2>2. files[n] # Stdin
    BY <1>1, <1>3
  <2> QED BY <1>1, <1>2, <1>3, <1>6, <2>1, <2>2, ProgressKept
<1> QED BY <1>10, <1>11, <1>12, <1>13, <1>14 DEF MainInv

\* The file is written.
LEMMA WriteFileKeeps == MainInv /\ WriteFile => MainInv'
<1> SUFFICES ASSUME MainInv, WriteFile
             PROVE  MainInv'
  OBVIOUS
<1>1. files[i] \in Paths
  BY Current DEF MainInv, Buffer, WriteFile, Inside
<1>2. PICK p \in Paths : p = files[i]
  BY <1>1
<1> QED BY <1>2, WriteKeeps DEF WriteFile

\* It is not, or not completely.
LEMMA WriteFailsKeeps == MainInv /\ WriteFails => MainInv'
<1> SUFFICES ASSUME MainInv, WriteFails
             PROVE  MainInv'
  OBVIOUS
<1>1. files[i] \in Paths
  BY Current DEF MainInv, Buffer, WriteFails, Inside
<1>2. PICK p \in Paths : p = files[i]
  BY <1>1
<1>3. CASE UNCHANGED disk
  BY <1>3, FailKeeps DEF WriteFails, Inside
<1>4. ASSUME NEW torn \in Torn, disk' = [disk EXCEPT ![files[i]] = torn]
      PROVE  MainInv'
  BY <1>2, <1>4, WriteKeeps DEF WriteFails
<1> QED BY <1>3, <1>4 DEF WriteFails

\* The source is printed, or not completely.
LEMMA PrintSourceKeeps == MainInv /\ PrintSource => MainInv'
<1> SUFFICES ASSUME MainInv, PrintSource
             PROVE  MainInv'
  OBVIOUS
<1>1. "output" \in Inside /\ pc \in Inside /\ Ends("output") /\ i' = i + 1
  BY DEF Inside, PrintSource, Ends, Done, Fail
<1>2. /\ i \in 1 .. Len(files) /\ i \in Nat /\ Len(files) \in Nat
  BY <1>1, Current
<1>3. PICK n \in 1 .. Len(files) : n = i
  BY <1>2
<1>4. stdout = [j \in 1 .. Len(stdout) |-> stdout[j]] /\ Len(stdout) \in Nat
  BY DEF MainInv, Loop
<1>5. CASE Fail /\ UNCHANGED stdout
  BY <1>1, <1>5, FailKeeps DEF PrintSource
<1>6. ASSUME NEW e, stdout' = Append(stdout, e),
             Fail \/ (Done /\ e = Output("source", buf))
      PROVE  MainInv'
  <2>1. /\ Len(stdout') = Len(stdout) + 1
        /\ \A j \in 1 .. Len(stdout) : stdout'[j] = stdout[j]
        /\ stdout'[Len(stdout) + 1] = e
        /\ stdout' = [j \in 1 .. Len(stdout') |-> stdout'[j]]
    BY <1>4, <1>6, PrintedAfter
  <2>2. Loop'
    BY <1>1, <1>4, <2>1, LoopKept DEF MainInv, Loop, PrintSource
  <2>3. stderr \subseteq stderr' /\ stderr' \subseteq stderr \union {i}
    BY <1>6 DEF Fail, Done
  <2>4. (\A p \in Paths : Intact(p))'
    BY <1>1, <1>2, <2>3, IntactKept DEF PrintSource, Writes
  <2>5. Buffer' /\ FromStdin'
    BY <1>6, BufferFree
  <2>6. StdinLeft'
    BY <1>1, StdinKept DEF PrintSource
  <2>7. n \in stderr' \/ (~Writes /\ Processed(n)')
    <3>1. CASE Fail
      BY <1>3, <3>1 DEF Fail
    <3>2. CASE Done /\ e = Output("source", buf)
      <4>1. buf = Result(Original(n))
        BY <1>1, <1>3, Current DEF MainInv, Buffer, FromStdin, Intact, PrintSource, Writes
      <4>2. Result(Original(n))' = Result(Original(n)) /\ ~params.List
        BY <1>1 DEF Result, ShouldFormat, Original, PrintSource, MainInv, Buffer
      <4>3. e = [file |-> n, kind |-> "source", src |-> Result(Original(n))']
        BY <1>3, <3>2, <4>1, <4>2 DEF Output
      <4>4. \E j \in 1 .. Len(stdout') : stdout'[j] = e
        BY <1>4, <2>1
      <4> QED BY <4>2, <4>3, <4>4 DEF Processed, PrintSource, Writes
    <3> QED BY <1>6, <3>1, <3>2
  <2>8. Progress'
    BY <1>1, <1>2, <1>3, <1>4, <2>1, <2>3, <2>7, ProgressKept DEF PrintSource
  <2> QED BY <2>2, <2>4, <2>5, <2>6, <2>8 DEF MainInv
<1> QED BY <1>5, <1>6 DEF PrintSource

\* Every step.
LEMMA NextKeeps == MainInv /\ [Next]_vars => MainInv'
<1> SUFFICES ASSUME MainInv, [Next]_vars
             PROVE  MainInv'
  OBVIOUS
<1>1. CASE UNCHANGED vars
  <2>1. Loop' /\ StdinLeft'
    BY <1>1 DEF vars, MainInv, Loop, StdinLeft, StdinRead
  <2>2. (\A p \in Paths : Intact(p))'
    BY <1>1, IntactKept DEF vars
  <2>3. Buffer' /\ FromStdin'
    BY <1>1 DEF vars, MainInv, Buffer, FromStdin, Original, Result, ShouldFormat
  <2>4. Progress'
    BY <1>1
       DEF vars, MainInv, Progress, Writes, Processed, ListedTwice, Original, Result, ShouldFormat,
           Failed
  <2> QED BY <2>1, <2>2, <2>3, <2>4 DEF MainInv
<1>2. CASE Next
  BY <1>2, ExpandKeeps, GoListFailsKeeps, ReadFileKeeps, ReadStdinKeeps, ReadFailsKeeps,
     ParseFailsKeeps, ListFileKeeps, ParseKeeps, RewriteKeeps, FormatKeeps, WriteFileKeeps,
     WriteFailsKeeps, PrintSourceKeeps
     DEF Next
<1> QED BY <1>1, <1>2

LEMMA MainInvariant == Spec => []MainInv
<1>1. Init => MainInv
  BY MainInit
<1>2. MainInv /\ [Next]_vars => MainInv'
  BY NextKeeps
<1> QED BY <1>1, <1>2, PTL DEF Spec
----------------------------------------------------------------------------
(***************************************************************************)
(* Type correctness of the command's loop (Run, main.go).                  *)
(***************************************************************************)
THEOREM MainTypeCorrect == Spec => []TypeOK
<1>1. MainInv => TypeOK
  BY DEF MainInv, Loop, TypeOK, Arguments, IsFileArg
<1> QED BY <1>1, MainInvariant, PTL

(***************************************************************************)
(* No failure in any order leaves a file other than it was, or other than  *)
(* the rewrite makes it, without an error logged for it (processFile and   *)
(* os.WriteFile in main.go), for any number of files.  A file that is      *)
(* listed more than once may be what two rewrites make of it; a third one  *)
(* changes nothing, whatever the order of its imports.                     *)
(***************************************************************************)
THEOREM FilesStayIntact == Spec => []FilesIntact
<1>1. MainInv => FilesIntact
  <2> SUFFICES ASSUME MainInv, NEW p \in Paths, disk[p] # before[p]
               PROVE  /\ params.Write /\ ~params.List /\ before[p].parses
                      /\ \E k \in 1 .. Len(files) : files[k] = p
                      /\ \/ Failed(p)
                         \/ disk[p] = Result(before[p])
                         \/ ListedTwice(p) /\ disk[p] = Result(Result(before[p]))
    BY DEF FilesIntact
  <2>1. Intact(p)
    BY DEF MainInv
  <2>2. Writes /\ before[p].parses /\ Once(p)
    BY <2>1 DEF Intact
  <2>3. Again(p) => ListedTwice(p)
    BY DEF Again, ListedTwice
  <2>4. Failed(p) \/ disk[p] = Result(before[p]) \/ (Again(p) /\ disk[p] = Result(Result(before[p])))
    BY <2>1, <2>2 DEF Intact, Made
  <2> QED BY <2>2, <2>3, <2>4 DEF Once, Writes
<1> QED BY <1>1, MainInvariant, PTL

(***************************************************************************)
(* What gofmt refuses is not written (the format step of processFile).     *)
(***************************************************************************)
THEOREM GofmtGuardsFiles == Spec => []GofmtGuards
<1>1. MainInv => GofmtGuards
  <2> SUFFICES ASSUME MainInv, params.Write, ShouldFormat, NEW p \in Paths, before[p].parses
               PROVE  disk[p].parses \/ Failed(p)
    BY DEF GofmtGuards
  <2>1. Intact(p)
    BY DEF MainInv
  <2>2. CASE disk[p] = before[p]
    BY <2>2
  <2>3. CASE disk[p] # before[p]
    BY <2>1, <2>3 DEF Intact
  <2> QED BY <2>2, <2>3
<1> QED BY <1>1, MainInvariant, PTL

(***************************************************************************)
(* A file that fails stops none of the others and shows in the exit code   *)
(* (the loop of Run).                                                      *)
(***************************************************************************)
THEOREM AllFilesProcessed == Spec => []EveryFileProcessed
<1>1. MainInv => EveryFileProcessed
  <2> SUFFICES ASSUME MainInv, pc = "exit", 0 \notin stderr, NEW k \in 1 .. Len(files) \ stderr
               PROVE  Processed(k)
    BY DEF MainInv, Loop, EveryFileProcessed
  <2>1. /\ \A m \in 1 .. Len(files) : m < i
        /\ i \in Nat /\ Len(files) \in Nat /\ files[k] \in Arguments
    BY DEF MainInv, Loop
  <2>2. CASE ~Writes
    BY <2>1, <2>2 DEF MainInv, Progress
  <2>3. CASE Writes
    <3>1. PICK p \in Paths : p = files[k] /\ Original(k) = before[p]
      BY <2>1, <2>3 DEF MainInv, Progress, Arguments, Original
    <3>2. Intact(p)
      BY DEF MainInv
    <3>3. Once(p) /\ (Again(p) <=> ListedTwice(p))
      BY <2>1, <3>1 DEF Once, Again, ListedTwice
    <3>4. Failed(p) \/ disk[p] = Made(p)
      BY <2>3, <3>2 DEF Intact
    <3> QED BY <2>3, <3>1, <3>3, <3>4 DEF Processed, Made, Writes
  <2> QED BY <2>2, <2>3
<1> QED BY <1>1, MainInvariant, PTL
----------------------------------------------------------------------------
(***************************************************************************)
(* What the command prints and writes, for any files, command lines and    *)
(* failures: ListAgrees, RunAgain and CallsResolve.                        *)
(***************************************************************************)

\* An entry of stdout is about a file that is done with: its name if it has
\* inserts, or what is to be made of it, if it parses, unless printing failed.
Truthful(e) ==
  /\ e.file \in 1 .. Len(files)
  /\ e.file < i
  /\ e.kind = "name" => HasInserts(Original(e.file))
  /\ e.kind = "source" =>
       /\ Original(e.file).parses
       /\ e.file \notin stderr => e.src = Result(Original(e.file))

\* With -l, no file with inserts was passed over.
NamesPrinted ==
  params.List =>
    \A k \in 1 .. Len(files) :
      k < i /\ k \notin stderr /\ HasInserts(Original(k)) => Listed(k)

PrintInv ==
  /\ pc = "args" => stdout = << >>
  /\ \A j \in 1 .. Len(stdout) : Truthful(stdout[j])
  /\ NamesPrinted
----------------------------------------------------------------------------
\* A file with inserts is changed by the rewrite.
LEMMA InsertsChange ==
  ASSUME NEW src, IsSource(src), src.parses, HasInserts(src)
  PROVE  RewriteFile(src) # src
<1>1. CASE RewriteFile(src).parses
  BY <1>1, NothingLeft
<1>2. CASE ~RewriteFile(src).parses
  BY <1>2
<1> QED BY <1>1, <1>2

LEMMA EmptyIsSource == IsSource(Empty)
<1>1. Idents(Empty) = {}
  <2>1. ToSet(Empty.imports) = {} /\ Empty.locals = {} /\ Empty.sites = {}
    BY DEF Empty, ToSet
  <2> QED BY <2>1 DEF Idents
<1>2. Empty \in Source
  BY DEF Empty, Source
<1>3. RunsAscend(Empty.imports)
  BY DEF Empty, RunsAscend
<1> QED BY <1>1, <1>2, <1>3, FS_EmptySet DEF IsSource

\* What the files of the list were before are files.
LEMMA OriginalIsSource ==
  ASSUME MainInv, NEW k \in 1 .. Len(files)
  PROVE  IsSource(Original(k))
<1>1. files[k] \in Arguments
  BY DEF MainInv, Loop
<1>2. IsSource(before[files[k]])
  BY <1>1, SourcesAssumption DEF MainInv, Loop, Arguments
<1> QED BY <1>2, EmptyIsSource DEF Original

\* What is printed or written is left alone by the next run, if it is Go and
\* gofmt leaves the imports of errtrace in their order.
LEMMA ResultAgain ==
  ASSUME NEW src, IsSource(src), Result(src).parses, ShouldFormat => InOrder(src)
  PROVE  RewriteFile(Result(src)) = Result(src)
<1>1. RewriteFile(src).parses
  BY ResultIsSource
<1> QED BY <1>1, RewriteTwice DEF Result

\* What was written to a file, without an error.
WrittenTo(p) ==
  /\ before[p].parses /\ (ShouldFormat => disk[p].parses)
  /\ disk[p] = IF Again(p) THEN Result(Result(before[p])) ELSE Result(before[p])
  /\ Again(p) => Result(before[p]).parses

LEMMA WrittenIsMade ==
  ASSUME MainInv, NEW p \in Paths, disk[p] # before[p], ~Failed(p)
  PROVE  WrittenTo(p)
<1>1. Intact(p)
  BY DEF MainInv
<1>2. Writes /\ Once(p) /\ before[p].parses
  BY <1>1 DEF Intact
<1> QED BY <1>1, <1>2 DEF Intact, Made, WrittenTo

\* What the buffer holds comes from the file as it was, as far as it shows.
LEMMA BufferOfOriginal ==
  ASSUME MainInv, pc \in Inside
  PROVE  /\ pc = "parse" /\ params.List => buf = Original(i)
         /\ pc = "output" /\ ~params.Write => buf = Result(Original(i)) /\ Original(i).parses
         /\ pc = "output" => ~params.List
<1>1. /\ files[i] # Stdin => files[i] \in Paths /\ Original(i) = before[files[i]]
  BY Current
<1>2. ASSUME files[i] # Stdin, params.List \/ ~params.Write
      PROVE  disk[files[i]] = before[files[i]]
  BY <1>1, <1>2 DEF MainInv, Intact, Writes
<1>3. CASE files[i] = Stdin
  BY <1>3 DEF MainInv, Buffer, FromStdin
<1>4. CASE files[i] # Stdin
  BY <1>1, <1>2, <1>4 DEF MainInv, Buffer
<1> QED BY <1>3, <1>4
----------------------------------------------------------------------------
\* A step of processFile: at most one entry is printed, and the current file is
\* listed by then if it should be.
LEMMA PrintKept ==
  ASSUME MainInv, PrintInv, UNCHANGED <<params, files, before>>,
         pc' # "args", stderr \subseteq stderr', i' = i \/ i' = i + 1,
         Len(stdout') \in Nat, Len(stdout') >= Len(stdout),
         \A j \in 1 .. Len(stdout) : stdout'[j] = stdout[j],
         \A j \in 1 .. Len(stdout') : j > Len(stdout) => Truthful(stdout[j])',
         NEW n \in 1 .. Len(files), n = i,
         i' = i + 1 /\ params.List /\ HasInserts(Original(n)) => n \in stderr' \/ Listed(n)'
  PROVE  PrintInv'
<1>1. i \in Nat /\ Len(stdout) \in Nat /\ Len(files) \in Nat
  BY DEF MainInv, Loop
<1>2. \A k : Original(k)' = Original(k) /\ Result(Original(k))' = Result(Original(k))
  BY DEF Original, Result, ShouldFormat
<1>3. \A j \in 1 .. Len(stdout') : Truthful(stdout[j])'
  <2> SUFFICES ASSUME NEW j \in 1 .. Len(stdout'), j <= Len(stdout)
               PROVE  Truthful(stdout[j])'
    BY <1>1
  <2>1. Truthful(stdout[j]) /\ stdout'[j] = stdout[j]
    BY <1>1 DEF PrintInv
  <2> QED BY <1>1, <1>2, <2>1 DEF Truthful
<1>4. NamesPrinted'
  <2> SUFFICES ASSUME params.List, NEW k \in 1 .. Len(files), k < i', k \notin stderr',
                      HasInserts(Original(k))
               PROVE  Listed(k)'
    BY <1>2 DEF NamesPrinted
  <2>1. CASE k = n
    BY <1>1, <2>1
  <2>2. CASE k # n
    <3>1. Listed(k)
      BY <1>1, <2>2 DEF PrintInv, NamesPrinted
    <3> QED BY <1>1, <3>1 DEF Listed
  <2> QED BY <2>1, <2>2
<1> QED BY <1>3, <1>4 DEF PrintInv

\* A step that prints nothing and ends the file, if at all, with an error.
LEMMA QuietKept ==
  ASSUME MainInv, PrintInv, pc \in {"read"} \union Inside,
         UNCHANGED <<params, files, before, stdout>>,
         NEW label \in Inside, Then(label) \/ Fail
  PROVE  PrintInv'
<1>1. i \in 1 .. Len(files) /\ Len(stdout) \in Nat
  BY Current DEF MainInv, Loop
<1>2. PICK n \in 1 .. Len(files) : n = i
  BY <1>1
<1>3. /\ pc' # "args" /\ stderr \subseteq stderr' /\ (i' = i \/ i' = i + 1)
      /\ i' = i + 1 => n \in stderr'
  BY <1>1, <1>2 DEF Then, Fail, Continue, Inside
<1> QED BY <1>1, <1>2, <1>3, PrintKept

LEMMA ListFilePrints ==
  ASSUME MainInv, PrintInv, ListFile
  PROVE  PrintInv'
<1>1. pc = "parse" /\ pc \in Inside /\ "parse" \in Inside /\ params.List
  BY DEF ListFile, Inside
<1>2. /\ i \in 1 .. Len(files) /\ i \in Nat
      /\ Len(stdout) \in Nat /\ stdout = [j \in 1 .. Len(stdout) |-> stdout[j]]
      /\ buf = Original(i)
  BY <1>1, Current, BufferOfOriginal DEF MainInv, Loop
<1>3. PICK n \in 1 .. Len(files) : n = i
  BY <1>2
<1>4. UNCHANGED <<params, files, before>>
  BY DEF ListFile
<1>5. CASE Fail /\ UNCHANGED stdout
  BY <1>1, <1>4, <1>5, QuietKept
<1>6. CASE ~HasInserts(buf) /\ Done /\ UNCHANGED stdout
  <2>1. pc' # "args" /\ stderr \subseteq stderr' /\ i' = i + 1
    BY <1>6 DEF Done, Continue
  <2> QED BY <1>2, <1>3, <1>4, <1>6, <2>1, PrintKept
<1>7. CASE HasInserts(buf) /\ Done /\ stdout' = Append(stdout, Output("name", buf))
  <2>1. pc' # "args" /\ stderr' = stderr /\ i' = i + 1
    BY <1>7 DEF Done, Continue
  <2>2. /\ Len(stdout') = Len(stdout) + 1
        /\ \A j \in 1 .. Len(stdout) : stdout'[j] = stdout[j]
        /\ stdout'[Len(stdout) + 1] = [file |-> n, kind |-> "name", src |-> buf]
    BY <1>2, <1>3, <1>7, PrintedAfter DEF Output
  <2>3. Original(n)' = Original(n)
    BY <1>4 DEF Original
  <2>4. ASSUME NEW j \in 1 .. Len(stdout'), j > Len(stdout)
        PROVE  Truthful(stdout[j])'
    <3>1. stdout'[j] = [file |-> n, kind |-> "name", src |-> buf]
      BY <1>2, <2>2, <2>4
    <3> QED BY <1>2, <1>3, <1>4, <1>7, <2>1, <2>3, <3>1 DEF Truthful
  <2>5. Listed(n)'
    BY <1>2, <2>2 DEF Listed
  <2> QED BY <1>2, <1>3, <1>4, <2>1, <2>2, <2>4, <2>5, PrintKept
<1> QED BY <1>5, <1>6, <1>7 DEF ListFile

LEMMA WriteFilePrints ==
  ASSUME MainInv, PrintInv, WriteFile
  PROVE  PrintInv'
<1>1. pc = "output" /\ pc \in Inside /\ UNCHANGED <<params, files, before, stdout>>
  BY DEF WriteFile, Inside
<1>2. i \in 1 .. Len(files) /\ Len(stdout) \in Nat /\ ~params.List
  BY <1>1, Current, BufferOfOriginal DEF MainInv, Loop
<1>3. PICK n \in 1 .. Len(files) : n = i
  BY <1>2
<1>4. pc' # "args" /\ stderr \subseteq stderr' /\ i' = i + 1
  BY DEF WriteFile, Done, Continue
<1> QED BY <1>1, <1>2, <1>3, <1>4, PrintKept

LEMMA PrintSourcePrints ==
  ASSUME MainInv, PrintInv, PrintSource
  PROVE  PrintInv'
<1>1. pc = "output" /\ pc \in Inside /\ ~params.Write /\ UNCHANGED <<params, files, before>>
  BY DEF PrintSource, Inside
<1>2. /\ i \in 1 .. Len(files) /\ i \in Nat
      /\ Len(stdout) \in Nat /\ stdout = [j \in 1 .. Len(stdout) |-> stdout[j]]
      /\ ~params.List
      /\ buf = Result(Original(i)) /\ Original(i).parses
  BY <1>1, Current, BufferOfOriginal DEF MainInv, Loop
<1>3. PICK n \in 1 .. Len(files) : n = i
  BY <1>2
<1>4. CASE Fail /\ UNCHANGED stdout
  BY <1>1, <1>4, QuietKept
<1>5. ASSUME NEW src, stdout' = Append(stdout, Output("source", src)),
             Fail \/ (Done /\ src = buf)
      PROVE  PrintInv'
  <2>1. /\ pc' # "args" /\ stderr \subseteq stderr' /\ i' = i + 1
        /\ n \in stderr' \/ src = Result(Original(n))
        /\ Original(n).parses
    BY <1>2, <1>3, <1>5 DEF Done, Fail, Continue
  <2>2. /\ Len(stdout') = Len(stdout) + 1
        /\ \A j \in 1 .. Len(stdout) : stdout'[j] = stdout[j]
        /\ stdout'[Len(stdout) + 1] = [file |-> n, kind |-> "source", src |-> src]
    BY <1>2, <1>3, <1>5, PrintedAfter DEF Output
  <2>3. Original(n)' = Original(n) /\ Result(Original(n))' = Result(Original(n))
    BY <1>1 DEF Original, Result, ShouldFormat
  <2>4. ASSUME NEW j \in 1 .. Len(stdout'), j > Len(stdout)
        PROVE  Truthful(stdout[j])'
    <3>1. stdout'[j] = [file |-> n, kind |-> "source", src |-> src]
      BY <1>2, <2>2, <2>4
    <3> QED BY <1>1, <1>2, <1>3, <2>1, <2>3, <3>1 DEF Truthful
  <2> QED BY <1>1, <1>2, <1>3, <2>1, <2>2, <2>4, PrintKept
<1> QED BY <1>4, <1>5 DEF PrintSource

LEMMA NextPrints ==
  ASSUME MainInv, PrintInv, [Next]_vars
  PROVE  PrintInv'
<1>1. CASE Expand \/ GoListFails
  <2>1. stdout' = << >> /\ pc' # "args" /\ i' \in {0, 1}
    BY <1>1 DEF PrintInv, Expand, GoListFails, MainInv, Loop
  <2>2. \A k \in 1 .. Len(files') : ~(k < i')
    BY <2>1
  <2> QED BY <2>1, <2>2 DEF PrintInv, NamesPrinted
<1>2. CASE ReadFile \/ ReadStdin \/ ReadFails \/ ParseFails \/ Parse \/ Rewrite \/ Format
  <2>1. /\ pc \in {"read"} \union Inside
        /\ UNCHANGED <<params, files, before, stdout>>
    BY <1>2 DEF Inside, ReadFile, ReadStdin, ReadFails, ParseFails, Parse, Rewrite, Format
  <2>2. \E label \in Inside : Then(label) \/ Fail
    BY <1>2 DEF Inside, ReadFile, ReadStdin, ReadFails, ParseFails, Parse, Rewrite, Format
  <2> QED BY <2>1, <2>2, QuietKept
<1>3. CASE WriteFails
  <2>1. /\ pc \in {"read"} \union Inside /\ "parse" \in Inside /\ Fail
        /\ UNCHANGED <<params, files, before, stdout>>
    BY <1>3 DEF Inside, WriteFails
  <2> QED BY <2>1, QuietKept
<1>4. CASE UNCHANGED vars
  <2>1. UNCHANGED <<pc, params, files, i, stdout, stderr, before>>
    BY <1>4 DEF vars
  <2> QED BY <2>1
       DEF PrintInv, Truthful, NamesPrinted, Listed, Original, Result, ShouldFormat
<1> QED BY <1>1, <1>2, <1>3, <1>4, ListFilePrints, WriteFilePrints, PrintSourcePrints DEF Next

LEMMA PrintInvariant == Spec => []PrintInv
<1>1. Init => PrintInv
  BY DEF Init, PrintInv, NamesPrinted
<1>2. MainInv /\ PrintInv /\ [Next]_vars => PrintInv'
  BY NextPrints
<1> QED BY <1>1, <1>2, MainInvariant, PTL DEF Spec
----------------------------------------------------------------------------
(***************************************************************************)
(* -l names exactly the files that the rewrite changes (processFile).      *)
(***************************************************************************)
THEOREM ListNamesChanges == Spec => []ListAgrees
<1>1. MainInv /\ PrintInv => ListAgrees
  <2> SUFFICES ASSUME MainInv, PrintInv, pc = "exit", params.List, 0 \notin stderr,
                      NEW k \in 1 .. Len(files) \ stderr
               PROVE  Listed(k) <=> RewriteFile(Original(k)) # Original(k)
    BY DEF ListAgrees
  <2>1. k < i /\ Processed(k)
    BY DEF MainInv, Loop, Progress, Writes
  <2>2. Original(k).parses /\ IsSource(Original(k))
    BY <2>1, OriginalIsSource DEF Processed
  <2>3. HasInserts(Original(k)) <=> RewriteFile(Original(k)) # Original(k)
    BY <2>2, InsertsChange DEF RewriteFile
  <2>4. HasInserts(Original(k)) <=> Listed(k)
    BY <2>1 DEF PrintInv, NamesPrinted, Truthful, Listed
  <2> QED BY <2>3, <2>4
<1> QED BY <1>1, MainInvariant, PrintInvariant, PTL

(***************************************************************************)
(* A second run changes nothing of what the first one wrote or printed     *)
(* without an error, as long as it is Go and gofmt left the imports of     *)
(* errtrace in their order (main_test.go re-runs the command on output     *)
(* that is not formatted).                                                 *)
(***************************************************************************)
THEOREM SecondRunIsNoop == Spec => []RunAgain
<1>1. MainInv /\ PrintInv => RunAgain
  <2> SUFFICES ASSUME MainInv, PrintInv, NEW w \in Written, w[2].parses,
                      ShouldFormat => InOrder(w[1])
               PROVE  RewriteFile(w[2]) = w[2]
    BY DEF RunAgain
  <2>1. CASE \E p \in Paths : disk[p] # before[p] /\ ~Failed(p) /\ w = <<before[p], disk[p]>>
    <3>1. PICK p \in Paths : disk[p] # before[p] /\ ~Failed(p) /\ w = <<before[p], disk[p]>>
      BY <2>1
    <3>2. WrittenTo(p) /\ IsSource(before[p])
      BY <3>1, WrittenIsMade, SourcesAssumption DEF MainInv, Loop
    <3>3. CASE Again(p)
      BY <3>1, <3>2, <3>3, ResultSettles DEF WrittenTo
    <3>4. CASE ~Again(p)
      BY <3>1, <3>2, <3>4, ResultAgain DEF WrittenTo
    <3> QED BY <3>3, <3>4
  <2>2. CASE \E j \in 1 .. Len(stdout) :
               /\ stdout[j].kind = "source" /\ stdout[j].file \notin stderr
               /\ w = <<Original(stdout[j].file), stdout[j].src>>
    <3>1. PICK j \in 1 .. Len(stdout) :
               /\ stdout[j].kind = "source" /\ stdout[j].file \notin stderr
               /\ w = <<Original(stdout[j].file), stdout[j].src>>
      BY <2>2
    <3>2. stdout[j].file \in 1 .. Len(files) /\ stdout[j].src = Result(Original(stdout[j].file))
      BY <3>1 DEF PrintInv, Truthful
    <3> QED BY <3>1, <3>2, OriginalIsSource, ResultAgain
  <2> QED BY <2>1, <2>2 DEF Written
<1> QED BY <1>1, MainInvariant, PrintInvariant, PTL

----------------------------------------------------------------------------
(***************************************************************************)
(* The calls that are written mean errtrace.                               *)
(***************************************************************************)
\* With one import of errtrace that can be used, its name is the only one
\* errtrace has; with none, errtrace has no name but the blank one.
LEMMA OneName ==
  ASSUME NEW src, IsSource(src), OneImport(src),
         NEW imp \in ToSet(src.imports), IsErrtrace(imp), imp.name # Blank
  PROVE  UsableImport(src) # 0 /\ imp.name = ErrtracePkg(src)
<1>1. src \in Source
  BY DEF IsSource
<1>2. PICK x \in 1 .. Len(src.imports) : src.imports[x] = imp
  BY <1>1, ImportSet DEF Source
<1>3. x \in Usable(src) /\ UsableImport(src) # 0
  BY <1>1, <1>2, FirstUsable DEF Usable
<1>4. x = UsableImport(src)
  BY <1>1, <1>3, UsedName DEF OneImport
<1> QED BY <1>1, <1>2, <1>3, <1>4, UsedName

\* What the rewritten file imports: what the file did, and errtrace under the
\* chosen name if it did not.
LEMMA ImportsOfResult ==
  ASSUME NEW src, IsSource(src)
  PROVE  ToSet(Result(src).imports) =
           ToSet(src.imports) \union (IF NeedsImport(src) THEN {NewImport(src)} ELSE {})
<1>1. ToSet(Result(src).imports) = ToSet(RewriteFile(src).imports)
  BY RewriteIsSource, GofmtFile DEF Result
<1>2. RewriteFile(src).imports = IF NeedsImport(src) THEN WithImport(src) ELSE src.imports
  BY DEF RewriteFile, NeedsImport, IsSource, Source
<1> QED BY <1>1, <1>2, WithImportInserts

\* The rest of it.
LEMMA RestOfResult ==
  ASSUME NEW src, IsSource(src)
  PROVE  /\ Result(src).locals = src.locals
         /\ Result(src).sites = {WrapSite(src, s) : s \in src.sites}
<1>1. src \in Source
  BY DEF IsSource
<1>2. /\ Result(src).locals = RewriteFile(src).locals
      /\ Result(src).sites = RewriteFile(src).sites
  BY RewriteIsSource, GofmtFile DEF Result
<1>3. RewriteFile(src).locals = src.locals
  BY <1>1 DEF RewriteFile, Source
<1>4. RewriteFile(src).sites = {WrapSite(src, s) : s \in src.sites}
  <2>1. CASE HasInserts(src)
    BY <1>1, <2>1 DEF RewriteFile, Source
  <2>2. CASE ~HasInserts(src)
    <3>1. \A s \in src.sites : WrapSite(src, s) = s
      BY <2>2 DEF HasInserts, WrapSite
    <3> QED BY <2>2, <3>1 DEF RewriteFile
  <2> QED BY <2>1, <2>2
<1> QED BY <1>2, <1>3, <1>4

\* A name that is looked for, because there is no import to use, is new.
LEMMA NewName ==
  ASSUME NEW src, IsSource(src), Compiles(src), UsableImport(src) = 0
  PROVE  /\ ErrtracePkg(src) \notin Idents(src) /\ ErrtracePkg(src) \notin src.locals
         /\ ErrtracePkg(src) \notin {Alias, Blank, Dot}
         /\ \A imp \in ToSet(src.imports) : imp.name # ErrtracePkg(src)
<1>1. /\ ErrtracePkg(src) \notin Idents(src) /\ ErrtracePkg(src) \in Nat
      /\ ErrtracePkg(src) >= 1
  BY FreeNameFound DEF ErrtracePkg, IsSource
<1>2. src.locals \subseteq Idents(src)
  BY DEF Idents
<1>3. ErrtracePkg(src) \notin {Alias, Blank, Dot}
  BY <1>1 DEF Alias, Blank, Dot
<1>4. \A imp \in ToSet(src.imports) : imp.name # ErrtracePkg(src)
  BY <1>1, <1>3 DEF Compiles
<1> QED BY <1>1, <1>2, <1>3, <1>4

\* What the command makes of a file calls errtrace, by a name that means it.
LEMMA ResultResolves ==
  ASSUME NEW src, IsSource(src), src.parses, Compiles(src), ErrtracePkg(src) # Dot
  PROVE  /\ Resolves(Result(src))
         /\ OneImport(src) /\ WrappedLast(src) => WrappedOnce(Result(src))
<1> DEFINE out == Result(src)
           pkg == ErrtracePkg(src)
<1>1. pkg \in Names /\ pkg # Blank /\ pkg # Dot /\ src \in Source
  BY PkgIsUsable DEF IsSource
<1>2. /\ out.locals = src.locals
      /\ out.sites = {WrapSite(src, s) : s \in src.sites}
  BY RestOfResult
<1>3. /\ ToSet(src.imports) \subseteq ToSet(out.imports)
      /\ \A imp \in ToSet(out.imports) :
           imp \in ToSet(src.imports) \/ (NeedsImport(src) /\ imp = NewImport(src))
      /\ NeedsImport(src) => NewImport(src) \in ToSet(out.imports)
  BY ImportsOfResult
<1>4. NewImport(src).name = pkg /\ IsErrtrace(NewImport(src))
  BY DEF NewImport, IsErrtrace
<1>5. out.parses
  <2>1. out.parses = RewriteFile(src).parses
    BY ResultIsSource
  <2>2. WellPlaced(src)
    BY DEF WellPlaced, AddKeyword
  <2> HIDE DEF out
  <2> QED BY <1>1, <2>1, <2>2 DEF RewriteFile, Source
<1> HIDE DEF out, pkg
\* The name is errtrace's, and no other's.
<1>6. src.sites # {} => IsPackage(out, pkg)
  <2>1. CASE UsableImport(src) # 0
    BY <1>1, <1>3, <2>1, UsedName DEF IsPackage, pkg
  <2>2. CASE UsableImport(src) = 0 /\ src.sites # {}
    <3>1. PICK s \in src.sites : TRUE
      BY <2>2
    <3>2. s \in Unwrapped(src)
      <4>1. s \in Seq(Names)
        BY <1>1 DEF Source
      <4>2. s # << >> => s[1] \in Idents(src)
        BY <4>1 DEF Idents
      <4> QED BY <2>2, <4>2, NewName DEF Unwrapped
    <3>3. NeedsImport(src)
      BY <2>2, <3>2 DEF NeedsImport, HasInserts
    <3> QED BY <1>3, <1>4, <3>3 DEF IsPackage
  <2> QED BY <2>1, <2>2
<1>7. /\ pkg \notin src.locals
      /\ \A imp \in ToSet(src.imports) : imp.name = pkg => IsErrtrace(imp)
  <2>1. CASE UsableImport(src) # 0
    BY <1>1, <2>1, UsedName DEF Compiles, pkg
  <2>2. CASE UsableImport(src) = 0
    BY <2>2, NewName DEF pkg
  <2> QED BY <2>1, <2>2
<1>8. \A imp \in ToSet(out.imports) : imp.name = pkg => IsErrtrace(imp)
  BY <1>3, <1>4, <1>7
\* The calls.
<1>9. ASSUME NEW s \in src.sites
      PROVE  WrapSite(src, s) # << >> /\ WrapSite(src, s)[1] = pkg
  <2>1. s \in Seq(Names)
    BY <1>1 DEF Source
  <2>2. CASE s \in Unwrapped(src)
    BY <1>1, <2>1, <2>2 DEF WrapSite, pkg
  <2>3. CASE s \notin Unwrapped(src)
    BY <2>1, <2>3 DEF WrapSite, Unwrapped, pkg
  <2> QED BY <2>2, <2>3
<1>10. Resolves(out)
  BY <1>1, <1>2, <1>5, <1>6, <1>7, <1>8, <1>9 DEF Resolves
\* None is wrapped twice, if errtrace has one name.
<1>11. ASSUME OneImport(src), WrappedLast(src), NEW s \in src.sites
       PROVE  {k \in 1 .. Len(WrapSite(src, s)) : IsPackage(out, WrapSite(src, s)[k])} = {1}
  <2>1. \A name : name # Blank /\ IsPackage(out, name) => name = pkg
    <3> SUFFICES ASSUME NEW name, name # Blank,
                        NEW imp \in ToSet(out.imports), IsErrtrace(imp), imp.name = name
                 PROVE  name = pkg
      BY DEF IsPackage
    <3>1. CASE imp \in ToSet(src.imports)
      BY <1>11, <3>1, OneName DEF pkg
    <3>2. CASE imp = NewImport(src)
      BY <1>4, <3>2
    <3> QED BY <1>3, <3>1, <3>2
  <2>2. s \in Seq(Names) /\ IsPackage(out, pkg)
    BY <1>1, <1>6 DEF Source
  <2>3. \A k \in 1 .. Len(s) : s[k] # Blank
    BY <2>2 DEF Compiles, ToSet
  <2>4. \A k \in 2 .. Len(s) : ~IsPackage(out, s[k])
    <3> SUFFICES ASSUME NEW k \in 2 .. Len(s), IsPackage(out, s[k])
                 PROVE  FALSE
      OBVIOUS
    <3>1. s[k] = pkg /\ k \in 1 .. Len(s)
      BY <2>1, <2>2, <2>3
    <3>2. CASE UsableImport(src) # 0
      <4>1. IsPackage(src, pkg)
        BY <1>1, <3>2, UsedName DEF IsPackage, pkg
      <4> QED BY <1>11, <3>1, <4>1 DEF WrappedLast
    <3>3. CASE UsableImport(src) = 0
      <4>1. s[k] \in Idents(src)
        BY <3>1 DEF Idents
      <4> QED BY <3>1, <3>3, <4>1, NewName DEF pkg
    <3> QED BY <3>2, <3>3
  <2>5. CASE s \in Unwrapped(src)
    <3>1. s # << >> => ~IsPackage(out, s[1])
      <4>1. s # << >> => s[1] # pkg /\ 1 \in 1 .. Len(s)
        BY <1>1, <2>2, <2>5 DEF Unwrapped, pkg
      <4> QED BY <2>1, <2>3, <4>1
    <3>2. \A k \in 1 .. Len(s) : ~IsPackage(out, s[k])
      BY <2>2, <2>4, <3>1
    <3> DEFINE t == <<pkg>> \o s
    <3>3. /\ Len(t) = Len(s) + 1 /\ t[1] = pkg /\ t # << >>
          /\ \A k \in 2 .. Len(t) : t[k] = s[k - 1]
      BY <1>1, <2>2
    <3>4. WrapSite(src, s) = t
      BY <2>5 DEF WrapSite, pkg
    <3> HIDE DEF t
    <3>5. \A k \in 2 .. Len(t) : ~IsPackage(out, t[k])
      BY <2>2, <3>2, <3>3
    <3>6. {k \in 1 .. Len(t) : IsPackage(out, t[k])} = {1}
      BY <2>2, <3>3, <3>5
    <3> QED BY <3>3, <3>4, <3>6
  <2>6. CASE s \notin Unwrapped(src)
    <3>1. s # << >> /\ s[1] = pkg /\ WrapSite(src, s) = s /\ Len(s) >= 1 /\ Len(s) \in Nat
      BY <2>2, <2>6 DEF Unwrapped, WrapSite, pkg
    <3>2. {k \in 1 .. Len(s) : IsPackage(out, s[k])} = {1}
      BY <2>2, <2>4, <3>1
    <3> QED BY <3>1, <3>2
  <2> QED BY <2>5, <2>6
<1>12. OneImport(src) /\ WrappedLast(src) => WrappedOnce(out)
  BY <1>2, <1>11 DEF WrappedOnce
<1> QED BY <1>10, <1>12 DEF out

\* And it can still be compiled, as far as names go.
LEMMA ResultCompiles ==
  ASSUME NEW src, IsSource(src), Compiles(src)
  PROVE  Compiles(Result(src))
<1> DEFINE out == Result(src)
           pkg == ErrtracePkg(src)
<1>1. pkg \in Names /\ pkg # Blank /\ src \in Source
  BY PkgIsUsable DEF IsSource
<1>2. /\ out.locals = src.locals
      /\ out.sites = {WrapSite(src, s) : s \in src.sites}
  BY RestOfResult
<1>3. /\ ToSet(src.imports) \subseteq ToSet(out.imports)
      /\ \A imp \in ToSet(out.imports) :
           imp \in ToSet(src.imports) \/ (NeedsImport(src) /\ imp = NewImport(src))
  BY ImportsOfResult
<1>4. NewImport(src).name = pkg /\ IsErrtrace(NewImport(src))
  BY DEF NewImport, IsErrtrace
<1> HIDE DEF out, pkg
<1>5. ASSUME NEW s \in src.sites
      PROVE  /\ ToSet(WrapSite(src, s)) \subseteq {pkg} \union ToSet(s)
             /\ ToSet(s) \subseteq ToSet(WrapSite(src, s))
             /\ s \in Unwrapped(src) => pkg \in ToSet(WrapSite(src, s))
             /\ DOMAIN WrapSite(src, s) = 1 .. Len(WrapSite(src, s)) /\ DOMAIN s = 1 .. Len(s)
  <2>1. s \in Seq(Names) /\ DOMAIN s = 1 .. Len(s) /\ Len(s) \in Nat
    BY <1>1 DEF Source
  <2>2. CASE s \in Unwrapped(src)
    <3> DEFINE t == <<pkg>> \o s
    <3>1. /\ DOMAIN t = 1 .. Len(s) + 1 /\ Len(t) = Len(s) + 1 /\ t[1] = pkg
          /\ \A k \in 1 .. Len(s) : t[k + 1] = s[k]
          /\ \A k \in 2 .. Len(s) + 1 : t[k] = s[k - 1]
      BY <1>1, <2>1
    <3>2. WrapSite(src, s) = t
      BY <2>2 DEF WrapSite, pkg
    <3> HIDE DEF t
    <3>3. ASSUME NEW k \in 1 .. Len(s) + 1
          PROVE  t[k] \in {pkg} \union ToSet(s)
      <4>1. k = 1 \/ (k \in 2 .. Len(s) + 1 /\ k - 1 \in 1 .. Len(s))
        BY <2>1
      <4> QED BY <2>1, <3>1, <4>1 DEF ToSet
    <3>4. ASSUME NEW k \in 1 .. Len(s)
          PROVE  s[k] \in ToSet(t)
      <4>1. k + 1 \in 1 .. Len(s) + 1
        BY <2>1
      <4> QED BY <3>1, <4>1 DEF ToSet
    <3>5. pkg \in ToSet(t)
      <4>1. 1 \in 1 .. Len(s) + 1
        BY <2>1
      <4> QED BY <3>1, <4>1 DEF ToSet
    <3> QED BY <2>1, <3>1, <3>2, <3>3, <3>4, <3>5 DEF ToSet
  <2>3. CASE s \notin Unwrapped(src)
    BY <2>1, <2>3 DEF WrapSite
  <2> QED BY <2>2, <2>3
<1>6. Idents(src) \subseteq Idents(out)
  <2>1. {imp.name : imp \in {x \in ToSet(src.imports) : x.spelt}} \subseteq Idents(out)
    BY <1>3 DEF Idents
  <2>2. ASSUME NEW s \in src.sites, NEW j \in 1 .. Len(s)
        PROVE  s[j] \in Idents(out)
    <3>1. s[j] \in ToSet(WrapSite(src, s))
      BY <1>5 DEF ToSet
    <3> QED BY <1>2, <1>5, <3>1 DEF Idents, ToSet
  <2> QED BY <1>2, <2>1, <2>2 DEF Idents
<1>7. NeedsImport(src) => pkg \in Idents(out)
  <2> SUFFICES ASSUME NeedsImport(src)
               PROVE  pkg \in Idents(out)
    OBVIOUS
  <2>1. PICK s \in src.sites : s \in Unwrapped(src)
    BY DEF NeedsImport, HasInserts, Unwrapped
  <2>2. pkg \in ToSet(WrapSite(src, s))
    BY <1>5, <2>1
  <2> QED BY <1>2, <1>5, <2>2 DEF Idents, ToSet
<1>8. ASSUME NEW imp \in ToSet(out.imports)
      PROVE  imp.name \in Idents(out) \union {Alias, Blank, Dot}
  <2>1. CASE imp \in ToSet(src.imports)
    BY <1>6, <2>1 DEF Compiles
  <2>2. CASE NeedsImport(src) /\ imp = NewImport(src)
    BY <1>4, <1>7, <2>2
  <2> QED BY <1>3, <2>1, <2>2
<1>9. ASSUME NEW imp \in ToSet(out.imports), IsErrtrace(imp), imp.name \notin {Blank, Dot}
      PROVE  /\ imp.name \notin out.locals
             /\ \A other \in ToSet(out.imports) : other.name = imp.name => IsErrtrace(other)
  <2>1. CASE imp \in ToSet(src.imports)
    BY <1>2, <1>3, <1>4, <1>9, <2>1 DEF Compiles
  <2>2. CASE NeedsImport(src) /\ imp = NewImport(src)
    <3>1. pkg \notin src.locals /\ \A other \in ToSet(src.imports) : other.name # pkg
      BY <2>2, NewName DEF NeedsImport, pkg
    <3> QED BY <1>2, <1>3, <1>4, <2>2, <3>1
  <2> QED BY <1>3, <2>1, <2>2
<1>10. ASSUME NEW t \in out.sites
       PROVE  Blank \notin ToSet(t)
  <2>1. PICK s \in src.sites : t = WrapSite(src, s)
    BY <1>2
  <2> QED BY <1>1, <1>5, <2>1 DEF Compiles
<1> QED BY <1>8, <1>9, <1>10 DEF Compiles, out

\* A file that is rewritten twice.
LEMMA ResultTwiceResolves ==
  ASSUME NEW src, IsSource(src), src.parses, Compiles(src), ErrtracePkg(src) # Dot,
         Result(src).parses, ShouldFormat => Result(Result(src)).parses
  PROVE  /\ Resolves(Result(Result(src)))
         /\ OneImport(src) /\ WrappedLast(src) => WrappedOnce(Result(Result(src)))
<1> DEFINE once == Result(src)
<1>1. /\ IsSource(once) /\ RewriteFile(src).parses
      /\ Result(once).parses = RewriteFile(once).parses
  BY ResultIsSource
<1>2. CASE Result(once) = once
  BY <1>2, ResultResolves
<1>3. CASE Result(once) # once
  <2>1. ShouldFormat
    <3> SUFFICES ASSUME ~ShouldFormat
                 PROVE  Result(once) = once
      BY <1>3
    <3> QED BY <1>1, RewriteTwice DEF Result
  <2>2. once = Gofmt(RewriteFile(src)) /\ Result(once) = Gofmt(RewriteFile(once))
    BY <2>1 DEF Result
  <2>3. Gofmt(once) = once
    BY <2>2, RewriteIsSource, GofmtFile
  <2> HIDE DEF once
  <2>4. RewriteFile(once) # once
    BY <1>3, <2>2, <2>3
  <2>5. ErrtracePkg(once) # Dot
    <3>1. HasInserts(once) /\ RewriteFile(once).parses /\ once \in Source
      BY <1>1, <2>1, <2>4 DEF RewriteFile, IsSource, once
    <3> QED BY <3>1 DEF RewriteFile, Source
  <2>6. Resolves(Result(once))
    BY <1>1, <2>5, ResultCompiles, ResultResolves DEF once
  <2>7. ~OneImport(src)
    <3> SUFFICES ASSUME OneImport(src)
                 PROVE  FALSE
      OBVIOUS
    <3>1. InOrder(src)
      <4>1. Usable(src) \subseteq Nat
        BY FirstUsable DEF IsSource
      <4> QED BY <4>1 DEF OneImport, InOrder
    <3> QED BY <1>1, <2>2, <2>4, <3>1, RewriteTwice
  <2> QED BY <2>6, <2>7 DEF once
<1> QED BY <1>2, <1>3

(***************************************************************************)
(* Each call the command writes is by a name that errtrace and nothing     *)
(* else in the file has, for any names and any imports of errtrace and     *)
(* others, unless a dot import is chosen; and nothing is wrapped twice if  *)
(* errtrace has one name in the file.                                      *)
(***************************************************************************)
THEOREM CallsMeanErrtrace == Spec => []CallsResolve
<1>1. MainInv /\ PrintInv => CallsResolve
  <2> SUFFICES ASSUME MainInv, PrintInv, NEW w \in Written, ErrtracePkg(w[1]) # Dot
               PROVE  Resolves(w[2]) /\ (OneImport(w[1]) => WrappedOnce(w[2]))
    BY DEF CallsResolve
  <2>1. CASE \E p \in Paths : disk[p] # before[p] /\ ~Failed(p) /\ w = <<before[p], disk[p]>>
    <3>1. PICK p \in Paths : disk[p] # before[p] /\ ~Failed(p) /\ w = <<before[p], disk[p]>>
      BY <2>1
    <3>2. WrittenTo(p) /\ before \in Inputs
      BY <3>1, WrittenIsMade DEF MainInv, Loop
    <3>3. before[p].parses
      BY <3>2 DEF WrittenTo
    <3>4. IsSource(before[p]) /\ Compiles(before[p]) /\ WrappedLast(before[p])
      BY <3>2, <3>3, SourcesAssumption, CompilesAssumption
    <3>5. CASE Again(p)
      BY <3>1, <3>2, <3>4, <3>5, ResultTwiceResolves DEF WrittenTo
    <3>6. CASE ~Again(p)
      BY <3>1, <3>2, <3>4, <3>6, ResultResolves DEF WrittenTo
    <3> QED BY <3>5, <3>6
  <2>2. CASE \E j \in 1 .. Len(stdout) :
               /\ stdout[j].kind = "source" /\ stdout[j].file \notin stderr
               /\ w = <<Original(stdout[j].file), stdout[j].src>>
    <3>1. PICK j \in 1 .. Len(stdout) :
               /\ stdout[j].kind = "source" /\ stdout[j].file \notin stderr
               /\ w = <<Original(stdout[j].file), stdout[j].src>>
      BY <2>2
    <3>2. PICK k : k = stdout[j].file
      OBVIOUS
    <3>3. k \in 1 .. Len(files) /\ stdout[j].src = Result(Original(k)) /\ Original(k).parses
      BY <3>1, <3>2 DEF PrintInv, Truthful
    <3>4. Original(k) = before[files[k]] /\ files[k] \in Paths \union {Stdin} /\ before \in Inputs
      BY <3>3 DEF MainInv, Loop, Arguments, Original, Empty
    <3>5. IsSource(Original(k)) /\ Compiles(Original(k)) /\ WrappedLast(Original(k))
      BY <3>3, <3>4, SourcesAssumption, CompilesAssumption
    <3> QED BY <3>1, <3>2, <3>3, <3>5, ResultResolves
  <2> QED BY <2>1, <2>2 DEF Written
<1> QED BY <1>1, MainInvariant, PrintInvariant, PTL
============================================================================
