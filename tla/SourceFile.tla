---------------------------- MODULE SourceFile -----------------------------
(***************************************************************************)
(* A Go file as the errtrace command sees it: its imports, its identifiers *)
(* and the error expressions it returns.  parseFile chooses the name under *)
(* which errtrace is used and decides about an import; rewriteFile writes  *)
(* the file out with calls under that name.  (Which expressions are to be  *)
(* wrapped is the subject of Rewrite.)                                     *)
(***************************************************************************)
EXTENDS Integers, Sequences, FiniteSets, SequencesExt

(***************************************************************************)
(* Identifiers: k >= 1 stands for errtrace, errtrace2, errtrace3 and so    *)
(* on, the candidates parseFile tries in this order; Alias for any other.  *)
(* The numbers are in the order in which gofmt sorts the names (up to      *)
(* errtrace9; Alias stands for names before errtrace).                     *)
(***************************************************************************)
Default == 1
Alias == 0
Blank == -1     \* import _ "braces.dev/errtrace"
Dot == -2       \* import . "braces.dev/errtrace"
Names == {k \in Int : k >= Dot}

(***************************************************************************)
(* An import: its path (numbered in the order of paths, errtrace's is 0),  *)
(* its name, whether the name is spelt out, whether it stands in           *)
(* parentheses, and the run it belongs to.  Imports on successive lines    *)
(* within parentheses are a run, and so is each import without them; the   *)
(* runs of a file are numbered from its top.                               *)
(*                                                                         *)
(* The result of gofmt and of a write that stopped half-way are files as   *)
(* well: formatted or not, and with parses saying whether it is still Go.  *)
(*                                                                         *)
(* A site is an error expression in a return statement: the packages whose *)
(* Wrap function it is wrapped in, the outermost first.                    *)
(***************************************************************************)
Errtrace == 0

Import == [path : Int, name : Names, spelt : BOOLEAN, group : BOOLEAN, run : Nat]

Source ==
  [imports : Seq(Import), locals : SUBSET Names, sites : SUBSET Seq(Names),
   formatted : BOOLEAN, parses : BOOLEAN]

RunsAscend(imports) ==
  \A j, k \in 1 .. Len(imports) : j < k =>
    /\ imports[j].run <= imports[k].run
    /\ imports[j].run = imports[k].run => imports[j].group /\ imports[k].group

IsErrtrace(imp) == imp.path = Errtrace

\* The imports of errtrace that are not blank, and the first of them, or 0.
Usable(src) ==
  {k \in 1 .. Len(src.imports) : IsErrtrace(src.imports[k]) /\ src.imports[k].name # Blank}

UsableImport(src) == IF Usable(src) = {} THEN 0 ELSE Min(Usable(src))

\* The identifiers of the file, those of imports and of calls among them.
Idents(src) ==
  src.locals
    \union {imp.name : imp \in {x \in ToSet(src.imports) : x.spelt}}
    \union UNION {{s[j] : j \in 1 .. Len(s)} : s \in src.sites}

IsSource(src) == src \in Source /\ IsFiniteSet(Idents(src)) /\ RunsAscend(src.imports)

\* The first candidate that is no identifier of the file.
FreeName(src) ==
  CHOOSE k \in 1 .. Cardinality(Idents(src)) + 1 :
    k \notin Idents(src) /\ \A j \in 1 .. k - 1 : j \in Idents(src)

\* Variants: the default name whatever the import's name; no search for a free
\* name.
ErrtracePkg_Default(src) == IF UsableImport(src) # 0 THEN Default ELSE FreeName(src)

ErrtracePkg_Taken(src) ==
  IF UsableImport(src) # 0 THEN src.imports[UsableImport(src)].name ELSE Default

\* The name to use: the one errtrace is imported under, or a free one.
ErrtracePkg(src) ==
  IF UsableImport(src) # 0 THEN src.imports[UsableImport(src)].name ELSE FreeName(src)

\* Variant: any import is taken for one by the default name.
Unwrapped_Default(src) == {s \in src.sites : s = << >> \/ s[1] # Default}

\* isErrtraceWrap: only calls of a function of the chosen package are
\* recognised, and what a dot import brings in is called without it.
Unwrapped(src) ==
  {s \in src.sites : s = << >> \/ s[1] # ErrtracePkg(src) \/ s[1] = Dot}

\* Does parseFile return inserts, and is an import among them?
HasInserts(src) == Unwrapped(src) # {}
NeedsImport(src) == UsableImport(src) = 0 /\ HasInserts(src)

(***************************************************************************)
(* The place of the new import: the last import in parentheses, the last   *)
(* import otherwise, or (0) the package clause; and the keyword with it.   *)
(***************************************************************************)
Grouped(src) == {i \in 1 .. Len(src.imports) : src.imports[i].group}

InsertImportAt(src) ==
  IF Grouped(src) # {} THEN CHOOSE i \in Grouped(src) : \A j \in Grouped(src) : j <= i
  ELSE Len(src.imports)

\* Variant: the keyword also inside parentheses.
AddKeyword_Always(src) == TRUE

AddKeyword(src) == Grouped(src) = {}

\* Inside parentheses it comes on the line of the last import there.
NewImport(src) ==
  LET at == InsertImportAt(src)
      last == IF at = 0 THEN 0 ELSE src.imports[at].run
  IN  [path |-> Errtrace, name |-> ErrtracePkg(src), spelt |-> ErrtracePkg(src) # Default,
       group |-> Grouped(src) # {}, run |-> IF Grouped(src) # {} THEN last ELSE last + 1]

\* What the file imports once the new import is written behind the one at i.
WithImport(src) ==
  LET i == InsertImportAt(src) IN
  [j \in 1 .. Len(src.imports) + 1 |->
     IF j <= i THEN src.imports[j] ELSE IF j = i + 1 THEN NewImport(src) ELSE src.imports[j - 1]]

(***************************************************************************)
(* rewriteFile.  A file without inserts comes out as it was.  The keyword  *)
(* import inside parentheses, or its lack outside of them, is no Go, and   *)
(* neither is the call ..Wrap(x) that follows from a dot import.           *)
(***************************************************************************)
WellPlaced(src) == NeedsImport(src) => (AddKeyword(src) <=> Grouped(src) = {})

WrapSite(src, s) == IF s \in Unwrapped(src) THEN <<ErrtracePkg(src)>> \o s ELSE s

RewriteFile(src) ==
  IF ~HasInserts(src) THEN src
  ELSE [src EXCEPT
          !.imports = IF NeedsImport(src) THEN WithImport(src) ELSE @,
          !.sites = {WrapSite(src, s) : s \in @},
          !.formatted = FALSE,
          !.parses = WellPlaced(src) /\ ErrtracePkg(src) # Dot]

(***************************************************************************)
(* gofmt (go/format), which refuses what does not parse.  It sorts each    *)
(* run of imports by path and then by name, an import without a name       *)
(* first, and drops what is there twice.  parseFile takes the first import *)
(* it can use, so that what it chooses may change with the order.          *)
(***************************************************************************)
Before(a, b) ==
  \/ a.run < b.run
  \/ a.run = b.run /\ a.path < b.path
  \/ a.run = b.run /\ a.path = b.path /\ ~a.spelt /\ b.spelt
  \/ a.run = b.run /\ a.path = b.path /\ a.spelt = b.spelt /\ a.name < b.name

Sorted(t) == \A j, k \in DOMAIN t : j < k => Before(t[j], t[k])

SortImports(imports) ==
  CHOOSE t \in [1 .. Cardinality(ToSet(imports)) -> ToSet(imports)] :
    ToSet(t) = ToSet(imports) /\ Sorted(t)

Gofmt(src) == [src EXCEPT !.imports = SortImports(@), !.formatted = TRUE]

\* gofmt will not swap imports of errtrace that parseFile may choose from.
InOrder(src) ==
  \A j, k \in Usable(src) : j < k => ~Before(src.imports[k], src.imports[j])
============================================================================
