--------------------------- MODULE ToolExecProofs ---------------------------
(***************************************************************************)
(* What the tool is given by errtrace, for packages of any number of files *)
(* and arguments, any options and any failures; then what go build gets    *)
(* from it or from its cache.                                              *)
(***************************************************************************)
EXTENDS GoBuild, FiniteSetTheorems, SequenceTheorems, TLAPS

Entry == [temp : BOOLEAN, arg : Nat]

\* How far the loops are, and what the argument list has from them.
Progress ==
  /\ phase \in Phases
  /\ next \in Nat
  /\ newArgs \in Seq(Entry)
  /\ phase \in {"idle", "parse", "mkdir"} => newArgs = << >>
  /\ phase = "rewrite" => next = Len(newArgs) + 1 /\ next <= Len(pkg.args) + 1
  /\ phase = "tool" => Len(newArgs) = Len(pkg.args)

\* The k-th argument leads to the k-th file or to its rewrite.
Faithful(k) ==
  /\ newArgs[k].arg = k
  /\ newArgs[k].temp =>
       /\ IsGoFile(pkg.args[k])
       /\ pkg.args[k].base \in DOMAIN temp
       /\ temp[pkg.args[k].base].arg = k
       /\ temp[pkg.args[k].base].how = IF force THEN "unsafe" ELSE "import"

Complete ==
  phase \in {"rewrite", "tool"} => \A k \in 1 .. Len(newArgs) : Faithful(k)

\* k is the only argument that leads to a declaration.
OnlyLink(k) ==
  \A i \in 1 .. Len(newArgs) : Read(newArgs[i]).link <=> i = k

\* The declaration is still to be added exactly if no file was rewritten in
\* unsafe mode; otherwise one of them has it.
LinkProgress ==
  /\ force \in BOOLEAN
  /\ link \in BOOLEAN
  /\ phase = "rewrite" =>
       (link <=> force /\ \A k \in 1 .. Len(newArgs) : ~newArgs[k].temp)
  /\ phase \in {"rewrite", "tool"} =>
       IF force /\ \E k \in 1 .. Len(newArgs) : newArgs[k].temp
       THEN \E k \in 1 .. Len(newArgs) : OnlyLink(k)
       ELSE \A k \in 1 .. Len(newArgs) : ~Read(newArgs[k]).link

ToolInv == pkg \in Packages /\ Progress /\ Complete /\ LinkProgress
----------------------------------------------------------------------------
\* Before the first build nothing has been collected.
LEMMA ToolInitInv == Init => ToolInv
<1> SUFFICES ASSUME Init PROVE ToolInv
  OBVIOUS
<1>1. Progress
  BY EmptySeq DEF Init, Idle, Progress, Phases
<1>2. Complete /\ LinkProgress
  BY DEF Init, Idle, Complete, LinkProgress
<1> QED BY <1>1, <1>2 DEF Init, ToolInv

\* The arguments of a package as they were given, each leading to its file.
LEMMA GivenArguments ==
  ASSUME pkg \in Packages
  PROVE  /\ Len(pkg.args) \in Nat
         /\ ArgsAsGiven \in Seq(Entry)
         /\ Len(ArgsAsGiven) = Len(pkg.args)
         /\ \A k \in 1 .. Len(pkg.args) : ~ArgsAsGiven[k].temp /\ ArgsAsGiven[k].arg = k
<1>1. Len(pkg.args) \in Nat
  BY PackagesAssumption, LenProperties
<1>2. ArgsAsGiven \in [1 .. Len(pkg.args) -> Entry]
  BY <1>1 DEF ArgsAsGiven, Entry
<1>3. ArgsAsGiven \in Seq(Entry)
  BY <1>1, <1>2, SeqDef
<1>4. Len(ArgsAsGiven) = Len(pkg.args)
  BY <1>1, <1>2, <1>3, LenProperties
<1>5. ASSUME NEW k \in 1 .. Len(pkg.args)
      PROVE  ~ArgsAsGiven[k].temp /\ ArgsAsGiven[k].arg = k
  BY DEF ArgsAsGiven
<1> QED BY <1>1, <1>3, <1>4, <1>5

\* runOriginal without a rewrite gives the tool the arguments as they were.
LEMMA RunOriginalInv ==
  ASSUME ToolInv, RunOriginal, UNCHANGED <<pkg, next, link, temp>>, force' \in BOOLEAN
  PROVE  ToolInv'
<1>1. /\ newArgs' = ArgsAsGiven
      /\ phase' = "tool"
      /\ pkg' = pkg
  BY DEF RunOriginal
<1>2. pkg' \in Packages
  BY <1>1 DEF ToolInv
<1>3. Len(newArgs') = Len(pkg.args) /\ newArgs' \in Seq(Entry)
  BY <1>1, GivenArguments DEF ToolInv
<1>4. \A k \in 1 .. Len(newArgs') : ~newArgs'[k].temp /\ newArgs'[k].arg = k
  BY <1>1, <1>3, GivenArguments DEF ToolInv
<1>5. Progress'
  BY <1>1, <1>3 DEF ToolInv, Progress, Phases
<1>6. Complete'
  BY <1>4 DEF Complete, Faithful
<1>7. ASSUME NEW k \in 1 .. Len(newArgs') PROVE ~Read(newArgs[k])'.link
  BY <1>4 DEF Read, Original
<1>8. LinkProgress'
  BY <1>1, <1>4, <1>7 DEF ToolInv, LinkProgress
<1> QED BY <1>2, <1>5, <1>6, <1>8 DEF ToolInv

\* An argument that is passed on as it is.
LEMMA KeepArgInv == ToolInv /\ KeepArg => ToolInv'
<1> SUFFICES ASSUME ToolInv, KeepArg PROVE ToolInv'
  OBVIOUS
<1>0. PICK n \in Nat : n = Len(newArgs) + 1
  BY LenProperties DEF ToolInv, Progress
<1> DEFINE entry == [temp |-> FALSE, arg |-> n]
<1>1. /\ newArgs \in Seq(Entry)
      /\ next = n
      /\ n <= Len(pkg.args)
      /\ entry \in Entry
  BY <1>0 DEF KeepArg, ToolInv, Progress, Entry
<1>2. newArgs' = Append(newArgs, entry)
  BY <1>1 DEF KeepArg
<1>3. /\ newArgs' \in Seq(Entry)
      /\ Len(newArgs') = n
      /\ newArgs'[n] = entry
      /\ \A k \in 1 .. Len(newArgs) : newArgs'[k] = newArgs[k]
  BY <1>0, <1>1, <1>2, AppendProperties
<1>4. /\ phase = "rewrite" /\ phase' = "rewrite"
      /\ next' = n + 1
      /\ UNCHANGED <<pkg, temp, force, link>>
  BY <1>1 DEF KeepArg
<1>5. Progress'
  BY <1>0, <1>1, <1>3, <1>4, GivenArguments DEF ToolInv, Progress
<1>6. Complete'
  BY <1>0, <1>1, <1>3, <1>4 DEF ToolInv, Complete, Faithful
<1>7. ~newArgs'[n].temp /\ ~Read(newArgs[n])'.link
  BY <1>3 DEF Read, Original
<1>8. \A k \in 1 .. Len(newArgs) : Read(newArgs[k])' = Read(newArgs[k])
  BY <1>3, <1>4 DEF Read, Original
<1>9. LinkProgress'
  <2>1. \A k \in 1 .. Len(newArgs') : k = n \/ k \in 1 .. Len(newArgs)
    BY <1>0, <1>3
  <2>2. (\E k \in 1 .. Len(newArgs') : newArgs'[k].temp)
          <=> \E k \in 1 .. Len(newArgs) : newArgs[k].temp
    BY <2>1, <1>0, <1>3, <1>7
  <2>3. /\ force' \in BOOLEAN /\ link' \in BOOLEAN
        /\ link' <=> force' /\ \A k \in 1 .. Len(newArgs') : ~newArgs'[k].temp
    BY <2>2, <1>4 DEF ToolInv, LinkProgress
  <2>4. CASE force /\ \E k \in 1 .. Len(newArgs) : newArgs[k].temp
    <3>1. PICK k \in 1 .. Len(newArgs) : OnlyLink(k)
      BY <2>4, <1>4 DEF ToolInv, LinkProgress
    <3>2. k \in 1 .. Len(newArgs') /\ k # n
      BY <1>0, <1>3
    <3>3. OnlyLink(k)'
      BY <2>1, <1>7, <1>8, <3>1, <3>2 DEF OnlyLink
    <3> QED BY <2>2, <2>3, <2>4, <1>4, <3>2, <3>3 DEF LinkProgress
  <2>5. CASE ~(force /\ \E k \in 1 .. Len(newArgs) : newArgs[k].temp)
    <3>1. \A k \in 1 .. Len(newArgs') : ~Read(newArgs[k])'.link
      BY <2>1, <2>5, <1>4, <1>7, <1>8 DEF ToolInv, LinkProgress
    <3> QED BY <2>2, <2>3, <2>5, <1>4, <3>1 DEF LinkProgress
  <2> QED BY <2>4, <2>5
<1> QED BY <1>4, <1>5, <1>6, <1>9 DEF ToolInv

\* No argument list is being made or used.
Quiet ==
  /\ phase \in {"idle", "parse", "mkdir", "return"}
  /\ newArgs \in Seq(Entry)
  /\ phase # "return" => newArgs = << >>

\* A step to such a state has nothing to preserve.
LEMMA QuietInv ==
  ASSUME ToolInv, Quiet', pkg' = pkg,
         next' \in Nat, force' \in BOOLEAN, link' \in BOOLEAN
  PROVE  ToolInv'
<1>1. Progress'
  BY DEF ToolInv, Quiet, Progress, Phases
<1>2. Complete' /\ LinkProgress'
  BY DEF Quiet, Complete, LinkProgress
<1> QED BY <1>1, <1>2 DEF ToolInv

\* A file that is rewritten: its name is not that of a file before it.
LEMMA RewriteArgInv == ToolInv /\ RewriteArg => ToolInv'
<1> SUFFICES ASSUME ToolInv, RewriteArg PROVE ToolInv'
  OBVIOUS
<1>0. PICK n \in Nat : n = Len(newArgs) + 1
  BY LenProperties DEF ToolInv, Progress
<1> DEFINE entry == [temp |-> TRUE, arg |-> n]
           base == pkg.args[n].base
           Written(how) ==
             [b \in DOMAIN temp \union {base} |->
                IF b = base THEN [arg |-> n, how |-> how, link |-> link] ELSE temp[b]]
<1>1. /\ newArgs \in Seq(Entry)
      /\ next = n
      /\ n \in 1 .. Len(pkg.args)
      /\ entry \in Entry
      /\ IsGoFile(pkg.args[n])
  BY <1>0, GivenArguments DEF RewriteArg, ToBeRewritten, ToolInv, Progress, Entry
<1>2. CASE Exit(1) /\ UNCHANGED <<link, newArgs, next>>
  BY <1>2, QuietInv DEF Quiet, RewriteArg, Exit, ToolInv, Progress, LinkProgress
<1>3. CASE /\ temp' = Written(IF force THEN "unsafe" ELSE "import")
           /\ link' = FALSE
           /\ newArgs' = Append(newArgs, entry)
           /\ next' = n + 1
           /\ phase' = phase
  <2>1. /\ newArgs' \in Seq(Entry)
        /\ Len(newArgs') = n
        /\ newArgs'[n] = entry
        /\ \A k \in 1 .. Len(newArgs) : newArgs'[k] = newArgs[k]
    BY <1>0, <1>1, <1>3, AppendProperties
  <2>2. phase = "rewrite" /\ phase' = "rewrite" /\ pkg' = pkg /\ force' = force
    BY <1>3 DEF RewriteArg
  <2>3. Progress'
    BY <1>0, <1>1, <1>3, <2>1, <2>2, GivenArguments DEF ToolInv, Progress
  <2>4. \A k \in 1 .. Len(newArgs') : k = n \/ k \in 1 .. Len(newArgs)
    BY <1>0, <2>1
  <2>5. /\ newArgs'[n].temp /\ newArgs'[n].arg = n
        /\ base \in DOMAIN temp'
        /\ temp'[base] = [arg |-> n, how |-> IF force THEN "unsafe" ELSE "import", link |-> link]
    BY <1>3, <2>1
  <2>6. ASSUME NEW k \in 1 .. Len(newArgs), newArgs[k].temp
        PROVE  /\ pkg.args[k].base \in DOMAIN temp'
               /\ temp'[pkg.args[k].base] = temp[pkg.args[k].base]
    <3>1. IsGoFile(pkg.args[k]) /\ pkg.args[k].base \in DOMAIN temp
      BY <2>2, <2>6 DEF ToolInv, Complete, Faithful
    <3>2. k \in DOMAIN pkg.args /\ n \in DOMAIN pkg.args /\ k # n
      BY <1>0, <1>1, PackagesAssumption, LenProperties DEF ToolInv
    <3>3. pkg.args[k].base # base
      BY <3>1, <3>2, <1>1, PackagesAssumption DEF ToolInv
    <3> QED BY <3>1, <3>3, <1>3
  <2>7. Complete'
    <3>1. Faithful(n)'
      BY <1>1, <2>2, <2>5 DEF Faithful
    <3>2. ASSUME NEW k \in 1 .. Len(newArgs) PROVE Faithful(k)'
      BY <2>1, <2>2, <2>6 DEF ToolInv, Complete, Faithful
    <3> QED BY <2>4, <3>1, <3>2 DEF Complete
  <2>8. Read(newArgs[n])'.link = link
    BY <2>2, <2>5 DEF Read
  <2>9. ASSUME NEW k \in 1 .. Len(newArgs) PROVE Read(newArgs[k])' = Read(newArgs[k])
    BY <2>1, <2>2, <2>6 DEF ToolInv, Complete, Faithful, Read
  <2>10. LinkProgress'
    <3>1. n \in 1 .. Len(newArgs') /\ \A k \in 1 .. Len(newArgs) : k \in 1 .. Len(newArgs') /\ k # n
      BY <1>0, <2>1
    <3>2. /\ force' \in BOOLEAN /\ link' \in BOOLEAN
          /\ link' <=> force' /\ \A k \in 1 .. Len(newArgs') : ~newArgs'[k].temp
      BY <3>1, <1>3, <2>2, <2>5 DEF ToolInv, LinkProgress
    <3>3. CASE force /\ link
      <4>1. \A k \in 1 .. Len(newArgs) : ~Read(newArgs[k]).link
        BY <2>2, <3>3 DEF ToolInv, LinkProgress
      <4>2. OnlyLink(n)'
        BY <2>4, <2>8, <2>9, <3>1, <3>3, <4>1 DEF OnlyLink
      <4> QED BY <2>2, <2>5, <3>1, <3>2, <3>3, <4>2 DEF LinkProgress
    <3>4. CASE force /\ ~link
      <4>1. PICK k \in 1 .. Len(newArgs) : OnlyLink(k)
        BY <2>2, <3>4 DEF ToolInv, LinkProgress
      <4>2. OnlyLink(k)'
        BY <2>4, <2>8, <2>9, <3>1, <3>4, <4>1 DEF OnlyLink
      <4> QED BY <2>2, <2>5, <3>1, <3>2, <3>4, <4>2 DEF LinkProgress
    <3>5. CASE ~force
      <4>1. ~link /\ \A k \in 1 .. Len(newArgs) : ~Read(newArgs[k]).link
        BY <2>2, <3>5 DEF ToolInv, LinkProgress
      <4>2. \A k \in 1 .. Len(newArgs') : ~Read(newArgs[k])'.link
        BY <2>4, <2>8, <2>9, <4>1
      <4> QED BY <2>2, <3>2, <3>5, <4>2 DEF LinkProgress
    <3> QED BY <3>3, <3>4, <3>5
  <2> QED BY <2>2, <2>3, <2>7, <2>10 DEF ToolInv
<1> QED BY <1>1, <1>2, <1>3 DEF RewriteArg
----------------------------------------------------------------------------
\* Every step of a command, of go build and of the user preserves it.
LEMMA ToolStepInv == ToolInv /\ [Next]_vars => ToolInv'
<1> SUFFICES ASSUME ToolInv, [Next]_vars PROVE ToolInv'
  OBVIOUS
<1>0. force \in BOOLEAN /\ link \in BOOLEAN /\ next \in Nat
  BY DEF ToolInv, Progress, LinkProgress
<1>1. CASE UNCHANGED toolVars
  BY <1>1 DEF toolVars, ToolInv, Progress, Complete, Faithful, LinkProgress, OnlyLink, Read, Original
<1>2. CASE ToolExecRewrite
  <2>1. CASE RunOriginal
    BY <1>0, <1>2, <2>1, RunOriginalInv DEF ToolExecRewrite
  <2>2. CASE phase' = "parse" /\ UNCHANGED newArgs
    BY <1>0, <1>2, <2>2, QuietInv DEF Quiet, ToolExecRewrite, ToolInv, Progress
  <2> QED BY <1>2, <2>1, <2>2 DEF ToolExecRewrite
<1>3. CASE ParseArg
  BY <1>0, <1>3, QuietInv DEF Quiet, ParseArg, Exit, ToolInv, Progress
<1>4. CASE Decide
  <2>1. force' \in BOOLEAN
    BY <1>4 DEF Decide
  <2>2. CASE RunOriginal
    BY <1>4, <2>1, <2>2, RunOriginalInv DEF Decide
  <2>3. CASE phase' \in {"mkdir", "return"} /\ UNCHANGED newArgs
    BY <1>0, <1>4, <2>1, <2>3, QuietInv DEF Quiet, Decide, ToolInv, Progress
  <2> QED BY <1>4, <2>2, <2>3 DEF Decide, Exit
<1>5. CASE MkdirTemp
  <2>1. CASE Exit(1) /\ UNCHANGED <<next, link, temp>>
    BY <1>0, <1>5, <2>1, QuietInv DEF Quiet, MkdirTemp, Exit, ToolInv, Progress
  <2>2. CASE phase' = "rewrite" /\ next' = 1 /\ link' = force /\ temp' = << >>
    <3>1. newArgs' = << >> /\ newArgs' \in Seq(Entry) /\ pkg' = pkg /\ force' = force
      BY <1>5, EmptySeq DEF MkdirTemp, ToolInv, Progress
    <3>2. Progress'
      BY <2>2, <3>1, GivenArguments DEF ToolInv, Progress, Phases
    <3>3. Complete' /\ LinkProgress'
      BY <1>0, <2>2, <3>1 DEF Complete, LinkProgress
    <3> QED BY <3>1, <3>2, <3>3 DEF ToolInv
  <2> QED BY <1>5, <2>1, <2>2 DEF MkdirTemp
<1>6. CASE KeepArg
  BY <1>6, KeepArgInv
<1>7. CASE RewriteArg
  BY <1>7, RewriteArgInv
<1>8. CASE RewriteDone
  <2>1. /\ phase = "rewrite" /\ phase' = "tool"
        /\ UNCHANGED <<pkg, next, force, link, temp, newArgs>>
        /\ Len(newArgs) = Len(pkg.args)
    BY <1>8, GivenArguments, LenProperties DEF RewriteDone, ToolInv, Progress
  <2>2. Progress'
    BY <2>1 DEF ToolInv, Progress, Phases
  <2>3. Complete'
    BY <2>1 DEF ToolInv, Complete, Faithful
  <2>4. LinkProgress'
    BY <2>1 DEF ToolInv, LinkProgress, OnlyLink, Read, Original
  <2> QED BY <2>1, <2>2, <2>3, <2>4 DEF ToolInv
<1>9. CASE RunTool
  BY <1>0, <1>9, QuietInv DEF Quiet, RunTool, Exit, ToolInv, Progress
<1>10. CASE Return
  <2>1. pkg' = pkg /\ next' \in Nat /\ force' \in BOOLEAN /\ link' \in BOOLEAN
    BY <1>10 DEF Return
  <2>2. Quiet'
    BY <1>10, EmptySeq DEF Return, Quiet
  <2> QED BY <2>1, <2>2, QuietInv
<1>11. CASE Change
  BY <1>0, <1>11, QuietInv DEF Quiet, Change, ToolInv, Progress
<1> QED
  BY <1>1, <1>2, <1>3, <1>4, <1>5, <1>6, <1>7, <1>8, <1>9, <1>10, <1>11
     DEF Next, vars, Step, ToolExecVersion, CacheHit, CacheMiss, Finish

\* ToolInv holds throughout.
THEOREM ToolInvariant == Spec => []ToolInv
BY ToolInitInv, ToolStepInv, PTL DEF Spec
----------------------------------------------------------------------------
\* What the tool reads, argument by argument.
LEMMA ReadsLength ==
  ASSUME ToolInv
  PROVE  /\ Len(newArgs) \in Nat
         /\ Len(ToolReads) = Len(newArgs)
         /\ DOMAIN ToolReads = 1 .. Len(newArgs)
         /\ \A k \in 1 .. Len(newArgs) : ToolReads[k] = Read(newArgs[k])
<1> DEFINE S == {Read(newArgs[k]) : k \in 1 .. Len(newArgs)}
<1>1. Len(newArgs) \in Nat
  BY LenProperties DEF ToolInv, Progress
<1>2. ToolReads \in [1 .. Len(newArgs) -> S]
  BY DEF ToolReads
<1>3. ToolReads \in Seq(S)
  BY <1>1, <1>2, SeqDef
<1>4. Len(ToolReads) = Len(newArgs)
  BY <1>1, <1>2, <1>3, LenProperties
<1> QED BY <1>1, <1>4 DEF ToolReads

\* The tool gets all arguments, in order, and no file that is half written.
LEMMA InvSameArguments == ToolInv => SameArguments
<1> SUFFICES ASSUME ToolInv, phase = "tool" PROVE SameArguments
  BY DEF SameArguments
<1>1. Len(newArgs) = Len(pkg.args)
  BY DEF ToolInv, Progress
<1>2. ASSUME NEW k \in 1 .. Len(newArgs)
      PROVE  Read(newArgs[k]).arg = k /\ Read(newArgs[k]).how # "truncated"
  BY DEF ToolInv, Complete, Faithful, Read, Original
<1> QED BY <1>1, <1>2, ReadsLength DEF SameArguments

\* The declaration is read once if a file is rewritten in unsafe mode.
LEMMA InvLinkNameOnce == ToolInv => LinkNameOnce
<1> SUFFICES ASSUME ToolInv, phase = "tool" PROVE LinkNameOnce
  BY DEF LinkNameOnce
<1> DEFINE K == 1 .. Len(newArgs)
           linked == {k \in DOMAIN ToolReads : ToolReads[k].link}
<1>1. \A k \in K : ToolReads[k] = Read(newArgs[k])
  BY ReadsLength
<1>2. DOMAIN ToolReads = K
  BY ReadsLength
<1>3. ASSUME NEW k \in K
      PROVE  ToolReads[k].how = "unsafe" <=> force /\ newArgs[k].temp
  <2>0. ToolReads[k] = Read(newArgs[k])
    BY <1>1
  <2>1. Faithful(k)
    BY DEF ToolInv, Complete
  <2>2. CASE newArgs[k].temp
    <3>1. ToolReads[k] = temp[pkg.args[k].base]
      BY <2>0, <2>1, <2>2 DEF Faithful, Read
    <3> QED BY <2>1, <2>2, <3>1 DEF Faithful
  <2>3. CASE ~newArgs[k].temp
    BY <2>0, <2>3 DEF Read, Original
  <2> QED BY <2>2, <2>3
<1>4. Quantify(DOMAIN ToolReads, LAMBDA k : ToolReads[k].link) = Cardinality(linked)
  BY DEF Quantify
<1>5. CASE force /\ \E k \in K : newArgs[k].temp
  <2>1. PICK k \in K : OnlyLink(k)
    BY <1>5 DEF ToolInv, LinkProgress
  <2>2. linked = {k}
    BY <1>1, <1>2, <2>1 DEF OnlyLink
  <2>3. Cardinality(linked) = 1
    BY <2>2, FS_Singleton
  <2> QED BY <1>2, <1>3, <1>4, <1>5, <2>3 DEF LinkNameOnce
<1>6. CASE ~(force /\ \E k \in K : newArgs[k].temp)
  <2>1. linked = {}
    BY <1>1, <1>2, <1>6 DEF ToolInv, LinkProgress
  <2>2. Cardinality(linked) = 0
    BY <2>1, FS_EmptySet
  <2> QED BY <1>2, <1>3, <1>4, <1>6, <2>2 DEF LinkNameOnce
<1> QED BY <1>5, <1>6

(***************************************************************************)
(* rewriteCompile passes every argument on in its place, and a file only   *)
(* as it was or completely rewritten, whatever fails.                      *)
(***************************************************************************)
THEOREM ToolSameArguments == Spec => []SameArguments
BY ToolInvariant, InvSameArguments, PTL

(***************************************************************************)
(* The go:linkname declaration is in exactly one file of a package that is *)
(* rewritten in unsafe mode, and in none of any other package.             *)
(***************************************************************************)
THEOREM ToolLinkNameOnce == Spec => []LinkNameOnce
BY ToolInvariant, InvLinkNameOnce, PTL
----------------------------------------------------------------------------
\* Where the loops are, and that a declaration is only for an unsafe rewrite.
TypeInv ==
  /\ TypeOK
  /\ Len(pkg.args) \in Nat
  /\ phase = "idle" => next = 1
  /\ phase \in {"idle", "parse", "mkdir"} => ~link

LEMMA TypeStep ==
  ASSUME ToolInv, TypeInv, [Next]_vars
  PROVE  TypeInv'
<1> USE DEF TypeInv, TypeOK, Phases
<1>1. CASE Step /\ UNCHANGED buildVars
  <2>1. UNCHANGED <<pkg, cache>>
    BY <1>1 DEF buildVars, Step, ParseArg, Decide, MkdirTemp, KeepArg, RewriteArg, RewriteDone, RunTool
  <2>2. ASSUME ParseArg \/ Decide PROVE TypeInv'
    BY <2>1, <2>2 DEF ParseArg, Decide, RunOriginal, Exit
  <2>3. ASSUME MkdirTemp \/ KeepArg \/ RewriteArg PROVE TypeInv'
    BY <2>1, <2>3 DEF MkdirTemp, KeepArg, RewriteArg, Exit
  <2>4. ASSUME RewriteDone \/ RunTool PROVE TypeInv'
    BY <2>1, <2>4 DEF RewriteDone, RunTool, Exit
  <2> QED BY <1>1, <2>2, <2>3, <2>4 DEF Step
<1>2. CASE Finish
  <2>1. /\ phase' = "idle" /\ next' = 1 /\ link' = FALSE /\ pkg' = pkg
    BY <1>2 DEF Finish, Return
  <2>2. \A k \in DOMAIN cache' : cache'[k].kind = "built"
    <3>1. CASE exit = 0
      <4>1. outcome'.kind = "built"
        BY <1>2, <3>1 DEF Finish, Built
      <4> QED BY <1>2, <3>1, <4>1 DEF Finish
    <3>2. CASE exit # 0
      BY <1>2, <3>2 DEF Finish
    <3> QED BY <3>1, <3>2
  <2> QED BY <2>1, <2>2
<1>3. CASE CacheMiss
  BY <1>3 DEF CacheMiss, ToolExecRewrite, RunOriginal, buildVars
<1>4. CASE Change
  BY <1>4 DEF Change
<1>5. CASE ToolExecVersion \/ CacheHit \/ UNCHANGED vars
  <2>1. UNCHANGED <<pkg, phase, next, link, force, cache>>
    BY <1>5 DEF ToolExecVersion, CacheHit, vars, toolVars, buildVars
  <2> QED BY <2>1
<1> QED BY <1>1, <1>2, <1>3, <1>4, <1>5 DEF Next

(***************************************************************************)
(* The loops of parsePkg and rewriteCompile stay within the arguments, a   *)
(* declaration is pending only in unsafe mode, and go build caches only    *)
(* what the tool made.                                                     *)
(***************************************************************************)
THEOREM BuildTypeCorrect == Spec => []TypeOK
<1>1. ASSUME Init PROVE TypeInv
  <2>1. Len(pkg.args) \in Nat
    BY <1>1, PackagesAssumption, LenProperties DEF Init
  <2> QED BY <1>1, <2>1 DEF Init, Idle, TypeInv, TypeOK, Phases
<1>2. ToolInv /\ TypeInv /\ [Next]_vars => TypeInv'
  BY TypeStep
<1>3. TypeInv => TypeOK
  BY DEF TypeInv
<1> QED BY <1>1, <1>2, <1>3, ToolInvariant, PTL DEF Spec
----------------------------------------------------------------------------
(***************************************************************************)
(* What a build gives, for any package, any options, any builds of         *)
(* errtrace and any number of changes between them: FreshOutcome holds as  *)
(* long as what go build is told tells them apart.                         *)
(***************************************************************************)

KeyOf(o, b) == [errtrace |-> BinaryVersion(b), options |-> VersionCacheKey(o)]

\* Different options print differently, and executables with the same version
\* have the same code.
VersionsDiffer ==
  /\ \A o, q \in Options : VersionCacheKey(o) = VersionCacheKey(q) => o = q
  /\ \A b, c \in Binaries : BinaryVersion(b) = BinaryVersion(c) => b.code = c.code
----------------------------------------------------------------------------
Expected(o, k) == IF ToBeRewritten(pkg.args[k]) THEN Instrumented(o) ELSE "original"

\* go build knows these options and this errtrace by this key.
KeyInv ==
  /\ opts \in Options
  /\ binary \in Binaries
  /\ phase # "idle" \/ key # NoKey => key = KeyOf(opts, binary)

CacheInv ==
  \A o \in Options, b \in Binaries :
    KeyOf(o, b) \in DOMAIN cache => cache[KeyOf(o, b)] = Fresh(o, b)

\* A command that is not running has found nothing yet.
IdleInv == phase = "idle" => next = 1 /\ parsed = NotParsed

\* parsePkg has found what is in the files so far.
ParseInv ==
  phase = "parse" =>
    /\ Considered(opts)
    /\ next \in 1 .. Len(pkg.args) + 1
    /\ parsed.importsErrtrace
         <=> \E k \in 1 .. next - 1 : IsGoFile(pkg.args[k]) /\ pkg.args[k].imports
    /\ parsed.needsRewrite <=> \E k \in 1 .. next - 1 : ToBeRewritten(pkg.args[k])
    /\ \A k \in 1 .. next - 1 : IsGoFile(pkg.args[k]) => pkg.args[k].ok

\* What is rewritten is to be rewritten, in the way Instrumented says.
RewriteInv ==
  phase \in {"mkdir", "rewrite"} =>
    /\ ~Missing(opts)
    /\ Instrumented(opts) = IF force THEN "unsafe" ELSE "import"
    /\ \A k \in 1 .. Len(newArgs) : newArgs[k].temp <=> ToBeRewritten(pkg.args[k])

ToolReadsInv ==
  phase = "tool" =>
    /\ ~Missing(opts)
    /\ \A k \in 1 .. Len(newArgs) : Read(newArgs[k]).how = Expected(opts, k)

\* A command ends as it should unless the system failed.
ReturnInv ==
  phase = "return" =>
    /\ exit = 0 =>
         /\ ~Broken /\ ~Missing(opts)
         /\ DOMAIN object = 1 .. Len(pkg.args)
         /\ \A k \in DOMAIN object :
              object[k].arg = k /\ object[k].how = Expected(opts, k)
    /\ exit # 0 => ioFailed \/ Broken \/ Missing(opts)

CommandInv == IdleInv /\ ParseInv /\ RewriteInv /\ ToolReadsInv /\ ReturnInv

FreshInv == KeyInv /\ CacheInv /\ CommandInv /\ FreshOutcome
----------------------------------------------------------------------------
\* packageSelectorMatch selects what the documentation says.
LEMMA SelectorMatches ==
  ASSUME NEW s, NEW path, s \in Seq(ToSet(s)), path \in Seq(ToSet(path))
  PROVE  PackageSelectorMatch(s, path) <=> Selects(s, path)
<1> DEFINE T == ToSet(s) \union ToSet(path) \union {"/"}
           f == Front(s)
<1>1. s \in Seq(T) /\ path \in Seq(T) /\ "/" \in T
  BY SeqMonotonic
<1>2. Len(s) \in Nat /\ Len(path) \in Nat
  BY <1>1, LenProperties
<1>3. CASE s # << >> /\ Last(s) = "..."
  <2>1. Len(s) >= 1
    BY <1>1, <1>2, <1>3, EmptySeq
  <2>2. f \in Seq(T) /\ Len(f) = Len(s) - 1
    <3>1. PICK n \in Int : n = Len(s) - 1
      BY <1>2
    <3>2. \A i \in 1 .. n : s[i] \in T
      BY <1>1, <1>2, <3>1, ElementOfSeq
    <3>3. SubSeq(s, 1, n) \in Seq(T) /\ Len(SubSeq(s, 1, n)) = IF 1 <= n THEN n - 1 + 1 ELSE 0
      BY <3>2, SubSeqProperties
    <3> QED BY <1>2, <2>1, <3>1, <3>3 DEF Front
  <2>3. Append(path, "/") = path \o <<"/">>
    BY <1>1, AppendIsConcat
  <2>4. SubSeq(f, 1, Len(f)) = f
    BY <2>2, SubSeqFull
  <2>5. ASSUME NEW k \in 0 .. Len(path) PROVE Len(SubSeq(path, 1, k)) = k
    BY <1>1, <1>2, SubSeqProperties
  <2>6. IsPrefix(f, path) <=> \E k \in 0 .. Len(path) : SubSeq(path, 1, k) = f
    <3>1. ASSUME IsPrefix(f, path) PROVE Len(f) \in 0 .. Len(path) /\ SubSeq(path, 1, Len(f)) = f
      BY <1>2, <2>1, <2>2, <2>4, <3>1 DEF IsPrefix
    <3>2. ASSUME NEW k \in 0 .. Len(path), SubSeq(path, 1, k) = f PROVE IsPrefix(f, path)
      <4>1. Len(f) = k
        BY <2>5, <3>2
      <4> QED BY <1>2, <2>4, <3>2, <4>1 DEF IsPrefix
    <3> QED BY <3>1, <3>2
  <2>7. s = path => IsPrefix(f, path)
    <3> SUFFICES ASSUME s = path PROVE \E k \in 0 .. Len(path) : SubSeq(path, 1, k) = f
      BY <2>6
    <3>1. Len(s) - 1 \in 0 .. Len(path)
      BY <1>2, <2>1
    <3> QED BY <3>1 DEF Front
  <2>8. PackageSelectorMatch(s, path) <=> Front(s) = Append(path, "/") \/ IsPrefix(Front(s), path)
    BY <1>3 DEF PackageSelectorMatch
  <2>9. Selects(s, path) <=>
          \/ s = path
          \/ Front(s) = path \o <<"/">>
          \/ \E k \in 0 .. Len(path) : SubSeq(path, 1, k) = Front(s)
    BY <1>3 DEF Selects
  <2> QED BY <2>3, <2>6, <2>7, <2>8, <2>9
<1>4. CASE ~(s # << >> /\ Last(s) = "...")
  BY <1>4 DEF PackageSelectorMatch, Selects
<1> QED BY <1>3, <1>4

LEMMA SelectedMatches ==
  ASSUME pkg \in Packages, opts \in Options
  PROVE  /\ Selected(opts.required, pkg.path) <=> SelectedBy(opts.required)
         /\ Selected(opts.unsafe, pkg.path) <=> SelectedBy(opts.unsafe)
<1>1. ASSUME NEW s \in ToSet(opts.required) \union ToSet(opts.unsafe)
      PROVE  PackageSelectorMatch(s, pkg.path) <=> Selects(s, pkg.path)
  BY TokensAssumption, SelectorMatches
<1> QED BY <1>1 DEF Selected, SelectedBy

\* The package does not change, and so what a build is to give does not.
LEMMA FreshConstant ==
  ASSUME pkg' = pkg, NEW o, NEW b
  PROVE  /\ Fresh(o, b)' = Fresh(o, b)
         /\ Missing(o)' <=> Missing(o)
         /\ Instrumented(o)' = Instrumented(o)
         /\ Considered(o)' <=> Considered(o)
         /\ Broken' <=> Broken
<1>1. /\ Considered(o)' <=> Considered(o)
      /\ Broken' <=> Broken
      /\ ReturnsErrors' <=> ReturnsErrors
  BY DEF Considered, Broken, ReturnsErrors
<1>2. SelectedBy(o.unsafe)' <=> SelectedBy(o.unsafe)
  BY DEF SelectedBy
<1>3. SelectedBy(o.required)' <=> SelectedBy(o.required)
  BY DEF SelectedBy
<1>4. Instrumented(o)' = Instrumented(o)
  BY <1>1, <1>2 DEF Instrumented
<1>5. Missing(o)' <=> Missing(o)
  BY <1>1, <1>3, <1>4 DEF Missing
<1>6. Fresh(o, b)' = Fresh(o, b)
  BY <1>1, <1>4, <1>5 DEF Fresh
<1> QED BY <1>1, <1>4, <1>5, <1>6

\* What go build cannot tell apart gives the same.
LEMMA SameKeySameFresh ==
  ASSUME VersionsDiffer,
         NEW o \in Options, NEW q \in Options, NEW b \in Binaries, NEW c \in Binaries,
         KeyOf(o, b) = KeyOf(q, c)
  PROVE  Fresh(o, b) = Fresh(q, c)
<1>1. BinaryVersion(b) = BinaryVersion(c) /\ VersionCacheKey(o) = VersionCacheKey(q)
  BY DEF KeyOf
<1>2. o = q /\ b.code = c.code
  BY <1>1 DEF VersionsDiffer
<1> QED BY <1>2 DEF Fresh, Built

\* What the compiler makes of the expected files is what a build is to give.
LEMMA ExpectedIsFresh ==
  ASSUME NEW o, NEW b, NEW reads, ~Broken, ~Missing(o),
         DOMAIN reads = 1 .. Len(pkg.args),
         \A k \in DOMAIN reads : reads[k].arg = k /\ reads[k].how = Expected(o, k)
  PROVE  Built(b, reads) = Fresh(o, b)
<1> DEFINE spec == [k \in 1 .. Len(pkg.args) |-> [arg |-> k, how |-> Expected(o, k)]]
<1>1. DOMAIN spec = DOMAIN reads
  OBVIOUS
<1>2. \A k \in DOMAIN reads : spec[k].arg = reads[k].arg /\ spec[k].how = reads[k].how
  OBVIOUS
<1>3. (\A k \in DOMAIN reads : reads[k].how = "original")
        <=> \A k \in DOMAIN spec : spec[k].how = "original"
  BY <1>1, <1>2
<1>4. [k \in DOMAIN reads |-> [arg |-> reads[k].arg, how |-> reads[k].how]]
        = [k \in DOMAIN spec |-> [arg |-> spec[k].arg, how |-> spec[k].how]]
  BY <1>1, <1>2
<1> HIDE DEF spec
<1>5. Built(b, reads) = Built(b, spec)
  BY <1>3, <1>4 DEF Built
<1> QED BY <1>5 DEF spec, Fresh, Expected
----------------------------------------------------------------------------
\* While the options do not change either, nor does what they ask for.
LEMMA OptionsConstant ==
  ASSUME pkg' = pkg, opts' = opts
  PROVE  /\ Missing(opts)' <=> Missing(opts)
         /\ Instrumented(opts)' = Instrumented(opts)
         /\ Considered(opts)' <=> Considered(opts)
         /\ Broken' <=> Broken
         /\ \A k : Expected(opts, k)' = Expected(opts, k)
<1>1. /\ Considered(opts)' <=> Considered(opts)
      /\ Broken' <=> Broken
      /\ ReturnsErrors' <=> ReturnsErrors
  BY DEF Considered, Broken, ReturnsErrors
<1>2. SelectedBy(opts.unsafe)' <=> SelectedBy(opts.unsafe)
  BY DEF SelectedBy
<1>3. SelectedBy(opts.required)' <=> SelectedBy(opts.required)
  BY DEF SelectedBy
<1>4. Instrumented(opts)' = Instrumented(opts)
  BY <1>1, <1>2 DEF Instrumented
<1>5. Missing(opts)' <=> Missing(opts)
  BY <1>1, <1>3, <1>4 DEF Missing
<1>6. \A k : Expected(opts, k)' = Expected(opts, k)
  BY <1>4 DEF Expected
<1> QED BY <1>1, <1>4, <1>5, <1>6

LEMMA OutcomeConstant ==
  ASSUME pkg' = pkg, opts' = opts, binary' = binary
  PROVE  Fresh(opts, binary)' = Fresh(opts, binary)
<1>1. Built(binary, [k \in 1 .. Len(pkg.args) |-> [arg |-> k, how |-> Expected(opts, k)]])'
        = Built(binary, [k \in 1 .. Len(pkg.args) |-> [arg |-> k, how |-> Expected(opts, k)]])
  BY OptionsConstant DEF Built
<1> QED BY <1>1, OptionsConstant DEF Fresh, Expected

\* A step that caches nothing keeps what is cached right.
LEMMA CacheConstant ==
  ASSUME FreshInv, pkg' = pkg, cache' = cache
  PROVE  CacheInv'
<1> SUFFICES ASSUME NEW o \in Options, NEW b \in Binaries, KeyOf(o, b) \in DOMAIN cache
             PROVE  cache[KeyOf(o, b)] = Fresh(o, b)'
  BY DEF CacheInv, KeyOf
<1> QED BY FreshConstant DEF FreshInv, CacheInv

\* A step of the command does not concern go build.
LEMMA CommandLeavesBuild ==
  ASSUME FreshInv, phase # "idle" \/ key # NoKey,
         pkg' = pkg, opts' = opts, UNCHANGED buildVars
  PROVE  KeyInv' /\ CacheInv' /\ FreshOutcome'
<1>1. UNCHANGED <<binary, key, cache, outcome>>
  BY DEF buildVars
<1>2. KeyInv'
  BY <1>1 DEF FreshInv, KeyInv, KeyOf
<1>3. CacheInv'
  BY <1>1, CacheConstant
<1>4. FreshOutcome'
  BY <1>1, OutcomeConstant DEF FreshInv, FreshOutcome
<1> QED BY <1>2, <1>3, <1>4
----------------------------------------------------------------------------
\* The files of a package, as elements and by position.
LEMMA FilesByPosition ==
  ASSUME pkg \in Packages
  PROVE  /\ Len(pkg.args) \in Nat
         /\ ToSet(pkg.args) = {pkg.args[k] : k \in 1 .. Len(pkg.args)}
<1>1. pkg.args \in Seq(ToSet(pkg.args))
  BY PackagesAssumption
<1> QED BY <1>1, LenProperties DEF ToSet

\* toolExecRewrite.
LEMMA ToolExecRewriteCommand ==
  ASSUME ToolInv, FreshInv, ToolExecRewrite
  PROVE  CommandInv'
<1>1. phase = "idle" /\ UNCHANGED <<pkg, opts, next, parsed>>
  BY DEF ToolExecRewrite
<1>2. CASE ~Considered(opts) /\ RunOriginal
  <2>1. ~Missing(opts) /\ \A k : Expected(opts, k) = "original"
    BY <1>2 DEF Missing, Expected, Instrumented
  <2>2. phase' = "tool" /\ newArgs' = ArgsAsGiven
    BY <1>2 DEF RunOriginal
  <2>3. /\ Len(newArgs') = Len(pkg.args)
        /\ \A k \in 1 .. Len(newArgs') : ~newArgs'[k].temp
    BY <2>2, GivenArguments DEF ToolInv
  <2>4. \A k \in 1 .. Len(newArgs') : Read(newArgs[k])'.how = "original"
    BY <2>3 DEF Read, Original
  <2>5. ToolReadsInv'
    BY <1>1, <2>1, <2>4, OptionsConstant DEF ToolReadsInv
  <2> QED BY <2>2, <2>5 DEF CommandInv, IdleInv, ParseInv, RewriteInv, ReturnInv
<1>3. CASE Considered(opts) /\ phase' = "parse"
  <2>1. next' = 1 /\ parsed' = NotParsed
    BY <1>1 DEF FreshInv, CommandInv, IdleInv
  <2>2. Len(pkg.args) \in Nat
    BY FilesByPosition DEF ToolInv
  <2>3. ParseInv'
    BY <1>1, <1>3, <2>1, <2>2, OptionsConstant DEF ParseInv, NotParsed
  <2> QED BY <1>3, <2>3 DEF CommandInv, IdleInv, RewriteInv, ToolReadsInv, ReturnInv
<1>4. Considered(opts) <=> ~(pkg.tool # "compile" \/ (pkg.std /\ ~UnsafeRewriteStd))
  BY DEF Considered, UnsafeRewriteStd
<1> QED BY <1>2, <1>3, <1>4 DEF ToolExecRewrite

\* parsePkg, one argument.
LEMMA ParseArgCommand ==
  ASSUME ToolInv, FreshInv, ParseArg
  PROVE  CommandInv'
<1> DEFINE arg == pkg.args[next]
<1>1. /\ phase = "parse" /\ next <= Len(pkg.args)
      /\ UNCHANGED <<pkg, opts>>
  BY DEF ParseArg
<1>2. /\ Considered(opts)
      /\ next \in 1 .. Len(pkg.args)
      /\ Len(pkg.args) \in Nat
      /\ arg \in ToSet(pkg.args)
  <2>1. Considered(opts) /\ next \in 1 .. Len(pkg.args) + 1
    BY <1>1 DEF FreshInv, CommandInv, ParseInv
  <2>2. Len(pkg.args) \in Nat
    BY FilesByPosition DEF ToolInv
  <2>3. next \in 1 .. Len(pkg.args)
    BY <1>1, <2>1, <2>2
  <2> QED BY <2>1, <2>2, <2>3, FilesByPosition DEF ToolInv
<1>3. CASE /\ IsGoFile(arg) => arg.ok
           /\ next' = next + 1
           /\ parsed' = IF IsGoFile(arg)
                        THEN [importsErrtrace |-> parsed.importsErrtrace \/ arg.imports,
                              needsRewrite |-> parsed.needsRewrite \/ arg.inserts]
                        ELSE parsed
           /\ phase' = "parse"
  <2>1. \A k : k \in 1 .. next' - 1 <=> k \in 1 .. next - 1 \/ k = next
    BY <1>2, <1>3
  <2>2. parsed'.importsErrtrace <=> parsed.importsErrtrace \/ (IsGoFile(arg) /\ arg.imports)
    BY <1>3
  <2>3. parsed'.needsRewrite <=> parsed.needsRewrite \/ ToBeRewritten(arg)
    BY <1>3 DEF ToBeRewritten
  <2>4. parsed'.importsErrtrace
          <=> \E k \in 1 .. next' - 1 : IsGoFile(pkg.args[k]) /\ pkg.args[k].imports
    BY <1>1, <2>1, <2>2 DEF FreshInv, CommandInv, ParseInv
  <2>5. parsed'.needsRewrite <=> \E k \in 1 .. next' - 1 : ToBeRewritten(pkg.args[k])
    BY <1>1, <2>1, <2>3 DEF FreshInv, CommandInv, ParseInv
  <2>6. \A k \in 1 .. next' - 1 : IsGoFile(pkg.args[k]) => pkg.args[k].ok
    BY <1>1, <1>3, <2>1 DEF FreshInv, CommandInv, ParseInv
  <2>7. next' \in 1 .. Len(pkg.args) + 1
    BY <1>2, <1>3
  <2>8. ParseInv'
    BY <1>1, <1>2, <2>4, <2>5, <2>6, <2>7, OptionsConstant DEF ParseInv
  <2> QED BY <1>3, <2>8 DEF CommandInv, IdleInv, RewriteInv, ToolReadsInv, ReturnInv
<1>4. CASE IsGoFile(arg) /\ ioFailed' = (ioFailed \/ arg.ok) /\ Exit(1)
  <2>1. ~arg.ok => Broken
    BY <1>2, <1>4 DEF Broken
  <2>2. phase' = "return" /\ exit' = 1
    BY <1>4 DEF Exit
  <2>3. ioFailed' \/ Broken'
    BY <1>1, <1>4, <2>1, OptionsConstant
  <2>4. ReturnInv'
    BY <2>2, <2>3 DEF ReturnInv
  <2> QED BY <2>2, <2>4 DEF CommandInv, IdleInv, ParseInv, RewriteInv, ToolReadsInv
<1> QED BY <1>1, <1>3, <1>4 DEF ParseArg

\* rewriteCompile decides as Instrumented and Missing say.
LEMMA DecideCommand ==
  ASSUME ToolInv, FreshInv, Decide
  PROVE  CommandInv'
<1>1. /\ phase = "parse" /\ next > Len(pkg.args)
      /\ UNCHANGED <<pkg, opts, next, parsed>>
      /\ force' = (~parsed.importsErrtrace /\ UnsafeRewrite /\ parsed.needsRewrite)
  BY DEF Decide
<1>2. Considered(opts) /\ next - 1 = Len(pkg.args)
  <2>1. Considered(opts) /\ next \in 1 .. Len(pkg.args) + 1
    BY <1>1 DEF FreshInv, CommandInv, ParseInv
  <2>2. Len(pkg.args) \in Nat
    BY FilesByPosition DEF ToolInv
  <2> QED BY <1>1, <2>1, <2>2
<1>3. parsed.importsErrtrace <=> \E arg \in ToSet(pkg.args) : IsGoFile(arg) /\ arg.imports
  BY <1>1, <1>2, FilesByPosition DEF FreshInv, CommandInv, ParseInv, ToolInv
<1>4. parsed.needsRewrite <=> ReturnsErrors
  BY <1>1, <1>2, FilesByPosition DEF FreshInv, CommandInv, ParseInv, ToolInv, ReturnsErrors
<1>5. Instrumented(opts) =
        IF parsed.importsErrtrace THEN "import"
        ELSE IF UnsafeRewrite THEN "unsafe" ELSE "original"
  BY <1>2, <1>3, SelectedMatches DEF Instrumented, UnsafeRewrite, FreshInv, KeyInv, ToolInv
<1>6. Missing(opts) <=>
        parsed.needsRewrite /\ Instrumented(opts) = "original" /\ RequiredPackage
  BY <1>2, <1>4, SelectedMatches DEF Missing, RequiredPackage, FreshInv, KeyInv, ToolInv
<1>7. \A k \in 1 .. Len(pkg.args) : ToBeRewritten(pkg.args[k]) => ReturnsErrors
  BY FilesByPosition DEF ReturnsErrors, ToolInv
<1>8. CASE /\ parsed.needsRewrite /\ (parsed.importsErrtrace \/ force')
           /\ phase' = "mkdir" /\ UNCHANGED newArgs
  <2>1. /\ ~Missing(opts)
        /\ Instrumented(opts) = IF force' THEN "unsafe" ELSE "import"
    BY <1>1, <1>5, <1>6, <1>8
  <2>2. Len(newArgs') = 0
    BY <1>1, <1>8, EmptySeq DEF ToolInv, Progress
  <2>3. RewriteInv'
    BY <1>1, <2>1, <2>2, OptionsConstant DEF RewriteInv
  <2> QED BY <1>8, <2>3 DEF CommandInv, IdleInv, ParseInv, ToolReadsInv, ReturnInv
<1>9. CASE /\ ~(parsed.needsRewrite /\ (parsed.importsErrtrace \/ force'))
           /\ parsed.needsRewrite /\ RequiredPackage /\ Exit(1)
  <2>1. Missing(opts)
    BY <1>1, <1>5, <1>6, <1>9
  <2>2. phase' = "return" /\ exit' = 1
    BY <1>9 DEF Exit
  <2>3. ReturnInv'
    BY <1>1, <2>1, <2>2, OptionsConstant DEF ReturnInv
  <2> QED BY <2>2, <2>3 DEF CommandInv, IdleInv, ParseInv, RewriteInv, ToolReadsInv
<1>10. CASE /\ ~(parsed.needsRewrite /\ (parsed.importsErrtrace \/ force'))
            /\ ~(parsed.needsRewrite /\ RequiredPackage) /\ RunOriginal
  <2>1. ~Missing(opts)
    BY <1>6, <1>10
  <2>2. ReturnsErrors => Instrumented(opts) = "original"
    BY <1>1, <1>4, <1>5, <1>10
  <2>3. phase' = "tool" /\ newArgs' = ArgsAsGiven
    BY <1>10 DEF RunOriginal
  <2>4. /\ Len(newArgs') = Len(pkg.args)
        /\ \A k \in 1 .. Len(newArgs') : ~newArgs'[k].temp
    BY <2>3, GivenArguments DEF ToolInv
  <2>5. \A k \in 1 .. Len(newArgs') : Read(newArgs[k])'.how = "original"
    BY <2>4 DEF Read, Original
  <2>6. \A k \in 1 .. Len(newArgs') : Expected(opts, k) = "original"
    BY <1>7, <2>2, <2>4 DEF Expected
  <2>7. ToolReadsInv'
    BY <1>1, <2>1, <2>5, <2>6, OptionsConstant DEF ToolReadsInv
  <2> QED BY <2>3, <2>7 DEF CommandInv, IdleInv, ParseInv, RewriteInv, ReturnInv
<1> QED BY <1>8, <1>9, <1>10 DEF Decide
----------------------------------------------------------------------------
\* The system fails: the command returns with that noted.
LEMMA FailedCommand ==
  ASSUME phase' = "return", ioFailed' = TRUE, exit' = 1
  PROVE  CommandInv'
<1>1. ReturnInv'
  BY DEF ReturnInv
<1> QED BY <1>1 DEF CommandInv, IdleInv, ParseInv, RewriteInv, ToolReadsInv

LEMMA MkdirTempCommand ==
  ASSUME ToolInv, FreshInv, MkdirTemp
  PROVE  CommandInv'
<1>1. CASE phase' = "rewrite"
  <2>1. phase = "mkdir" /\ UNCHANGED <<pkg, opts, force, newArgs>>
    BY DEF MkdirTemp
  <2>2. RewriteInv'
    BY <2>1, OptionsConstant DEF RewriteInv, FreshInv, CommandInv
  <2> QED BY <1>1, <2>2 DEF CommandInv, IdleInv, ParseInv, ToolReadsInv, ReturnInv
<1>2. CASE Exit(1) /\ ioFailed' = TRUE
  BY <1>2, FailedCommand DEF Exit
<1> QED BY <1>1, <1>2 DEF MkdirTemp

\* One more argument for the tool: a file of the temporary directory exactly
\* if it was to be rewritten.
LEMMA AppendArgCommand ==
  ASSUME ToolInv, FreshInv, phase = "rewrite", phase' = "rewrite",
         UNCHANGED <<pkg, opts, force>>,
         NEW entry \in Entry, newArgs' = Append(newArgs, entry),
         entry.temp <=> ToBeRewritten(pkg.args[next])
  PROVE  CommandInv'
<1>1. PICK n \in Nat : n = Len(newArgs) + 1
  BY LenProperties DEF ToolInv, Progress
<1>2. newArgs \in Seq(Entry) /\ next = n
  BY <1>1 DEF ToolInv, Progress
<1>3. /\ Len(newArgs') = n
      /\ newArgs'[n] = entry
      /\ \A k \in 1 .. Len(newArgs) : newArgs'[k] = newArgs[k]
  BY <1>1, <1>2, AppendProperties
<1>4. \A k \in 1 .. Len(newArgs') : k = n \/ k \in 1 .. Len(newArgs)
  BY <1>1, <1>2, <1>3, LenProperties
<1>5. \A k \in 1 .. Len(newArgs') : newArgs'[k].temp <=> ToBeRewritten(pkg.args[k])
  BY <1>2, <1>3, <1>4 DEF RewriteInv, FreshInv, CommandInv
<1>6. RewriteInv'
  BY <1>5, OptionsConstant DEF RewriteInv, FreshInv, CommandInv
<1> QED BY <1>6 DEF CommandInv, IdleInv, ParseInv, ToolReadsInv, ReturnInv

LEMMA KeepArgCommand ==
  ASSUME ToolInv, FreshInv, KeepArg
  PROVE  CommandInv'
<1> DEFINE entry == [temp |-> FALSE, arg |-> next]
<1>1. entry \in Entry
  BY DEF Entry, ToolInv, Progress
<1>2. ~ToBeRewritten(pkg.args[next]) /\ newArgs' = Append(newArgs, entry)
  BY DEF KeepArg
<1>3. /\ phase = "rewrite" /\ phase' = "rewrite"
      /\ UNCHANGED <<pkg, opts, force>>
  BY DEF KeepArg
<1> QED BY <1>1, <1>2, <1>3, AppendArgCommand

LEMMA RewriteArgCommand ==
  ASSUME ToolInv, FreshInv, RewriteArg
  PROVE  CommandInv'
<1> DEFINE entry == [temp |-> TRUE, arg |-> next]
<1>1. CASE newArgs' = Append(newArgs, entry) /\ phase' = phase
  <2>1. entry \in Entry
    BY DEF Entry, ToolInv, Progress
  <2>2. /\ phase = "rewrite" /\ ToBeRewritten(pkg.args[next])
        /\ UNCHANGED <<pkg, opts, force>>
    BY DEF RewriteArg
  <2> QED BY <1>1, <2>1, <2>2, AppendArgCommand
<1>2. CASE Exit(1) /\ ioFailed' = TRUE
  BY <1>2, FailedCommand DEF Exit
<1> QED BY <1>1, <1>2 DEF RewriteArg

\* The arguments are complete: the tool reads what it is to read.
LEMMA RewriteDoneCommand ==
  ASSUME ToolInv, FreshInv, RewriteDone
  PROVE  CommandInv'
<1>1. /\ phase = "rewrite" /\ phase' = "tool"
      /\ UNCHANGED <<pkg, opts, force, temp, newArgs>>
  BY DEF RewriteDone
<1>2. ASSUME NEW k \in 1 .. Len(newArgs)
      PROVE  Read(newArgs[k]).how = Expected(opts, k)
  <2>1. /\ Faithful(k)
        /\ newArgs[k].temp <=> ToBeRewritten(pkg.args[k])
        /\ Instrumented(opts) = IF force THEN "unsafe" ELSE "import"
    BY <1>1 DEF ToolInv, Complete, FreshInv, CommandInv, RewriteInv
  <2>2. CASE newArgs[k].temp
    <3>1. Read(newArgs[k]) = temp[pkg.args[k].base]
      BY <2>1, <2>2 DEF Faithful, Read
    <3> QED BY <2>1, <2>2, <3>1 DEF Faithful, Expected
  <2>3. CASE ~newArgs[k].temp
    BY <2>1, <2>3 DEF Read, Original, Expected
  <2> QED BY <2>2, <2>3
<1>3. \A k \in 1 .. Len(newArgs) : Read(newArgs[k])' = Read(newArgs[k])
  BY <1>1 DEF Read, Original
<1>4. ~Missing(opts)
  BY <1>1 DEF FreshInv, CommandInv, RewriteInv
<1>5. ToolReadsInv'
  BY <1>1, <1>2, <1>3, <1>4, OptionsConstant DEF ToolReadsInv
<1> QED BY <1>1, <1>5 DEF CommandInv, IdleInv, ParseInv, RewriteInv, ReturnInv

\* The tool succeeds only on a package that can be built.
LEMMA RunToolCommand ==
  ASSUME ToolInv, FreshInv, RunTool
  PROVE  CommandInv'
<1>1. /\ phase = "tool" /\ phase' = "return"
      /\ UNCHANGED <<pkg, opts>>
      /\ object' = ToolReads
  BY DEF RunTool, Exit
<1>2. ~Broken <=> \A arg \in ToSet(pkg.args) : IsGoFile(arg) => arg.ok
  BY DEF Broken
<1>3. ~Missing(opts)
  BY <1>1 DEF FreshInv, CommandInv, ToolReadsInv
<1>4. /\ DOMAIN object' = 1 .. Len(pkg.args)
      /\ \A k \in 1 .. Len(pkg.args) : object'[k].arg = k /\ object'[k].how = Expected(opts, k)
  <2>1. Len(newArgs) = Len(pkg.args)
    BY <1>1 DEF ToolInv, Progress
  <2>2. ASSUME NEW k \in 1 .. Len(newArgs)
        PROVE  Read(newArgs[k]).arg = k /\ Read(newArgs[k]).how = Expected(opts, k)
    <3>1. Faithful(k)
      BY <1>1 DEF ToolInv, Complete
    <3>2. Read(newArgs[k]).arg = k
      BY <3>1 DEF Faithful, Read, Original
    <3> QED BY <1>1, <3>2 DEF FreshInv, CommandInv, ToolReadsInv
  <2> QED BY <1>1, <2>1, <2>2, ReadsLength
<1>5. exit' = 0 => ~Broken
  BY <1>2 DEF RunTool, Exit
<1>6. exit' # 0 => ioFailed' \/ Broken
  BY <1>2 DEF RunTool, Exit
<1>7. ReturnInv'
  <2>1. exit' = 0 =>
          /\ ~Broken' /\ ~Missing(opts)'
          /\ DOMAIN object' = 1 .. Len(pkg'.args)
          /\ \A k \in DOMAIN object' : object'[k].arg = k /\ object'[k].how = Expected(opts, k)'
    BY <1>1, <1>3, <1>4, <1>5, OptionsConstant
  <2>2. exit' # 0 => ioFailed' \/ Broken'
    BY <1>1, <1>6, OptionsConstant
  <2> QED BY <2>1, <2>2 DEF ReturnInv
<1> QED BY <1>1, <1>7 DEF CommandInv, IdleInv, ParseInv, RewriteInv, ToolReadsInv
----------------------------------------------------------------------------
\* The answer to -V=full is the key of these options and this errtrace.
LEMMA VersionFresh ==
  ASSUME ToolInv, FreshInv, ToolExecVersion
  PROVE  FreshInv'
<1>1. UNCHANGED <<toolVars, binary, cache>> /\ phase = "idle" /\ key = NoKey
  BY DEF ToolExecVersion
<1>2. UNCHANGED <<pkg, opts, phase, next, parsed>>
  BY <1>1 DEF toolVars
<1>3. key' = KeyOf(opts, binary) \/ key' = key
  BY DEF ToolExecVersion, KeyOf
<1>4. KeyInv'
  BY <1>1, <1>2, <1>3 DEF FreshInv, KeyInv, KeyOf
<1>5. CacheInv'
  BY <1>1, <1>2, CacheConstant
<1>6. CommandInv'
  BY <1>1, <1>2 DEF FreshInv, CommandInv, IdleInv, ParseInv, RewriteInv, ToolReadsInv, ReturnInv
<1>7. FreshOutcome'
  BY DEF ToolExecVersion, FreshOutcome, Failed, NoOutcome
<1> QED BY <1>4, <1>5, <1>6, <1>7 DEF FreshInv

\* What is in the cache under this key is what a build would give.
LEMMA CacheHitFresh ==
  ASSUME ToolInv, FreshInv, CacheHit
  PROVE  FreshInv'
<1>1. /\ UNCHANGED <<toolVars, binary, cache>>
      /\ phase = "idle" /\ key # NoKey /\ key \in DOMAIN cache
      /\ outcome' = cache[key] /\ key' = NoKey
  BY DEF CacheHit
<1>2. UNCHANGED <<pkg, opts, phase, next, parsed>>
  BY <1>1 DEF toolVars
<1>3. KeyInv'
  BY <1>1, <1>2 DEF FreshInv, KeyInv
<1>4. CacheInv'
  BY <1>1, <1>2, CacheConstant
<1>5. CommandInv'
  BY <1>1, <1>2 DEF FreshInv, CommandInv, IdleInv, ParseInv, RewriteInv, ToolReadsInv, ReturnInv
<1>6. outcome' = Fresh(opts, binary)
  BY <1>1 DEF FreshInv, KeyInv, CacheInv
<1>7. FreshOutcome'
  BY <1>1, <1>2, <1>6, OutcomeConstant DEF FreshOutcome
<1> QED BY <1>3, <1>4, <1>5, <1>7 DEF FreshInv

\* What a command returns, and go build caches, is what a build is to give.
LEMMA FinishFresh ==
  ASSUME VersionsDiffer, ToolInv, FreshInv, Finish
  PROVE  FreshInv'
<1>1. /\ phase = "return" /\ phase' = "idle"
      /\ next' = 1 /\ parsed' = NotParsed
      /\ UNCHANGED <<pkg, opts, binary>>
      /\ key' = NoKey
  BY DEF Finish, Return
<1>2. key = KeyOf(opts, binary) /\ opts \in Options /\ binary \in Binaries
  BY <1>1 DEF FreshInv, KeyInv
<1>3. KeyInv'
  BY <1>1, <1>2 DEF KeyInv
<1>4. CommandInv'
  BY <1>1 DEF CommandInv, IdleInv, ParseInv, RewriteInv, ToolReadsInv, ReturnInv
<1>5. CASE exit = 0
  <2>1. outcome' = Built(binary, object)
    BY <1>5 DEF Finish
  <2>2. /\ ~Broken /\ ~Missing(opts)
        /\ DOMAIN object = 1 .. Len(pkg.args)
        /\ \A k \in DOMAIN object : object[k].arg = k /\ object[k].how = Expected(opts, k)
    BY <1>1, <1>5 DEF FreshInv, CommandInv, ReturnInv
  <2>3. outcome' = Fresh(opts, binary)
    BY <2>1, <2>2, ExpectedIsFresh
  <2>4. cache' = [k \in DOMAIN cache \union {key} |-> IF k = key THEN outcome' ELSE cache[k]]
    BY <1>5 DEF Finish
  <2>5. CacheInv'
    <3> SUFFICES ASSUME NEW o \in Options, NEW b \in Binaries, KeyOf(o, b) \in DOMAIN cache'
                 PROVE  cache'[KeyOf(o, b)] = Fresh(o, b)
      BY <1>1, FreshConstant DEF CacheInv, KeyOf
    <3>1. CASE KeyOf(o, b) = key
      <4>1. Fresh(o, b) = Fresh(opts, binary)
        BY <1>2, <3>1, SameKeySameFresh
      <4> QED BY <2>3, <2>4, <3>1, <4>1
    <3>2. CASE KeyOf(o, b) # key
      BY <2>4, <3>2 DEF FreshInv, CacheInv
    <3> QED BY <3>1, <3>2
  <2>6. FreshOutcome'
    BY <1>1, <2>3, OutcomeConstant DEF FreshOutcome
  <2> QED BY <1>3, <1>4, <2>5, <2>6 DEF FreshInv
<1>6. CASE exit # 0
  <2>1. outcome' = Failed(IF ioFailed THEN "unlucky" ELSE "rejected") /\ cache' = cache
    BY <1>6 DEF Finish
  <2>2. ioFailed \/ Broken \/ Missing(opts)
    BY <1>1, <1>6 DEF FreshInv, CommandInv, ReturnInv
  <2>3. FreshOutcome'
    <3>1. CASE ioFailed
      BY <2>1, <3>1 DEF FreshOutcome, Failed, NoOutcome
    <3>2. CASE ~ioFailed
      <4>1. outcome' = Fresh(opts, binary)
        BY <2>1, <2>2, <3>2 DEF Fresh
      <4> QED BY <1>1, <4>1, OutcomeConstant DEF FreshOutcome
    <3> QED BY <3>1, <3>2
  <2>4. CacheInv'
    BY <2>1, <1>1, CacheConstant
  <2> QED BY <1>3, <1>4, <2>3, <2>4 DEF FreshInv
<1> QED BY <1>5, <1>6

\* Other options or another errtrace leave the cache as it is.
LEMMA ChangeFresh ==
  ASSUME ToolInv, FreshInv, Change
  PROVE  FreshInv'
<1>1. /\ phase = "idle" /\ key = NoKey
      /\ UNCHANGED <<pkg, phase, next, parsed, key, cache>>
      /\ opts' \in Options /\ binary' \in Binaries
      /\ outcome' = NoOutcome
  BY DEF Change
<1>2. KeyInv'
  BY <1>1 DEF KeyInv
<1>3. CacheInv'
  BY <1>1, CacheConstant
<1>4. CommandInv'
  BY <1>1 DEF FreshInv, CommandInv, IdleInv, ParseInv, RewriteInv, ToolReadsInv, ReturnInv
<1>5. FreshOutcome'
  BY <1>1 DEF FreshOutcome, NoOutcome
<1> QED BY <1>2, <1>3, <1>4, <1>5 DEF FreshInv
----------------------------------------------------------------------------
LEMMA FreshInit == Init => FreshInv
<1> SUFFICES ASSUME Init PROVE FreshInv
  OBVIOUS
<1>1. KeyInv /\ CommandInv
  BY DEF Init, Idle, KeyInv, CommandInv, IdleInv, ParseInv, RewriteInv, ToolReadsInv, ReturnInv
<1>2. CacheInv /\ FreshOutcome
  BY DEF Init, CacheInv, FreshOutcome, NoOutcome
<1> QED BY <1>1, <1>2 DEF FreshInv

\* Nothing that a single command does concerns go build.
LEMMA CommandFresh ==
  ASSUME FreshInv, CommandInv', phase # "idle" \/ key # NoKey,
         pkg' = pkg, opts' = opts, UNCHANGED buildVars
  PROVE  FreshInv'
BY CommandLeavesBuild DEF FreshInv

LEMMA FreshStep ==
  ASSUME VersionsDiffer, ToolInv, FreshInv, [Next]_vars
  PROVE  FreshInv'
<1>1. CASE ToolExecVersion
  BY <1>1, VersionFresh
<1>2. CASE CacheHit
  BY <1>2, CacheHitFresh
<1>3. CASE CacheMiss
  <2>1. key # NoKey /\ ToolExecRewrite /\ UNCHANGED buildVars
    BY <1>3 DEF CacheMiss
  <2>2. pkg' = pkg /\ opts' = opts
    BY <2>1 DEF ToolExecRewrite
  <2> QED BY <2>1, <2>2, ToolExecRewriteCommand, CommandFresh
<1>4. CASE Step /\ UNCHANGED buildVars
  <2>1. CommandInv'
    BY <1>4, ParseArgCommand, DecideCommand, MkdirTempCommand, KeepArgCommand,
       RewriteArgCommand, RewriteDoneCommand, RunToolCommand DEF Step
  <2>2. phase # "idle" /\ pkg' = pkg /\ opts' = opts
    BY <1>4 DEF Step, ParseArg, Decide, MkdirTemp, KeepArg, RewriteArg, RewriteDone, RunTool
  <2> QED BY <1>4, <2>1, <2>2, CommandFresh
<1>5. CASE Finish
  BY <1>5, FinishFresh
<1>6. CASE Change
  BY <1>6, ChangeFresh
<1>7. CASE UNCHANGED vars
  <2>1. UNCHANGED toolVars /\ UNCHANGED <<binary, key, cache, outcome>>
    BY <1>7 DEF vars, buildVars
  <2>2. UNCHANGED <<pkg, opts, phase, next, parsed, force, temp, newArgs, exit, object, ioFailed>>
    BY <2>1 DEF toolVars
  <2>3. CommandInv'
    <3>1. IdleInv' /\ ParseInv' /\ RewriteInv'
      BY <2>2, OptionsConstant DEF FreshInv, CommandInv, IdleInv, ParseInv, RewriteInv
    <3>2. \A k \in 1 .. Len(newArgs) : Read(newArgs[k])' = Read(newArgs[k])
      BY <2>2 DEF Read, Original
    <3>3. ToolReadsInv' /\ ReturnInv'
      BY <2>2, <3>2, OptionsConstant DEF FreshInv, CommandInv, ToolReadsInv, ReturnInv
    <3> QED BY <3>1, <3>3 DEF CommandInv
  <2>4. KeyInv' /\ FreshOutcome'
    BY <2>1, <2>2, OutcomeConstant DEF FreshInv, KeyInv, KeyOf, FreshOutcome
  <2>5. CacheInv'
    BY <2>1, <2>2, CacheConstant
  <2> QED BY <2>3, <2>4, <2>5 DEF FreshInv
<1> QED BY <1>1, <1>2, <1>3, <1>4, <1>5, <1>6, <1>7 DEF Next

(***************************************************************************)
(* A build gives what its options and its errtrace give, also when it      *)
(* comes out of go build's cache, however often both were changed before   *)
(* and whatever failed, provided that different options print differently  *)
(* and errtrace commands with the same version have the same code.         *)
(***************************************************************************)
THEOREM BuildsAreFresh ==
  ASSUME VersionsDiffer
  PROVE  Spec => []FreshOutcome
<1>1. Init => FreshInv
  BY FreshInit
<1>2. ToolInv /\ FreshInv /\ [Next]_vars => FreshInv'
  BY FreshStep
<1>3. FreshInv => FreshOutcome
  BY DEF FreshInv
<1> QED BY <1>1, <1>2, <1>3, ToolInvariant, PTL DEF Spec
============================================================================
