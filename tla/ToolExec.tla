------------------------------ MODULE ToolExec ------------------------------
(***************************************************************************)
(* One command that go build runs through "-toolexec errtrace"             *)
(* (cmd/errtrace/toolexec.go): parse the package, decide whether and how   *)
(* it is rewritten, rewrite its files into a temporary directory and run   *)
(* the original tool on the result.                                        *)
(*                                                                         *)
(* What parseFile finds in a file is given with the file: whether it       *)
(* imports errtrace, has anything to insert, and parses at all.  Import    *)
(* paths and selectors are sequences of tokens, as in                      *)
(* <<"lib", "/", "...">>.                                                  *)
(***************************************************************************)
EXTENDS Naturals, Sequences, SequencesExt, FiniteSetsExt

VARIABLES
  pkg,       \* what is built: tool, import path, -std flag and arguments
  opts,      \* -required-packages and -unsafe-packages: lists of selectors
  phase,     \* where the command is
  next,      \* next argument of the loop being run
  parsed,    \* parsePkgState: importsErrtrace, needsRewrite
  force,     \* unsafeForceImport
  link,      \* addLinkName
  temp,      \* files in the temporary directory, by base name
  newArgs,   \* arguments for the tool
  exit,      \* exit code
  object,    \* what the tool read when it ran
  ioFailed   \* did the operating system or the tool fail?

toolVars == <<pkg, opts, phase, next, parsed, force, link, temp, newArgs, exit, object, ioFailed>>

ErrtracePkg == <<"errtrace">>

IsGoFile(arg) == arg.k = "go"
NotParsed == [importsErrtrace |-> FALSE, needsRewrite |-> FALSE]

\* A file as the author wrote it, and as rewriteFile leaves it: with calls
\* through an import of errtrace, or through the linked __errtrace_Wrap.
Original(k) == [arg |-> k, how |-> "original", link |-> FALSE]
ArgsAsGiven == [k \in 1 .. Len(pkg.args) |-> [temp |-> FALSE, arg |-> k]]

\* What is found at the path given in an argument.
Read(a) == IF a.temp THEN temp[pkg.args[a.arg].base] ELSE Original(a.arg)
ToolReads == [k \in 1 .. Len(newArgs) |-> Read(newArgs[k])]
----------------------------------------------------------------------------
\* Variant: the slash is not part of the prefix.
PackageSelectorMatch_NoSlash(selector, path) ==
  IF selector # << >> /\ Last(selector) = "..."
  THEN IsPrefix(SelectSeq(Front(selector), LAMBDA t : t # "/"), path)
  ELSE selector = path

\* packageSelectorMatch: foo/... matches foo and foo/bar, but not foobar.
PackageSelectorMatch(selector, path) ==
  IF selector # << >> /\ Last(selector) = "..."
  THEN LET prefix == Front(selector) IN
       \/ prefix = Append(path, "/")
       \/ IsPrefix(prefix, path)
  ELSE selector = path

Selected(selectors, path) ==
  \E s \in ToSet(selectors) : PackageSelectorMatch(s, path)

RequiredPackage == Selected(opts.required, pkg.path)
UnsafeRewriteStd == <<"std-unsafe">> \in ToSet(opts.unsafe)
UnsafeRewrite == pkg.path # ErrtracePkg /\ Selected(opts.unsafe, pkg.path)
----------------------------------------------------------------------------
\* A command that is not running.
Idle ==
  /\ phase = "idle"
  /\ next = 1
  /\ parsed = NotParsed
  /\ force = FALSE
  /\ link = FALSE
  /\ temp = << >>
  /\ newArgs = << >>
  /\ exit = 0
  /\ object = << >>
  /\ ioFailed = FALSE

Exit(code) ==
  /\ phase' = "return"
  /\ exit' = code

\* runOriginal with the arguments the tool was called with.
RunOriginal ==
  /\ phase' = "tool"
  /\ newArgs' = ArgsAsGiven

\* toolExecRewrite: only compile, and the standard library only if opted in.
ToolExecRewrite ==
  /\ phase = "idle"
  /\ IF pkg.tool # "compile" \/ (pkg.std /\ ~UnsafeRewriteStd)
     THEN RunOriginal
     ELSE phase' = "parse" /\ UNCHANGED newArgs
  /\ UNCHANGED <<pkg, opts, next, parsed, force, link, temp, exit, object, ioFailed>>

\* parsePkg, one argument.  Reading or parsing the file may fail.
ParseArg ==
  /\ phase = "parse"
  /\ next <= Len(pkg.args)
  /\ LET arg == pkg.args[next] IN
     \/ /\ IsGoFile(arg) => arg.ok
        /\ next' = next + 1
        /\ parsed' = IF IsGoFile(arg)
                     THEN [importsErrtrace |-> parsed.importsErrtrace \/ arg.imports,
                           needsRewrite |-> parsed.needsRewrite \/ arg.inserts]
                     ELSE parsed
        /\ UNCHANGED <<phase, exit, ioFailed>>
     \/ /\ IsGoFile(arg)
        /\ ioFailed' = (ioFailed \/ arg.ok)
        /\ Exit(1)
        /\ UNCHANGED <<next, parsed>>
  /\ UNCHANGED <<pkg, opts, force, link, temp, newArgs, object>>

\* rewriteCompile after parsePkg: is the package rewritten, and how?
Decide ==
  /\ phase = "parse"
  /\ next > Len(pkg.args)
  /\ force' = (~parsed.importsErrtrace /\ UnsafeRewrite /\ parsed.needsRewrite)
  /\ IF parsed.needsRewrite /\ (parsed.importsErrtrace \/ force')
     THEN phase' = "mkdir" /\ UNCHANGED <<newArgs, exit>>
     ELSE IF parsed.needsRewrite /\ RequiredPackage
     THEN Exit(1) /\ UNCHANGED newArgs
     ELSE RunOriginal /\ UNCHANGED exit
  /\ UNCHANGED <<pkg, opts, next, parsed, link, temp, object, ioFailed>>

\* Variant: the declaration is added to every kind of rewrite.
MkdirTemp_LinkAlways ==
  /\ phase = "mkdir"
  /\ phase' = "rewrite"
  /\ next' = 1
  /\ link' = TRUE
  /\ temp' = << >>
  /\ UNCHANGED <<pkg, opts, parsed, force, newArgs, exit, object, ioFailed>>

\* os.MkdirTemp: a new, empty directory.
MkdirTemp ==
  /\ phase = "mkdir"
  /\ \/ /\ phase' = "rewrite"
        /\ next' = 1
        /\ link' = force
        /\ temp' = << >>
        /\ UNCHANGED <<exit, ioFailed>>
     \/ /\ Exit(1)
        /\ ioFailed' = TRUE
        /\ UNCHANGED <<next, link, temp>>
  /\ UNCHANGED <<pkg, opts, parsed, force, newArgs, object>>

ToBeRewritten(arg) == IsGoFile(arg) /\ arg.inserts

\* Variant: an argument that is not rewritten is left out.
KeepArg_Dropped ==
  /\ phase = "rewrite"
  /\ next <= Len(pkg.args)
  /\ ~ToBeRewritten(pkg.args[next])
  /\ next' = next + 1
  /\ UNCHANGED <<pkg, opts, phase, parsed, force, link, temp, newArgs, exit, object, ioFailed>>

\* The loop over the arguments: what is no file to rewrite is passed on.
KeepArg ==
  /\ phase = "rewrite"
  /\ next <= Len(pkg.args)
  /\ ~ToBeRewritten(pkg.args[next])
  /\ newArgs' = Append(newArgs, [temp |-> FALSE, arg |-> next])
  /\ next' = next + 1
  /\ UNCHANGED <<pkg, opts, phase, parsed, force, link, temp, exit, object, ioFailed>>

\* Variant: every file gets the declaration.
RewriteArg_LinkEvery ==
  /\ phase = "rewrite"
  /\ next <= Len(pkg.args)
  /\ ToBeRewritten(pkg.args[next])
  /\ temp' = [b \in DOMAIN temp \union {pkg.args[next].base} |->
                IF b = pkg.args[next].base
                THEN [arg |-> next, how |-> IF force THEN "unsafe" ELSE "import", link |-> link]
                ELSE temp[b]]
  /\ newArgs' = Append(newArgs, [temp |-> TRUE, arg |-> next])
  /\ next' = next + 1
  /\ UNCHANGED <<pkg, opts, phase, parsed, force, link, exit, object, ioFailed>>

\* A file with inserts is rewritten into the temporary directory; the first
\* one of an unsafe rewrite declares __errtrace_Wrap.  Rewriting may fail, and
\* so may the write, half-way.
RewriteArg ==
  /\ phase = "rewrite"
  /\ next <= Len(pkg.args)
  /\ ToBeRewritten(pkg.args[next])
  /\ LET base == pkg.args[next].base
         Written(how) ==
           [b \in DOMAIN temp \union {base} |->
              IF b = base THEN [arg |-> next, how |-> how, link |-> link] ELSE temp[b]]
     IN  \/ /\ temp' = Written(IF force THEN "unsafe" ELSE "import")
            /\ link' = FALSE
            /\ newArgs' = Append(newArgs, [temp |-> TRUE, arg |-> next])
            /\ next' = next + 1
            /\ UNCHANGED <<phase, exit, ioFailed>>
         \/ /\ temp' \in {temp, Written("truncated")}
            /\ ioFailed' = TRUE
            /\ Exit(1)
            /\ UNCHANGED <<link, newArgs, next>>
  /\ UNCHANGED <<pkg, opts, parsed, force, object>>

RewriteDone ==
  /\ phase = "rewrite"
  /\ next > Len(pkg.args)
  /\ phase' = "tool"
  /\ UNCHANGED <<pkg, opts, next, parsed, force, link, temp, newArgs, exit, object, ioFailed>>

\* The tool itself: it fails on files that do not parse, and may fail for
\* reasons of its own.
RunTool ==
  /\ phase = "tool"
  /\ object' = ToolReads
  /\ \E ok \in BOOLEAN :
       /\ ok => \A arg \in ToSet(pkg.args) : IsGoFile(arg) => arg.ok
       /\ Exit(IF ok THEN 0 ELSE 1)
       /\ ioFailed' = (ioFailed \/ (~ok /\ \A arg \in ToSet(pkg.args) : IsGoFile(arg) => arg.ok))
  /\ UNCHANGED <<pkg, opts, next, parsed, force, link, temp, newArgs>>

\* The command returns; the temporary directory is removed (or left behind:
\* nothing looks at it again).
Return ==
  /\ phase = "return"
  /\ phase' = "idle"
  /\ next' = 1
  /\ parsed' = NotParsed
  /\ force' = FALSE
  /\ link' = FALSE
  /\ temp' = << >>
  /\ newArgs' = << >>
  /\ exit' = 0
  /\ object' = << >>
  /\ ioFailed' = FALSE
  /\ UNCHANGED <<pkg, opts>>

\* One step of a command after toolExecRewrite was called, up to its return.
Step ==
  \/ ParseArg \/ Decide \/ MkdirTemp \/ KeepArg \/ RewriteArg \/ RewriteDone \/ RunTool
----------------------------------------------------------------------------
Phases == {"idle", "parse", "mkdir", "rewrite", "tool", "return"}

(***************************************************************************)
(* A package rewritten in unsafe mode is linked to errtrace.Wrap by one    *)
(* declaration in one of its files (two would be a redeclaration), and a   *)
(* package that imports errtrace by none, whatever the order of files with *)
(* and without inserts among the arguments.                                *)
(***************************************************************************)
LinkNameOnce ==
  phase = "tool" =>
    Quantify(DOMAIN ToolReads, LAMBDA k : ToolReads[k].link)
      = IF \E k \in DOMAIN ToolReads : ToolReads[k].how = "unsafe" THEN 1 ELSE 0

(***************************************************************************)
(* The tool is given the arguments it was called with, each once and in    *)
(* order, with files replaced only by complete rewrites of themselves.     *)
(***************************************************************************)
SameArguments ==
  phase = "tool" =>
    /\ Len(ToolReads) = Len(pkg.args)
    /\ \A k \in DOMAIN ToolReads :
         ToolReads[k].arg = k /\ ToolReads[k].how # "truncated"
============================================================================
