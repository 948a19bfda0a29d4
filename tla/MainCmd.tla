------------------------------ MODULE MainCmd ------------------------------
(***************************************************************************)
(* The errtrace command (main.go): Run expands its arguments to a list of  *)
(* files and processes one after the other.  Reading, printing and writing *)
(* may fail, a write also half-way, and go list may fail; a file may be    *)
(* listed twice.                                                           *)
(***************************************************************************)
EXTENDS SourceFile

CONSTANTS
  Paths,      \* the Go files there are
  Stdin,      \* the argument "-"
  Packages,   \* what go list answers for a sequence of patterns: its packages
  Inputs,     \* the contents that the files and stdin may have to begin with
  Commands,   \* command lines: [Write, List, Format, Args]
  Torn        \* what a write that fails half-way may leave

VARIABLES
  pc,         \* the place in Run and processFile
  params,     \* mainParams
  files,      \* what expandPatterns returned
  i,          \* the file of the list that is processed
  buf,        \* the local variables src and outSrc of processFile
  disk,       \* contents of the files
  stdin,      \* what is left to read on stdin
  stdout,     \* what was printed, and for which file of the list
  stderr,     \* files of the list an error was logged for (0: for none of them)
  exitCode,
  before      \* the files and stdin as they were when the command started

vars == <<pc, params, files, i, buf, disk, stdin, stdout, stderr, exitCode, before>>

Labels == {"args", "read", "parse", "rewrite", "format", "output", "exit"}

\* Nothing that parses: an empty file.
Empty == [imports |-> << >>, locals |-> {}, sites |-> {}, formatted |-> TRUE, parses |-> FALSE]
----------------------------------------------------------------------------
\* shouldFormat: -format=auto formats what is written to a file.
ShouldFormat ==
  \/ params.Format = "always"
  \/ params.Format = "auto" /\ params.Write

\* The files go list names for a package, by kind.
PackageFiles(pkg) ==
  pkg.GoFiles \o pkg.CgoFiles \o pkg.TestGoFiles \o pkg.XTestGoFiles \o pkg.IgnoredGoFiles

IsFileArg(arg) == arg = Stdin \/ arg \in Paths

\* goListFiles, which is only called if there are patterns.
GoListFiles(patterns) ==
  IF patterns = << >> THEN << >>
  ELSE FlattenSeq([k \in 1 .. Len(Packages[patterns]) |-> PackageFiles(Packages[patterns][k])])

\* expandPatterns: files and "-" as given, then what go list makes of the rest.
ExpandPatterns(args) ==
  SelectSeq(args, IsFileArg)
    \o GoListFiles(SelectSeq(args, LAMBDA arg : ~IsFileArg(arg)))

\* No argument at all stands for stdin.
Args(c) == IF c.Args = << >> THEN <<Stdin>> ELSE c.Args

\* go list names files there are.
ASSUME ArgsAssumption ==
  /\ Stdin \notin Paths
  /\ \A c \in Commands : ExpandPatterns(Args(c)) \in Seq(Paths \union {Stdin})

\* The files and stdin are files, with finitely many names; imports of errtrace
\* by a name after errtrace9, which sorts differently, are left out.
ASSUME SourcesAssumption ==
  \A in \in Inputs : \A p \in Paths \union {Stdin} :
    /\ IsSource(in[p])
    /\ \A k \in Usable(in[p]) : in[p].imports[k].name < 10

\* Is errtrace imported under this name?
IsPackage(src, name) ==
  \E imp \in ToSet(src.imports) : IsErrtrace(imp) /\ imp.name = name

(***************************************************************************)
(* What the compiler demands of names: what errtrace is imported as means  *)
(* nothing else in the file, an import is used, no package is called _.    *)
(***************************************************************************)
Compiles(src) ==
  /\ \A imp \in ToSet(src.imports) :
       /\ IsErrtrace(imp) /\ imp.name \notin {Blank, Dot} =>
            /\ imp.name \notin src.locals
            /\ \A other \in ToSet(src.imports) : other.name = imp.name => IsErrtrace(other)
       /\ imp.name \in Idents(src) \union {Alias, Blank, Dot}
  /\ \A s \in src.sites : Blank \notin ToSet(s)

\* What errtrace has wrapped to begin with is returned as it is.
WrappedLast(src) ==
  \A s \in src.sites : \A k \in 2 .. Len(s) : ~IsPackage(src, s[k])

\* What parses at all can be compiled.
ASSUME CompilesAssumption ==
  \A in \in Inputs : \A p \in Paths \union {Stdin} :
    in[p].parses => Compiles(in[p]) /\ WrappedLast(in[p])

\* Variant: one file too many.
Continue_OffByOne == IF i <= Len(files) THEN "read" ELSE "exit"

\* Run goes on with the next file, or returns the exit code.
Continue == IF i < Len(files) THEN "read" ELSE "exit"

Init ==
  /\ pc = "args"
  /\ params \in Commands
  /\ files = << >>
  /\ i = 0
  /\ buf = Empty
  /\ before \in Inputs
  /\ disk = [p \in Paths |-> before[p]]
  /\ stdin = before[Stdin]
  /\ stdout = << >>
  /\ stderr = {}
  /\ exitCode = 0

\* Run: the arguments are expanded.
Expand ==
  /\ pc = "args"
  /\ files' = ExpandPatterns(Args(params))
  /\ IF files' = << >> THEN pc' = "exit" /\ i' = 0 ELSE pc' = "read" /\ i' = 1
  /\ UNCHANGED <<params, buf, disk, stdin, stdout, stderr, exitCode, before>>

\* goListFiles fails: it cannot start or does not exit well, or prints no JSON.
GoListFails ==
  /\ pc = "args"
  /\ \E k \in 1 .. Len(params.Args) : ~IsFileArg(params.Args[k])
  /\ pc' = "exit"
  /\ stderr' = {0}
  /\ exitCode' = 1
  /\ UNCHANGED <<params, files, i, buf, disk, stdin, stdout, before>>
----------------------------------------------------------------------------
(***************************************************************************)
(* processFile.                                                            *)
(***************************************************************************)
\* Variants: the error is logged only; it ends the command; the file is tried
\* again.
Fail_LogOnly ==
  /\ stderr' = stderr \union {i}
  /\ UNCHANGED exitCode
  /\ i' = i + 1
  /\ pc' = Continue

Fail_Stop ==
  /\ stderr' = stderr \union {i}
  /\ exitCode' = 1
  /\ i' = i + 1
  /\ pc' = "exit"

Fail_Retry ==
  /\ stderr' = stderr \union {i}
  /\ exitCode' = 1
  /\ pc' = "read"
  /\ UNCHANGED i

\* An error: Run logs it and goes on with the next file.
Fail ==
  /\ stderr' = stderr \union {i}
  /\ exitCode' = 1
  /\ i' = i + 1
  /\ pc' = Continue

\* processFile returns nil.
Done ==
  /\ i' = i + 1
  /\ pc' = Continue
  /\ UNCHANGED <<stderr, exitCode>>

\* The next step of the same file.
Then(label) == pc' = label /\ UNCHANGED <<i, stderr, exitCode>>

\* readFile from a file, or from stdin, which a second "-" finds empty.
ReadFile ==
  /\ pc = "read"
  /\ files[i] # Stdin
  /\ buf' = disk[files[i]]
  /\ Then("parse")
  /\ UNCHANGED <<params, files, disk, stdin, stdout, before>>

ReadStdin ==
  /\ pc = "read"
  /\ files[i] = Stdin
  /\ ~params.Write
  /\ buf' = stdin
  /\ stdin' = Empty
  /\ Then("parse")
  /\ UNCHANGED <<params, files, disk, stdout, before>>

\* -w cannot be used with stdin; reading may fail, after which stdin is done.
ReadFails ==
  /\ pc = "read"
  /\ stdin' = IF files[i] = Stdin THEN Empty ELSE stdin
  /\ Fail
  /\ UNCHANGED <<params, files, buf, disk, stdout, before>>

ParseFails ==
  /\ pc = "parse"
  /\ ~buf.parses
  /\ Fail
  /\ UNCHANGED <<params, files, buf, disk, stdin, stdout, before>>

\* What is printed for the current file: its name, or source text.
Output(kind, src) == [file |-> i, kind |-> kind, src |-> src]

\* Variant: files without inserts are listed too.
ListFile_All ==
  /\ pc = "parse"
  /\ buf.parses
  /\ params.List
  /\ \/ /\ stdout' = Append(stdout, Output("name", buf))
        /\ Done
     \/ /\ Fail
        /\ UNCHANGED stdout
  /\ UNCHANGED <<params, files, buf, disk, stdin, before>>

\* -l prints the name of a file with inserts, which may fail, and that is all.
ListFile ==
  /\ pc = "parse"
  /\ buf.parses
  /\ params.List
  /\ \/ /\ HasInserts(buf)
        /\ stdout' = Append(stdout, Output("name", buf))
        /\ Done
     \/ /\ ~HasInserts(buf)
        /\ Done
        /\ UNCHANGED stdout
     \/ /\ HasInserts(buf)
        /\ Fail
        /\ UNCHANGED stdout
  /\ UNCHANGED <<params, files, buf, disk, stdin, before>>

Parse ==
  /\ pc = "parse"
  /\ buf.parses
  /\ ~params.List
  /\ Then("rewrite")
  /\ UNCHANGED <<params, files, buf, disk, stdin, stdout, before>>

Rewrite ==
  /\ pc = "rewrite"
  /\ buf' = RewriteFile(buf)
  /\ Then("format")
  /\ UNCHANGED <<params, files, disk, stdin, stdout, before>>

\* Variant: what gofmt cannot parse is written as it is.
Format_Unchecked ==
  /\ pc = "format"
  /\ buf' = IF ShouldFormat /\ buf.parses THEN Gofmt(buf) ELSE buf
  /\ Then("output")
  /\ UNCHANGED <<params, files, disk, stdin, stdout, before>>

\* gofmt, which fails if what rewriteFile made is no Go.
Format ==
  /\ pc = "format"
  /\ IF ~ShouldFormat THEN Then("output") /\ UNCHANGED buf
     ELSE IF buf.parses THEN Then("output") /\ buf' = Gofmt(buf)
     ELSE Fail /\ UNCHANGED buf
  /\ UNCHANGED <<params, files, disk, stdin, stdout, before>>

\* os.WriteFile(r.Filename, outSrc).
WriteFile ==
  /\ pc = "output"
  /\ params.Write
  /\ disk' = [disk EXCEPT ![files[i]] = buf]
  /\ Done
  /\ UNCHANGED <<params, files, buf, stdin, stdout, before>>

\* Variant: an error that comes after the file was truncated is dropped.
WriteFails_Silent ==
  /\ pc = "output"
  /\ params.Write
  /\ \/ UNCHANGED disk /\ Fail
     \/ \E torn \in Torn : disk' = [disk EXCEPT ![files[i]] = torn] /\ Done
  /\ UNCHANGED <<params, files, buf, stdin, stdout, before>>

\* It cannot open the file, or has truncated it when it fails.
WriteFails ==
  /\ pc = "output"
  /\ params.Write
  /\ \/ UNCHANGED disk
     \/ \E torn \in Torn : disk' = [disk EXCEPT ![files[i]] = torn]
  /\ Fail
  /\ UNCHANGED <<params, files, buf, stdin, stdout, before>>

\* cmd.Stdout.Write(outSrc), which may also fail half-way.
PrintSource ==
  /\ pc = "output"
  /\ ~params.Write
  /\ \/ stdout' = Append(stdout, Output("source", buf)) /\ Done
     \/ \E torn \in Torn : stdout' = Append(stdout, Output("source", torn)) /\ Fail
     \/ Fail /\ UNCHANGED stdout
  /\ UNCHANGED <<params, files, buf, disk, stdin, before>>

Next ==
  \/ Expand \/ GoListFails
  \/ ReadFile \/ ReadStdin \/ ReadFails
  \/ ParseFails \/ ListFile \/ Parse
  \/ Rewrite \/ Format
  \/ WriteFile \/ WriteFails \/ PrintSource

Spec == Init /\ [][Next]_vars /\ WF_vars(Next)
----------------------------------------------------------------------------
Listed(k) == \E j \in 1 .. Len(stdout) : stdout[j].file = k /\ stdout[j].kind = "name"

Failed(p) == \E k \in stderr \ {0} : files[k] = p

\* The k-th file before the command: the second "-" finds stdin read.
Original(k) ==
  IF files[k] = Stdin /\ \E j \in 1 .. k - 1 : files[j] = Stdin THEN Empty
  ELSE before[files[k]]

Result(src) == IF ShouldFormat THEN Gofmt(RewriteFile(src)) ELSE RewriteFile(src)

\* Is the file in the list more than once?
ListedTwice(p) == \E j, k \in 1 .. Len(files) : j < k /\ files[j] = p /\ files[k] = p

\* Type invariant.
TypeOK ==
  /\ pc \in Labels
  /\ i \in 0 .. Len(files) + 1
  /\ pc \notin {"args", "exit"} => i \in 1 .. Len(files)
  /\ \A k \in 1 .. Len(files) : IsFileArg(files[k])
  /\ stderr \subseteq 0 .. Len(files)
  /\ exitCode \in {0, 1}
  /\ DOMAIN disk = Paths

(***************************************************************************)
(* At any time, with any failures, a file is as it was, or it is what the  *)
(* command makes of it, or an error was logged for it.  A file that is     *)
(* listed more than once is rewritten each time; from the second time on   *)
(* nothing changes any more, however it imports errtrace.  Only -w without *)
(* -l writes, and only to files that were given and that parse.            *)
(***************************************************************************)
FilesIntact ==
  \A p \in Paths :
    \/ disk[p] = before[p]
    \/ /\ params.Write /\ ~params.List
       /\ before[p].parses
       /\ \E k \in 1 .. Len(files) : files[k] = p
       /\ \/ Failed(p)
          \/ disk[p] = Result(before[p])
          \/ ListedTwice(p) /\ disk[p] = Result(Result(before[p]))

(***************************************************************************)
(* A file that fails stops none of the others and shows in the exit code:  *)
(* at the end each file of the list was dealt with or has an error logged, *)
(* and the exit code is 0 only if no error was.                            *)
(***************************************************************************)
Processed(k) ==
  IF params.List THEN Original(k).parses
  ELSE IF params.Write
  THEN \/ Failed(files[k])
       \/ disk[files[k]] = IF ListedTwice(files[k]) THEN Result(Result(Original(k)))
                           ELSE Result(Original(k))
  ELSE \E j \in 1 .. Len(stdout) : 
         stdout[j] = [file |-> k, kind |-> "source", src |-> Result(Original(k))]

EveryFileProcessed ==
  pc = "exit" =>
    /\ exitCode = 0 <=> stderr = {}
    /\ 0 \notin stderr =>
         \A k \in 1 .. Len(files) \ stderr : Processed(k)

(***************************************************************************)
(* "list files that would be modified without making any changes" (-l): a  *)
(* file is listed exactly if the rewrite changes it.  (That -w may also    *)
(* change its format is left out of account, as it is in the code.)        *)
(***************************************************************************)
ListAgrees ==
  pc = "exit" /\ params.List /\ 0 \notin stderr =>
    \A k \in 1 .. Len(files) \ stderr : Listed(k) <=> RewriteFile(Original(k)) # Original(k)

(***************************************************************************)
(* What was written or printed without an error, next to what it was made  *)
(* of.                                                                     *)
(***************************************************************************)
Written ==
  {<<before[p], disk[p]>> : p \in {q \in Paths : disk[q] # before[q] /\ ~Failed(q)}}
    \union
  {<<Original(stdout[j].file), stdout[j].src>> :
     j \in {k \in 1 .. Len(stdout) : stdout[k].kind = "source" /\ stdout[k].file \notin stderr}}

\* One import of errtrace that it can be used by, at most.
OneImport(src) == \A j, k \in Usable(src) : j = k

(***************************************************************************)
(* The calls that are written mean errtrace: each error returned is        *)
(* wrapped, by a name that errtrace and nothing else in the file has; and  *)
(* once.                                                                   *)
(***************************************************************************)
Resolves(out) ==
  /\ out.parses
  /\ \A s \in out.sites :
       /\ s # << >>
       /\ IsPackage(out, s[1])
       /\ s[1] \notin out.locals \union {Blank, Dot}
       /\ \A imp \in ToSet(out.imports) : imp.name = s[1] => IsErrtrace(imp)

WrappedOnce(out) ==
  \A s \in out.sites : {k \in 1 .. Len(s) : IsPackage(out, s[k])} = {1}

(***************************************************************************)
(* What is written or printed resolves, by whatever imports of errtrace    *)
(* the file had, unless the one chosen is a dot import: then ..Wrap is     *)
(* written, which GofmtGuards is about.  Errors are wrapped once if        *)
(* errtrace has one name in the file: with two, calls by the other name    *)
(* are wrapped again.                                                      *)
(***************************************************************************)
CallsResolve ==
  \A w \in Written :
    ErrtracePkg(w[1]) # Dot =>
      /\ Resolves(w[2])
      /\ OneImport(w[1]) => WrappedOnce(w[2])

(***************************************************************************)
(* "Re-run on the output of the first run. This should be a no-op."        *)
(* (main_test.go, for -format=never.)  It is, for any imports of errtrace, *)
(* also after gofmt if gofmt leaves them in their order.  If not, the next *)
(* run may go by another import's name and wrap the calls again.           *)
(***************************************************************************)
RunAgain ==
  \A w \in Written :
    w[2].parses /\ (ShouldFormat => InOrder(w[1])) => RewriteFile(w[2]) = w[2]

(***************************************************************************)
(* gofmt keeps what is no Go from the disk: unless -format=never, a file   *)
(* that parses is only ever replaced by one that parses, whatever it       *)
(* imports, or an error is logged for it.                                  *)
(***************************************************************************)
GofmtGuards ==
  params.Write /\ ShouldFormat =>
    \A p \in Paths : before[p].parses => disk[p].parses \/ Failed(p)

\* The command ends, whatever fails.
Terminates == <>(pc = "exit")
============================================================================
