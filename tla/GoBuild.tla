------------------------------ MODULE GoBuild ------------------------------
(***************************************************************************)
(* go build running one package's tool through errtrace, again and again.  *)
(* It first asks the tool for its version (toolExecVersion), and if its    *)
(* cache holds a result for that version it runs no tool at all.  Between  *)
(* builds the user changes options and rebuilds errtrace.  The package is  *)
(* the same throughout: the go command puts its sources in the key.        *)
(***************************************************************************)
EXTENDS ToolExec

CONSTANTS
  Packages,   \* what may be built
  Options,    \* what may be given to -toolexec="errtrace ..."
  Binaries,   \* builds of the errtrace command
  MaxBuilds   \* bound: builds of the package

\* The files of a package have different names, as in one directory.
ASSUME PackagesAssumption ==
  \A p \in Packages :
    /\ p.args \in Seq(ToSet(p.args))
    /\ \A i, j \in DOMAIN p.args :
         /\ IsGoFile(p.args[i]) /\ IsGoFile(p.args[j])
         /\ p.args[i].base = p.args[j].base
         => i = j

\* Selectors and import paths are sequences of tokens.
ASSUME TokensAssumption ==
  /\ \A p \in Packages : p.path \in Seq(ToSet(p.path))
  /\ \A o \in Options : \A s \in ToSet(o.required) \union ToSet(o.unsafe) : s \in Seq(ToSet(s))

VARIABLES
  binary,   \* the errtrace command installed
  key,      \* version go build was told in this build, or none
  cache,    \* go build's cache: results by key
  builds,   \* builds so far
  outcome   \* of the last build

buildVars == <<binary, key, cache, builds, outcome>>
vars == <<toolVars, buildVars>>

NoKey == [errtrace |-> << >>, options |-> << >>]
NoOutcome == [kind |-> "none", by |-> 0, reads |-> << >>]
Failed(kind) == [NoOutcome EXCEPT !.kind = kind]

\* What the compiler made depends on errtrace only where errtrace rewrote.
Built(b, reads) ==
  [kind |-> "built",
   by |-> IF \A k \in DOMAIN reads : reads[k].how = "original" THEN 0 ELSE b.code,
   reads |-> [k \in DOMAIN reads |-> [arg |-> reads[k].arg, how |-> reads[k].how]]]
----------------------------------------------------------------------------
\* Variant: the revision is trusted although the tree was modified.
BinaryVersion_Dirty(b) == IF b.sha # 0 THEN <<"sha", b.sha>> ELSE <<"md5", b.code>>

\* binaryVersion: the revision it was built from, if unmodified, else a hash
\* of the executable; nothing if that cannot be read.
BinaryVersion(b) ==
  IF b.sha # 0 /\ ~b.modified THEN <<"sha", b.sha>>
  ELSE IF b.readable THEN <<"md5", b.code>>
  ELSE << >>

\* A list of strings as %v prints it: separated by blanks.
Printed(selectors) ==
  FlattenSeq([k \in 1 .. Len(selectors) |->
                IF k = 1 THEN selectors[k] ELSE <<" ">> \o selectors[k]])

VersionCacheKey(o) == <<Printed(o.required), Printed(o.unsafe)>>
----------------------------------------------------------------------------
Init ==
  /\ Idle
  /\ pkg \in Packages
  /\ opts \in Options
  /\ binary \in Binaries
  /\ key = NoKey
  /\ cache = << >>
  /\ builds = 0
  /\ outcome = NoOutcome

\* A build starts with "-V=full"; errtrace answers with the tool's version and
\* its own, or fails if the tool does.
ToolExecVersion ==
  /\ phase = "idle" /\ key = NoKey
  /\ builds < MaxBuilds
  /\ builds' = builds + 1
  /\ \/ /\ key' = [errtrace |-> BinaryVersion(binary), options |-> VersionCacheKey(opts)]
        /\ outcome' = NoOutcome
     \/ /\ outcome' = Failed("unlucky")
        /\ UNCHANGED key
  /\ UNCHANGED <<toolVars, binary, cache>>

CacheHit ==
  /\ phase = "idle" /\ key # NoKey
  /\ key \in DOMAIN cache
  /\ outcome' = cache[key]
  /\ key' = NoKey
  /\ UNCHANGED <<toolVars, binary, cache, builds>>

\* Nothing is cached: the tool is run through errtrace.
CacheMiss ==
  /\ key # NoKey
  /\ key \notin DOMAIN cache
  /\ ToolExecRewrite
  /\ UNCHANGED buildVars

\* The command returns and its temporary directory is removed; go build caches
\* what succeeded.
Finish ==
  /\ Return
  /\ outcome' = IF exit = 0 THEN Built(binary, object)
                ELSE Failed(IF ioFailed THEN "unlucky" ELSE "rejected")
  /\ cache' = IF exit = 0
              THEN [k \in DOMAIN cache \union {key} |->
                      IF k = key THEN outcome' ELSE cache[k]]
              ELSE cache
  /\ key' = NoKey
  /\ UNCHANGED <<binary, builds>>

\* Other options, or another errtrace.
Change ==
  /\ phase = "idle" /\ key = NoKey
  /\ builds \in 1 .. MaxBuilds - 1
  /\ outcome # NoOutcome
  /\ opts' \in Options
  /\ binary' \in Binaries
  /\ outcome' = NoOutcome
  /\ UNCHANGED <<pkg, phase, next, parsed, force, link, temp, newArgs, exit, object,
                 ioFailed, key, cache, builds>>

Next ==
  \/ ToolExecVersion \/ CacheHit \/ CacheMiss
  \/ Step /\ UNCHANGED buildVars
  \/ Finish
  \/ Change

Spec == Init /\ [][Next]_vars
----------------------------------------------------------------------------
\* Type invariant; only an unsafe rewrite has a declaration to add, and only
\* results of the tool are cached.
TypeOK ==
  /\ phase \in Phases
  /\ next \in 1 .. Len(pkg.args) + 1
  /\ link => force
  /\ \A k \in DOMAIN cache : cache[k].kind = "built"

(***************************************************************************)
(* What a build of a package is to give, whatever was built before.  A     *)
(* selector foo/... selects foo and what is below it; foo... all that      *)
(* starts with foo.                                                        *)
(***************************************************************************)
Selects(selector, path) ==
  \/ selector = path
  \/ /\ selector # << >> /\ Last(selector) = "..."
     /\ \/ Front(selector) = path \o <<"/">>
        \/ \E k \in 0 .. Len(path) : SubSeq(path, 1, k) = Front(selector)

SelectedBy(selectors) == \E s \in ToSet(selectors) : Selects(s, pkg.path)

Broken == \E arg \in ToSet(pkg.args) : IsGoFile(arg) /\ ~arg.ok
ReturnsErrors == \E arg \in ToSet(pkg.args) : ToBeRewritten(arg)

\* errtrace leaves other tools and (without std-unsafe) the standard library alone.
Considered(o) ==
  pkg.tool = "compile" /\ (pkg.std => <<"std-unsafe">> \in ToSet(o.unsafe))

\* How errtrace calls get into the package with options o.
Instrumented(o) ==
  IF ~Considered(o) THEN "original"
  ELSE IF \E arg \in ToSet(pkg.args) : IsGoFile(arg) /\ arg.imports THEN "import"
  ELSE IF pkg.path # ErrtracePkg /\ SelectedBy(o.unsafe) THEN "unsafe"
  ELSE "original"

\* A required package that should be instrumented and cannot be.
Missing(o) ==
  /\ Considered(o)
  /\ ReturnsErrors
  /\ Instrumented(o) = "original"
  /\ SelectedBy(o.required)

Fresh(o, b) ==
  IF Broken \/ Missing(o) THEN Failed("rejected")
  ELSE Built(b, [k \in 1 .. Len(pkg.args) |->
         [arg |-> k,
          how |-> IF ToBeRewritten(pkg.args[k]) THEN Instrumented(o) ELSE "original"]])

(***************************************************************************)
(* "Options affect the generated code, so use a hash of any options for    *)
(* the toolexec version" (toolexec.go): a build gives what these options   *)
(* and this errtrace give of the package, also when it comes out of the    *)
(* cache; a required package that is not instrumented does not build; and  *)
(* a build in which the system fails gives nothing.                        *)
(***************************************************************************)
FreshOutcome ==
  outcome.kind \in {"none", "unlucky"} \/ outcome = Fresh(opts, binary)
============================================================================
