----------------------------- MODULE MCGoBuild -----------------------------
(***************************************************************************)
(* GoBuild on small packages: a flag and two files.                        *)
(***************************************************************************)
EXTENDS GoBuild

File(base, imports, inserts) ==
  [k |-> "go", base |-> base, imports |-> imports, inserts |-> inserts, ok |-> TRUE]
BrokenFile(base) == [File(base, FALSE, FALSE) EXCEPT !.ok = FALSE]
Flag == [k |-> "flag"]

Files(base) ==
  {File(base, imports, inserts) : imports, inserts \in BOOLEAN}

\* Two files around a flag, and a package with a file that does not parse.
Args ==
  {<<a, Flag, b>> : a \in Files(1), b \in Files(2)}
    \union {<<File(1, TRUE, TRUE), Flag, BrokenFile(2)>>}

Paths ==
  {<<"app">>, <<"lib", "/", "x">>, <<"lib", "x">>, <<"errtrace">>}

Package(tool, path, std, args) ==
  [tool |-> tool, path |-> path, std |-> std, args |-> args]

MCPackages ==
  {Package("compile", path, FALSE, args) : path \in Paths, args \in Args}
    \union {Package("compile", <<"fmt">>, TRUE, args) : args \in Args}
    \union {Package("asm", <<"app">>, FALSE, <<Flag>>)}

Opt(required, unsafe) == [required |-> required, unsafe |-> unsafe]
Unset == << << >> >>
App == <<"app">>
Lib == <<"lib", "/", "...">>
All == <<"...">>
Std == <<"std-unsafe">>

MCOptions ==
  {Opt(Unset, Unset), Opt(<<App>>, Unset), Opt(Unset, <<App, Lib>>),
   Opt(<<Lib>>, <<App>>), Opt(<<All>>, <<Lib>>), Opt(Unset, <<All, Std>>)}

\* A selector with a blank in it, and the two it looks like.
MCSpacedOptions ==
  {Opt(Unset, <<App \o <<" ">> \o Lib>>), Opt(Unset, <<App, Lib>>)}

Binary(code, sha, modified, readable) ==
  [code |-> code, sha |-> sha, modified |-> modified, readable |-> readable]

\* Built from a commit, from a modified tree at it (twice), from an archive,
\* and from an archive into a file that cannot be read.
MCBinaries ==
  {Binary(1, 1, FALSE, TRUE), Binary(2, 1, TRUE, TRUE), Binary(3, 1, TRUE, TRUE),
   Binary(4, 0, FALSE, TRUE), Binary(5, 0, FALSE, FALSE)}
============================================================================
