----------------------------- MODULE MCMainCmd -----------------------------
(***************************************************************************)
(* The command on two files and stdin.                                     *)
(***************************************************************************)
EXTENDS MainCmd

Import0(path, name, spelt) == [path |-> path, name |-> name, spelt |-> spelt]

At(imp, group, run) ==
  [path |-> imp.path, name |-> imp.name, spelt |-> imp.spelt, group |-> group, run |-> run]

Lines(imps) == [k \in DOMAIN imps |-> At(imps[k], FALSE, k)]
Block(imps) == [k \in DOMAIN imps |-> At(imps[k], TRUE, 1)]

\* The ways to import errtrace, another package, or a package of the same name:
\* line by line, in parentheses, and in parentheses with a line between.
ImportLists ==
  LET std == Import0(1, Alias, FALSE)
      same == Import0(1, Default, FALSE)
      plain == Import0(Errtrace, Default, FALSE)
      named(name) == Import0(Errtrace, name, TRUE)
  IN  {Lines(imps) : imps \in
         {<< >>, <<std>>, <<plain>>, <<named(2)>>, <<named(Blank)>>, <<named(Blank), named(2)>>,
          <<named(Dot)>>, <<named(2), plain>>, <<same>>, <<same, named(2)>>}}
        \union
      {Block(imps) : imps \in
         {<<std, plain>>, <<named(2), plain>>, <<plain, named(2)>>, <<named(2), named(Dot)>>}}
        \union
      {<<At(std, TRUE, 1), At(std, FALSE, 2)>>, <<At(named(2), TRUE, 1), At(plain, TRUE, 2)>>}

\* A file uses what it imports, and has no second meaning for it.
Bound(imports) == {imp.name : imp \in ToSet(imports)} \ {Blank, Dot}
Used(sites) == UNION {ToSet(s) : s \in sites}

MCSources ==
  {src \in [imports : ImportLists, locals : {{}, {1}, {1, 2}},
            sites : {{}, {<< >>}, {<<1>>}, {<<2>>}, {<< >>, <<1>>}, {<< >>, <<2>>},
                     {<<1>>, <<2>>}},
            formatted : BOOLEAN, parses : {TRUE}] :
     /\ Used(src.sites) = Bound(src.imports) \ {Alias}
     /\ src.locals \cap Bound(src.imports) = {}
     /\ src.formatted => Gofmt(src) = src}

Broken == [imports |-> << >>, locals |-> {}, sites |-> {}, formatted |-> FALSE, parses |-> FALSE]
Simple == [Broken EXCEPT !.sites = {<< >>}, !.parses = TRUE]

MCPaths == {"a.go", "b.go"}
MCStdin == "-"

\* Any file next to one that has an error to wrap or does not parse.
MCInputs ==
  {[p \in MCPaths \union {MCStdin} |->
      CASE p = "a.go" -> src [] p = "b.go" -> other [] p = MCStdin -> src] :
     src \in MCSources \union {Broken}, other \in {Simple, Broken}}

\* ./... lists both files, b.go as one left out by build constraints; the
\* pattern for a name that does not exist lists nothing.
MCPackages ==
  LET package == [GoFiles |-> <<"a.go">>, CgoFiles |-> << >>, TestGoFiles |-> << >>,
                  XTestGoFiles |-> << >>, IgnoredGoFiles |-> <<"b.go">>]
  IN  [patterns \in {<<"./...">>, <<"missing.go">>} |->
         IF patterns = <<"./...">> THEN <<package>> ELSE << >>]

\* A file alone, all files, a file by its name and again by a pattern, stdin
\* after a file and twice, and nothing that exists.
MCArgs ==
  {<< >>, <<"a.go">>, <<"./...">>, <<"./...", "a.go">>, <<"b.go", "-", "a.go">>,
   <<"-", "-">>, <<"missing.go">>}

MCCommands ==
  [Write : BOOLEAN, List : BOOLEAN, Format : {"auto", "always", "never"}, Args : MCArgs]

\* Nothing, or the head of a file up to the end of a declaration.
MCTorn == {Empty, [Broken EXCEPT !.parses = TRUE]}
============================================================================
