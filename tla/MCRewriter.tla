----------------------------- MODULE MCRewriter -----------------------------
(***************************************************************************)
(* Rewriter on every small program over a few signatures.                  *)
(***************************************************************************)
EXTENDS Rewriter

Sig(results, named) ==
  [results |-> results, named |-> named, unwrap |-> FALSE]

MCSignatures ==
  {Sig(<< >>, FALSE),
   Sig(<<"error">>, FALSE),
   Sig(<<"error">>, TRUE),
   Sig(<<"value", "error">>, FALSE),
   Sig(<<"value", "error">>, TRUE),
   Sig(<<"error", "value">>, FALSE),
   Sig(<<"error", "error">>, TRUE),
   Sig(<<"value", "value", "value", "value", "value", "value", "error">>, FALSE),
   [Sig(<<"error">>, FALSE) EXCEPT !.unwrap = TRUE]}

MCLitSignatures == {Sig(<< >>, FALSE), Sig(<<"error">>, TRUE)}

Func(sig) == [k |-> "func", line |-> 1, sig |-> sig]

\* func f() (err error) { switch { case ...: err = errtrace.Wrap(...); case ...:
SecondClause ==
  <<Func(Sig(<<"error">>, TRUE)), [k |-> "switch", line |-> 2], [k |-> "case", line |-> 3],
    [k |-> "assign", line |-> 4, lhs |-> <<Obj(1, 1)>>, rhs |-> <<"wrap">>],
    [k |-> "case", line |-> 5]>>

MCBeginnings == {<<Func(sig)>> : sig \in MCSignatures} \union {SecondClause}
MCMaxNodes == [b \in MCBeginnings |-> IF b = SecondClause THEN 2 ELSE 3]

\* func f() (err error) and func f() (x T, err error).
MCNamedBeginnings ==
  {<<Func(sig)>> : sig \in {Sig(<<"error">>, TRUE), Sig(<<"value", "error">>, TRUE)}}
MCNamedMaxNodes == [b \in MCNamedBeginnings |-> 3]
============================================================================
