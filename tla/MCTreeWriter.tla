---------------------------- MODULE MCTreeWriter ----------------------------
(***************************************************************************)
(* TreeWriter on every tree of up to MaxNodes nodes.  Eight nodes make     *)
(* trees seven deep: append first leaves a spare cell when a path grows to *)
(* three elements, so it is siblings on level four that share an array.    *)
(***************************************************************************)
EXTENDS TreeWriter, FiniteSets

CONSTANT MaxNodes

\* The child that can be added to node p: after its last one.
NewChild(t, p) ==
  Append(p, Cardinality({q \in t : q # << >> /\ Front(q) = p}))

TreesUpTo[n \in 1 .. MaxNodes] ==
  IF n = 1 THEN {{<< >>}}
  ELSE LET smaller == TreesUpTo[n - 1]
       IN  smaller \union
             UNION {{t \union {NewChild(t, p)} : p \in t} : t \in smaller}

MCTrees == TreesUpTo[MaxNodes]
============================================================================
