----------------------------- MODULE TreeWriter -----------------------------
(***************************************************************************)
(* treeWriter (tree.go): the depth-first walk that draws a trace tree.     *)
(*                                                                         *)
(* The path to the current node is a Go slice that every call extends with *)
(* append, so siblings may share a backing array and overwrite each        *)
(* other's element.  Slices are modelled as Go has them: an array, and a   *)
(* length up to which the holder sees it.                                  *)
(***************************************************************************)
EXTENDS Integers, Sequences, SequencesExt

CONSTANTS
  Trees,      \* the trees drawn: sets of paths of child indexes, 0 first
  MaxDepth,   \* bound: levels of a tree
  MaxLines,   \* bound: lines of one error message
  None        \* no array: the nil slice

VARIABLES
  shape,   \* the paths of the tree's nodes
  calls,   \* active writeTree calls: the node, its path slice, next child
  arrays,  \* backing arrays of path slices
  written, \* the nodes written so far, in order
  above,   \* the line drawn before the last node's
  block,   \* the lines drawn for the last node
  failed,  \* did a write to W fail?
  e        \* treeWriter.e: is it non-nil?

vars == <<shape, calls, arrays, written, above, block, failed, e>>

\* Arrays are numbered; one per active call is enough.
ArrayIds == 1 .. MaxDepth

\* A tree has a root, and with a node the ancestors of that node and the
\* earlier siblings of each: Children is a slice.
ASSUME TreesAssumption ==
  \A t \in Trees :
    /\ t \subseteq Seq(Nat)
    /\ << >> \in t
    /\ \A p \in t :
         /\ Len(p) < MaxDepth
         /\ \A k \in 1 .. Len(p) : \A j \in 0 .. p[k] :
              Append(SubSeq(p, 1, k - 1), j) \in t

ASSUME BoundsAssumption == MaxDepth \in Nat /\ MaxLines \in Nat /\ None \notin ArrayIds

Used == {calls[k].path.array : k \in 1 .. Len(calls)}
FreshArray == CHOOSE a \in ArrayIds : a \notin Used

\* Capacity of a grown []int: runtime.growslice doubles small slices.
GrownCap(n) == IF n = 0 THEN 1 ELSE 2 * n

\* What a holder of slice s reads.
Contents(s) == IF s.array = None THEN << >> ELSE SubSeq(arrays[s.array], 1, s.len)

\* append(s, i): in place if the array has room, else into a larger copy.
\* Cells past the length of the copy are zero.
Appended(s, i) ==
  LET cap == IF s.array = None THEN 0 ELSE Len(arrays[s.array]) IN
  IF s.len < cap
  THEN [slice |-> [s EXCEPT !.len = @ + 1],
        arrays |-> [arrays EXCEPT ![s.array][s.len + 1] = i]]
  ELSE [slice |-> [array |-> FreshArray, len |-> s.len + 1],
        arrays |-> [arrays EXCEPT ![FreshArray] =
          [k \in 1 .. GrownCap(cap) |->
             IF k <= s.len THEN Contents(s)[k] ELSE IF k = s.len + 1 THEN i ELSE 0]]]

\* Variant: first children draw their parents' pipes too.
Pipes_Always(path, last) ==
  [d \in 1 .. Len(path) |-> IF d = Len(path) THEN last ELSE "|"]

\* pipes(path, last): the columns of one line.
Pipes(path, last) ==
  [d \in 1 .. Len(path) |->
     IF d = Len(path) THEN last ELSE IF path[d] = 0 THEN " " ELSE "|"]

\* writeTrace: the lines, by their columns only.
TraceLines(path, lines, hasTrace) ==
  <<Pipes(path, "+")>>
    \o [k \in 1 .. lines - 1 |-> Pipes(path, "|")]
    \o (IF hasTrace THEN [k \in 1 .. 3 |-> Pipes(path, "|")] ELSE << >>)
    \o (IF path # << >> THEN <<Pipes(path, "|")>> ELSE << >>)
----------------------------------------------------------------------------
Activation(node, slice) == [node |-> node, path |-> slice, i |-> 0]

Init ==
  /\ shape \in Trees
  /\ calls = <<Activation(<< >>, [array |-> None, len |-> 0])>>
  /\ arrays = [a \in ArrayIds |-> << >>]
  /\ written = << >>
  /\ above = << >>
  /\ block = << >>
  /\ failed = FALSE
  /\ e = FALSE

cur == calls[Len(calls)]
NextChild == Append(cur.node, cur.i)

\* Variant: path = append(path, i) in the loop.
Descend_PathGrows ==
  /\ calls # << >>
  /\ NextChild \in shape
  /\ LET a == Appended(cur.path, cur.i) IN
       /\ arrays' = a.arrays
       /\ calls' = Append([calls EXCEPT ![Len(calls)] = [@ EXCEPT !.i = @ + 1, !.path = a.slice]],
                          Activation(NextChild, a.slice))
  /\ UNCHANGED <<shape, written, above, block, failed, e>>

\* Variant: the child is drawn with its parent's path.
Descend_SamePath ==
  /\ calls # << >>
  /\ NextChild \in shape
  /\ calls' = Append([calls EXCEPT ![Len(calls)].i = @ + 1],
                     Activation(NextChild, cur.path))
  /\ UNCHANGED <<shape, arrays, written, above, block, failed, e>>

\* p.writeTree(child, append(path, i)) for the next child.
Descend ==
  /\ calls # << >>
  /\ NextChild \in shape
  /\ LET a == Appended(cur.path, cur.i) IN
       /\ arrays' = a.arrays
       /\ calls' = Append([calls EXCEPT ![Len(calls)].i = @ + 1],
                          Activation(NextChild, a.slice))
  /\ UNCHANGED <<shape, written, above, block, failed, e>>

\* Variants: a node may be drawn before its children are; only the last
\* failure counts.
WriteTrace_Early ==
  /\ calls # << >>
  /\ block' = TraceLines(Contents(cur.path), 1, FALSE)
  /\ above' = IF block = << >> THEN << >> ELSE Last(block)
  /\ written' = Append(written, cur.node)
  /\ calls' = Front(calls)
  /\ UNCHANGED <<shape, arrays, failed, e>>

WriteTrace_LastFailure ==
  /\ calls # << >>
  /\ NextChild \notin shape
  /\ \E bad \in BOOLEAN :
       /\ failed' = (failed \/ bad)
       /\ e' = bad
  /\ block' = TraceLines(Contents(cur.path), 1, FALSE)
  /\ above' = IF block = << >> THEN << >> ELSE Last(block)
  /\ written' = Append(written, cur.node)
  /\ calls' = Front(calls)
  /\ UNCHANGED <<shape, arrays>>

\* All children are written: writeTrace, and the call returns.  Each write may
\* fail on its own; p.err joins what failed and the rest is still written.
WriteTrace ==
  /\ calls # << >>
  /\ NextChild \notin shape
  /\ \E lines \in 1 .. MaxLines, hasTrace, bad \in BOOLEAN :
       /\ block' = TraceLines(Contents(cur.path), lines, hasTrace)
       /\ failed' = (failed \/ bad)
       /\ e' = (e \/ bad)
  /\ above' = IF block = << >> THEN << >> ELSE Last(block)
  /\ written' = Append(written, cur.node)
  /\ calls' = Front(calls)
  /\ UNCHANGED <<shape, arrays>>

Next == Descend \/ WriteTrace

Spec == Init /\ [][Next]_vars /\ WF_vars(Next)
----------------------------------------------------------------------------
\* Type invariant; the path slice of a call is as long as the call is deep.
TypeOK ==
  /\ \A k \in 1 .. Len(calls) :
       /\ calls[k].node \in shape
       /\ calls[k].path.array \in ArrayIds \union {None}
       /\ calls[k].path.len = Len(calls[k].node)
  /\ written \in Seq(shape)

(***************************************************************************)
(* Every call, also one suspended while its children are drawn, reads its  *)
(* own path from its slice, although siblings and their descendants append *)
(* to shared arrays.                                                       *)
(***************************************************************************)
PathsIntact ==
  \A k \in 1 .. Len(calls) : Contents(calls[k].path) = calls[k].node

(***************************************************************************)
(* The pipes connect ("we don't draw a pipe because it won't have anything *)
(* above it to connect to", comment on pipes): a pipe continues the column *)
(* above it, and a column ends only at the line of the node it hangs from. *)
(***************************************************************************)
Line(l, d) == d \in 1 .. Len(l) /\ l[d] # " "

Connected(upper, lower) ==
  /\ \A d \in 1 .. Len(lower) : lower[d] = "|" => Line(upper, d)
  /\ \A d \in 1 .. Len(upper) :
       Line(upper, d) =>
         \/ Line(lower, d)
         \/ Len(lower) = d - 1 /\ (d > 1 => lower[d - 1] = "+")

PipesConnected ==
  LET lines == (IF Len(written) > 1 THEN <<above>> ELSE << >>) \o block
  IN  \A k \in 1 .. Len(lines) - 1 : Connected(lines[k], lines[k + 1])

(***************************************************************************)
(* "We print in depth-first order" (comment in writeTrace): every node of  *)
(* the tree is drawn once, below all it contains and its earlier siblings. *)
(***************************************************************************)
LeftOf(p, q) ==
  \E d \in 1 .. Len(p) :
    /\ d <= Len(q)
    /\ \A k \in 1 .. d - 1 : p[k] = q[k]
    /\ p[d] < q[d]

Below(p, q) == IsStrictPrefix(q, p) \/ LeftOf(p, q)

DepthFirst ==
  /\ \A i, j \in 1 .. Len(written) : i < j => Below(written[i], written[j])
  /\ calls = << >> => ToSet(written) = shape

\* "Returns an error if the writer fails" (Format, errtrace.go), also when
\* later writes succeed; and none if no write failed.
FailureReported == calls = << >> => (e <=> failed)
============================================================================
