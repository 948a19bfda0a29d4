----------------------------- MODULE TraceTree -----------------------------
(***************************************************************************)
(* UnwrapFrame (unwrap.go) and buildTraceTree (tree.go): the walk over an  *)
(* error and everything it wraps that collects the return traces as a      *)
(* tree.  An error is one of Errs and wraps only smaller ones, as errors   *)
(* are built inside out.  The tree is kept flat, one node per path, where  *)
(* path <<i, j>> is the j-th child of the i-th child of the root.          *)
(***************************************************************************)
EXTENDS Naturals, Sequences, SequencesExt

CONSTANTS
  N,        \* number of errors
  MaxKids,  \* bound: errors inside one multi-error
  PCMulti   \* are there errors with both TracePC and Unwrap() []error?

ASSUME TraceTreeAssumption == N \in Nat \ {0} /\ MaxKids \in Nat /\ PCMulti \in BOOLEAN

VARIABLES
  errs,   \* the methods of each error and what they return
  calls,  \* active buildTraceTree calls, innermost last
  tree    \* nodes of the tree returned so far

vars == <<errs, calls, tree>>

Errs == 1 .. N
Nil == 0

\* frame: no TracePC method, one whose PC has a frame, or one whose PC has none.
\* unwrap: no Unwrap method, Unwrap() error, or Unwrap() []error.
\* Unwrap() error may return nil; a []error holds no nil.
ErrorsWrapping(S) ==
  [frame : {"none", "known", "unknown"}, unwrap : {"none"}, next : {Nil}, kids : {<< >>}]
    \union
  [frame : {"none", "known", "unknown"}, unwrap : {"one"}, next : S \union {Nil}, kids : {<< >>}]
    \union
  [frame : IF PCMulti THEN {"none", "known", "unknown"} ELSE {"none", "unknown"},
   unwrap : {"many"}, next : {Nil}, kids : UNION {[1 .. k -> S] : k \in 0 .. MaxKids}]

\* UnwrapFrame.  errors.Unwrap only calls an Unwrap() error.
UnwrapFrame(e) ==
  LET inner == IF errs[e].unwrap = "one" THEN errs[e].next ELSE Nil
  IN  IF e = Nil \/ errs[e].frame = "none"
      THEN [inner |-> e, ok |-> FALSE]
      ELSE [inner |-> inner, ok |-> errs[e].frame = "known"]
----------------------------------------------------------------------------
\* The locals of a buildTraceTree call: the error given, err as it is
\* overwritten, current.Trace, and the errors of the multi-error left to do.
Activation(path, e) ==
  [path |-> path, given |-> e, err |-> e, trace |-> << >>, kids |-> << >>, i |-> 0]

Init ==
  /\ errs \in {f \in [Errs -> UNION {ErrorsWrapping(1 .. e - 1) : e \in Errs}] :
                 \A e \in Errs : f[e] \in ErrorsWrapping(1 .. e - 1)}
  /\ calls = <<Activation(<< >>, N)>>
  /\ tree = {}

cur == calls[Len(calls)]
Update(c) == calls' = [calls EXCEPT ![Len(calls)] = c]
HasUnwrap(u) == cur.err # Nil /\ errs[cur.err].unwrap = u
Looping == calls # << >> /\ cur.i = 0

\* The frame is appended and the loop continues with the inner error.
TakeFrame ==
  /\ Looping
  /\ UnwrapFrame(cur.err).ok
  /\ Update([cur EXCEPT !.trace = Append(@, cur.err), !.err = UnwrapFrame(cur.err).inner])
  /\ UNCHANGED <<errs, tree>>

\* Variant: x.Unwrap() is called and its result not assigned.
UnwrapOne_Stuck ==
  /\ Looping
  /\ ~UnwrapFrame(cur.err).ok
  /\ HasUnwrap("one")
  /\ UNCHANGED vars

\* case interface{ Unwrap() error }
UnwrapOne ==
  /\ Looping
  /\ ~UnwrapFrame(cur.err).ok
  /\ HasUnwrap("one")
  /\ Update([cur EXCEPT !.err = errs[@].next])
  /\ UNCHANGED <<errs, tree>>

\* Variant: a multi-error continues the chain with its first error.
UnwrapMany_Flattened ==
  /\ Looping
  /\ ~UnwrapFrame(cur.err).ok
  /\ HasUnwrap("many")
  /\ Update([cur EXCEPT !.err =
       IF errs[@].kids = << >> THEN Nil ELSE errs[@].kids[1]])
  /\ UNCHANGED <<errs, tree>>

\* case interface{ Unwrap() []error }: a call for each of the errors, in order.
UnwrapMany ==
  /\ Looping
  /\ ~UnwrapFrame(cur.err).ok
  /\ HasUnwrap("many")
  /\ Update([cur EXCEPT !.kids = errs[cur.err].kids, !.i = 1])
  /\ UNCHANGED <<errs, tree>>

\* Variant: the err of the loop is not the err around it.
Child_Shadowed ==
  /\ calls # << >>
  /\ cur.i \in 1 .. Len(cur.kids)
  /\ calls' = Append([calls EXCEPT ![Len(calls)].i = @ + 1],
                     Activation(Append(cur.path, cur.i), cur.err))
  /\ UNCHANGED <<errs, tree>>

Child ==
  /\ calls # << >>
  /\ cur.i \in 1 .. Len(cur.kids)
  /\ calls' = Append([calls EXCEPT ![Len(calls)].i = @ + 1],
                     Activation(Append(cur.path, cur.i), cur.kids[cur.i]))
  /\ UNCHANGED <<errs, tree>>

\* Variant: the trace is not reversed.
Finish_Unreversed ==
  /\ calls # << >>
  /\ \/ cur.i > Len(cur.kids)
     \/ /\ Looping
        /\ ~UnwrapFrame(cur.err).ok
        /\ ~HasUnwrap("one") /\ ~HasUnwrap("many")
  /\ tree' = tree \union {[path |-> cur.path, err |-> cur.given, trace |-> cur.trace]}
  /\ calls' = Front(calls)
  /\ UNCHANGED errs

\* default, or all children done: the trace is reversed and the call returns.
Finish ==
  /\ calls # << >>
  /\ \/ cur.i > Len(cur.kids)
     \/ /\ Looping
        /\ ~UnwrapFrame(cur.err).ok
        /\ ~HasUnwrap("one") /\ ~HasUnwrap("many")
  /\ tree' = tree \union
       {[path |-> cur.path, err |-> cur.given, trace |-> Reverse(cur.trace)]}
  /\ calls' = Front(calls)
  /\ UNCHANGED errs

Next == TakeFrame \/ UnwrapOne \/ UnwrapMany \/ Child \/ Finish

Spec == Init /\ [][Next]_vars /\ WF_vars(Next)
----------------------------------------------------------------------------
(***************************************************************************)
(* The reference: the comments on Format and traceTree, as definitions.    *)
(***************************************************************************)
\* The errors of the chain from e that have a frame, outermost first.
Frames[e \in 0 .. N] ==
  IF e = Nil THEN << >>
  ELSE (IF errs[e].frame = "known" THEN <<e>> ELSE << >>) \o Frames[errs[e].next]

\* The trace of e: the frames down to the first multi-error, deepest first.
TraceOf(e) == Reverse(Frames[e])

\* The error that the chain from e ends with, a multi-error or the innermost.
End[e \in Errs] == IF errs[e].next = Nil THEN e ELSE End[errs[e].next]

\* "The errors inside the multi-error", if the chain of e ends in one.
KidsOf(e) == errs[End[e]].kids

\* What is below p in the tree, from the nodes of the subtree.
Under(p, nodes) == {[n EXCEPT !.path = p \o @] : n \in nodes}

\* The nodes of the whole tree: a node for each error inside a multi-error.
NodesBelow[e \in Errs] ==
  {[path |-> << >>, err |-> e, trace |-> TraceOf(e)]}
    \union
  UNION {Under(<<i>>, NodesBelow[KidsOf(e)[i]]) : i \in 1 .. Len(KidsOf(e))}

\* Type invariant; the recursion is no deeper than errors are nested.
TypeOK ==
  /\ \A k \in 1 .. Len(calls) :
       /\ calls[k].err \in 0 .. N
       /\ calls[k].given \in Errs
       /\ calls[k].i \in 0 .. Len(calls[k].kids) + 1
  /\ Len(calls) <= N

(***************************************************************************)
(* The tree that is returned has a node for every error inside a           *)
(* multi-error, with the trace of its own chain, whatever mix of frames,   *)
(* missing frames, nil Unwraps and shared errors the chains hold.  "If the *)
(* error is comprised of multiple errors, the return trace of each error   *)
(* is reported as a tree" (Format, errtrace.go).                           *)
(***************************************************************************)
EachErrorReported == calls = << >> => tree = NodesBelow[N]

(***************************************************************************)
(* A caller that uses UnwrapFrame in the loop shown in the package comment *)
(* sees the outermost frames of the root's trace, in the opposite order,   *)
(* and nothing else.                                                       *)
(***************************************************************************)
UnwrapLoop[e \in 0 .. N] ==
  IF UnwrapFrame(e).ok THEN <<e>> \o UnwrapLoop[UnwrapFrame(e).inner] ELSE << >>

UnwrapLoopAgrees ==
  calls = << >> =>
    \A n \in tree : IsPrefix(UnwrapLoop[n.err], Reverse(n.trace))

\* buildTraceTree returns: the loop has no bound of its own.
Terminates == <>(calls = << >>)
============================================================================
