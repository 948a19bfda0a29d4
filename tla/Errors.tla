------------------------------- MODULE Errors -------------------------------
(***************************************************************************)
(* The wrapping API (wrap.go, errors.go, wrap_caller.go, func wrap of      *)
(* errtrace.go) on top of the arena: wrap takes an object from the arena   *)
(* and then fills its two fields with two separate, unsynchronised writes. *)
(***************************************************************************)
EXTENDS Arena

CONSTANTS
  Bases,      \* errors made elsewhere
  Sites,      \* program counters
  Nil,        \* the nil error
  NilCallers  \* does the program call Caller.Wrap with a nil error?

ASSUME ErrorsAssumption ==
  /\ Slots \intersect Bases = {}
  /\ Nil \notin Slots \union Bases
  /\ None \notin Slots
  /\ 0 \notin Sites
  /\ NilCallers \in BOOLEAN

VARIABLES
  heap,   \* contents of the errTrace objects of the slabs
  call,   \* arguments of the wrap call of each goroutine
  stage,  \* where each goroutine is inside wrap
  et      \* wrap's local variable et

wrapVars == <<heap, call, stage, et>>
vars == <<arenaVars, wrapVars>>

ErrorValues == Slots \union Bases \union {Nil}
NoCall == [err |-> Nil, pc |-> 0]
Stages == {"idle", "take", "err", "pc", "return"}

\* The errTrace objects the program holds.
Published == {p \in Alive : \A g \in Goroutines : et[g] # p}
----------------------------------------------------------------------------
Init ==
  /\ ArenaInit
  /\ heap = [p \in Slots |-> NoCall]
  /\ call = [g \in Goroutines |-> NoCall]
  /\ stage = [g \in Goroutines |-> "idle"]
  /\ et = [g \in Goroutines |-> None]

Step(g, from, to) == stage[g] = from /\ stage' = [stage EXCEPT ![g] = to]

\* wrap(err, callerPC) is entered.
Enter(g, e, s) ==
  /\ Step(g, "idle", "take")
  /\ Call(g)
  /\ call' = [call EXCEPT ![g] = [err |-> e, pc |-> s]]
  /\ UNCHANGED <<heap, et>>

\* Variant: nil is not checked for.
Wrap_Unchecked(g, e, s) == Enter(g, e, s)

\* Wrap, Wrap2 ... Wrap6.  Of a nil error they return nil and do nothing.
Wrap(g, e, s) == e # Nil /\ Enter(g, e, s)

\* New and Errorf wrap an error they just made.
New(g, b, s) == Enter(g, b, s)

\* Caller.Wrap passes its argument on unchecked; s was captured by GetCaller.
CallerWrap(g, e, s) == (e # Nil \/ NilCallers) /\ Enter(g, e, s)

\* One step of arena.Take; a new slab is zeroed memory.
Taking(g) ==
  /\ stage[g] = "take"
  /\ \/ /\ PoolMiss(g) \/ TakeFull(g) \/ TakePtr(g) \/ TakeBump(g) \/ PoolPut(g)
        /\ UNCHANGED wrapVars
     \/ \E s \in SlabIds : PoolHit(g, s) /\ UNCHANGED wrapVars
     \/ \E s \in SlabIds :
          /\ NewSlab(g, s)
          /\ heap' = [p \in Slots |-> IF p[1] = s THEN NoCall ELSE heap[p]]
          /\ UNCHANGED <<call, stage, et>>

\* et := _arena.Take()
Taken(g) ==
  /\ Step(g, "take", "err")
  /\ Return(g)
  /\ et' = [et EXCEPT ![g] = Obj(g)]
  /\ UNCHANGED <<heap, call>>

\* et.err = err
WriteErr(g) ==
  /\ Step(g, "err", "pc")
  /\ heap' = [heap EXCEPT ![et[g]].err = call[g].err]
  /\ UNCHANGED <<arenaVars, call, et>>

\* Variant: the program counter is left as it was.
WritePC_Skipped(g) ==
  /\ Step(g, "pc", "return")
  /\ UNCHANGED <<arenaVars, heap, call, et>>

\* et.pc = callerPC
WritePC(g) ==
  /\ Step(g, "pc", "return")
  /\ heap' = [heap EXCEPT ![et[g]].pc = call[g].pc]
  /\ UNCHANGED <<arenaVars, call, et>>

\* return et
WrapReturn(g) ==
  /\ Step(g, "return", "idle")
  /\ et' = [et EXCEPT ![g] = None]
  /\ call' = [call EXCEPT ![g] = NoCall]
  /\ UNCHANGED <<arenaVars, heap>>

\* Variant: being wrapped by another error does not keep an error alive.
ForgetError_Wrapped(p) ==
  /\ p \in Published
  /\ \A g \in Goroutines : call[g].err # p
  /\ Forget(p)
  /\ UNCHANGED wrapVars

\* The program loses its last reference to p.
ForgetError(p) ==
  /\ p \in Published
  /\ \A q \in Published : heap[q].err # p
  /\ \A g \in Goroutines : call[g].err # p
  /\ Forget(p)
  /\ UNCHANGED wrapVars

Next ==
  \/ \E g \in Goroutines, s \in Sites, e \in Published \union Bases \union {Nil} :
       Wrap(g, e, s) \/ CallerWrap(g, e, s)
  \/ \E g \in Goroutines, s \in Sites, b \in Bases : New(g, b, s)
  \/ \E g \in Goroutines :
       Taking(g) \/ Taken(g) \/ WriteErr(g) \/ WritePC(g) \/ WrapReturn(g)
  \/ \E p \in Slots : ForgetError(p)
  \/ Collect /\ UNCHANGED wrapVars

Spec == Init /\ [][Next]_vars
----------------------------------------------------------------------------
\* Type invariant; et is an object of a slab, never a pointer past its end.
WrapTypeOK ==
  /\ heap \in [Slots -> [err : ErrorValues, pc : Sites \union {0}]]
  /\ call \in [Goroutines -> [err : ErrorValues, pc : Sites \union {0}]]
  /\ stage \in [Goroutines -> Stages]
  /\ et \in [Goroutines -> Slots \union {None}]

\* The records a program sees, and the calls it waits for.
Store == INSTANCE ErrorStore WITH
  Ids <- Slots,
  store <- [p \in Published |-> heap[p]],
  pending <- [g \in Goroutines |-> IF stage[g] = "idle" THEN NoCall ELSE call[g]]

(***************************************************************************)
(* Wrapping over the arena implements the store of immutable records: each *)
(* call answers with a record of its own that holds its arguments and that *)
(* no later call, slab reuse or concurrent write ever changes.             *)
(***************************************************************************)
Refines == Store!StoreSpec

\* See ErrorStore: Error() and buildTraceTree terminate on every chain.
ChainsEnd == Store!ChainsEnd

\* See ErrorStore: no errTrace refers to memory that may be reused.
NoDangling == Store!NoDangling

\* See ErrorStore: no errTrace wraps nil.
NoNilInside == Store!NoNilInside
============================================================================
