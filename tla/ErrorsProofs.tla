---------------------------- MODULE ErrorsProofs ----------------------------
(***************************************************************************)
(* The exclusion arguments of arena.go, and on them that wrapping over the *)
(* arena implements the store of immutable records; for any number of      *)
(* goroutines, slabs, slots, errors and call sites.                        *)
(***************************************************************************)
EXTENDS Errors, TLAPS

\* The empty arena satisfies the inductive invariant.
LEMMA ArenaInitInv == ArenaInit => ArenaInv
BY SlabSizeAssumption, NoneAssumption
   DEF ArenaInit, ArenaInv, ArenaTypeOK, SlabExclusive, NoAlias, CutBelowIdx,
       Busy, HasObj, Obj, Index, Slots, Labels

\* Every step of Take, of the program and of the collector preserves it.
LEMMA ArenaStepInv == ArenaInv /\ [ArenaNext]_arenaVars => ArenaInv'
<1> SUFFICES ASSUME ArenaInv, [ArenaNext]_arenaVars
             PROVE  ArenaInv'
  OBVIOUS
<1> USE SlabSizeAssumption, NoneAssumption DEF ArenaInv
<1>1. ASSUME NEW g \in Goroutines, Call(g)
     PROVE  ArenaInv'
  <2> USE <1>1 DEF Call, Goto, Labels, Index, Slots
  <2>1. ArenaTypeOK'
    BY DEF ArenaTypeOK, CutBelowIdx, Obj
  <2>2. SlabExclusive'
    BY DEF ArenaTypeOK, SlabExclusive, CutBelowIdx, Busy
  <2>3. NoAlias'
    BY DEF ArenaTypeOK, SlabExclusive, NoAlias, CutBelowIdx, Busy, HasObj, Obj
  <2>4. CutBelowIdx'
    BY DEF ArenaTypeOK, SlabExclusive, CutBelowIdx, NoAlias, Busy, HasObj, Obj, Pinned
  <2> QED BY <2>1, <2>2, <2>3, <2>4
<1>2. ASSUME NEW g \in Goroutines, NEW s \in SlabIds, PoolHit(g, s)
     PROVE  ArenaInv'
  <2> USE <1>2 DEF PoolHit, Goto, Labels, Index, Slots
  <2>1. ArenaTypeOK'
    BY DEF ArenaTypeOK, CutBelowIdx, Obj
  <2>2. SlabExclusive'
    BY DEF ArenaTypeOK, SlabExclusive, CutBelowIdx, Busy
  <2>3. NoAlias'
    BY DEF ArenaTypeOK, SlabExclusive, NoAlias, CutBelowIdx, Busy, HasObj, Obj
  <2>4. CutBelowIdx'
    BY DEF ArenaTypeOK, SlabExclusive, CutBelowIdx, NoAlias, Busy, HasObj, Obj, Pinned
  <2> QED BY <2>1, <2>2, <2>3, <2>4
<1>3. ASSUME NEW g \in Goroutines, PoolMiss(g)
     PROVE  ArenaInv'
  <2> USE <1>3 DEF PoolMiss, Goto, Labels, Index, Slots
  <2>1. ArenaTypeOK'
    BY DEF ArenaTypeOK, CutBelowIdx, Obj
  <2>2. SlabExclusive'
    BY DEF ArenaTypeOK, SlabExclusive, CutBelowIdx, Busy
  <2>3. NoAlias'
    BY DEF ArenaTypeOK, SlabExclusive, NoAlias, CutBelowIdx, Busy, HasObj, Obj
  <2>4. CutBelowIdx'
    BY DEF ArenaTypeOK, SlabExclusive, CutBelowIdx, NoAlias, Busy, HasObj, Obj, Pinned
  <2> QED BY <2>1, <2>2, <2>3, <2>4
<1>4. ASSUME NEW g \in Goroutines, NEW s \in SlabIds, NewSlab(g, s)
     PROVE  ArenaInv'
  <2> USE <1>4 DEF NewSlab, Goto, Labels, Index, Slots
  <2>1. ArenaTypeOK'
    BY DEF ArenaTypeOK, CutBelowIdx, Obj
  <2>2. SlabExclusive'
    BY DEF ArenaTypeOK, SlabExclusive, CutBelowIdx, Busy
  <2>3. NoAlias'
    BY DEF ArenaTypeOK, SlabExclusive, NoAlias, CutBelowIdx, Busy, HasObj, Obj
  <2>4. CutBelowIdx'
    BY DEF ArenaTypeOK, SlabExclusive, CutBelowIdx, NoAlias, Busy, HasObj, Obj, Pinned
  <2> QED BY <2>1, <2>2, <2>3, <2>4
<1>5. ASSUME NEW g \in Goroutines, TakeFull(g)
     PROVE  ArenaInv'
  <2> USE <1>5 DEF TakeFull, Goto, Labels, Index, Slots
  <2>1. ArenaTypeOK'
    BY DEF ArenaTypeOK, CutBelowIdx, Obj
  <2>2. SlabExclusive'
    BY DEF ArenaTypeOK, SlabExclusive, CutBelowIdx, Busy
  <2>3. NoAlias'
    BY DEF ArenaTypeOK, SlabExclusive, NoAlias, CutBelowIdx, Busy, HasObj, Obj
  <2>4. CutBelowIdx'
    BY DEF ArenaTypeOK, SlabExclusive, CutBelowIdx, NoAlias, Busy, HasObj, Obj, Pinned
  <2> QED BY <2>1, <2>2, <2>3, <2>4
<1>6. ASSUME NEW g \in Goroutines, TakePtr(g)
     PROVE  ArenaInv'
  <2> USE <1>6 DEF TakePtr, Goto, Labels, Index, Slots
  <2>1. ArenaTypeOK'
    BY DEF ArenaTypeOK, CutBelowIdx, Obj
  <2>2. SlabExclusive'
    BY DEF ArenaTypeOK, SlabExclusive, CutBelowIdx, Busy
  <2>3. NoAlias'
    BY DEF ArenaTypeOK, SlabExclusive, NoAlias, CutBelowIdx, Busy, HasObj, Obj
  <2>4. CutBelowIdx'
    BY DEF ArenaTypeOK, SlabExclusive, CutBelowIdx, NoAlias, Busy, HasObj, Obj, Pinned
  <2> QED BY <2>1, <2>2, <2>3, <2>4
<1>7. ASSUME NEW g \in Goroutines, TakeBump(g)
     PROVE  ArenaInv'
  <2> USE <1>7 DEF TakeBump, Goto, Labels, Index, Slots
  <2>1. ArenaTypeOK'
    BY DEF ArenaTypeOK, CutBelowIdx, Obj
  <2>2. SlabExclusive'
    BY DEF ArenaTypeOK, SlabExclusive, CutBelowIdx, Busy
  <2>3. NoAlias'
    BY DEF ArenaTypeOK, SlabExclusive, NoAlias, CutBelowIdx, Busy, HasObj, Obj
  <2>4. CutBelowIdx'
    BY DEF ArenaTypeOK, SlabExclusive, CutBelowIdx, NoAlias, Busy, HasObj, Obj, Pinned
  <2> QED BY <2>1, <2>2, <2>3, <2>4
<1>8. ASSUME NEW g \in Goroutines, PoolPut(g)
     PROVE  ArenaInv'
  <2> USE <1>8 DEF PoolPut, Goto, Labels, Index, Slots
  <2>1. ArenaTypeOK'
    BY DEF ArenaTypeOK, CutBelowIdx, Obj
  <2>2. SlabExclusive'
    BY DEF ArenaTypeOK, SlabExclusive, CutBelowIdx, Busy
  <2>3. NoAlias'
    BY DEF ArenaTypeOK, SlabExclusive, NoAlias, CutBelowIdx, Busy, HasObj, Obj
  <2>4. CutBelowIdx'
    BY DEF ArenaTypeOK, SlabExclusive, CutBelowIdx, NoAlias, Busy, HasObj, Obj, Pinned
  <2> QED BY <2>1, <2>2, <2>3, <2>4
<1>9. ASSUME NEW g \in Goroutines, Return(g)
     PROVE  ArenaInv'
  <2> USE <1>9 DEF Return, Goto, Labels, Index, Slots
  <2>1. ArenaTypeOK'
    BY DEF ArenaTypeOK, CutBelowIdx, Obj
  <2>2. SlabExclusive'
    BY DEF ArenaTypeOK, SlabExclusive, CutBelowIdx, Busy
  <2>3. NoAlias'
    BY DEF ArenaTypeOK, SlabExclusive, NoAlias, CutBelowIdx, Busy, HasObj, Obj
  <2>4. CutBelowIdx'
    BY DEF ArenaTypeOK, SlabExclusive, CutBelowIdx, NoAlias, Busy, HasObj, Obj, Pinned
  <2> QED BY <2>1, <2>2, <2>3, <2>4
<1>10. ASSUME NEW p \in Slots, Forget(p)
     PROVE  ArenaInv'
  <2> USE <1>10 DEF Forget, Labels, Index, Slots
  <2>1. ArenaTypeOK'
    BY DEF ArenaTypeOK, CutBelowIdx, Obj
  <2>2. SlabExclusive'
    BY DEF ArenaTypeOK, SlabExclusive, CutBelowIdx, Busy
  <2>3. NoAlias'
    BY DEF ArenaTypeOK, SlabExclusive, NoAlias, CutBelowIdx, Busy, HasObj, Obj
  <2>4. CutBelowIdx'
    BY DEF ArenaTypeOK, SlabExclusive, CutBelowIdx, NoAlias, Busy, HasObj, Obj, Pinned
  <2> QED BY <2>1, <2>2, <2>3, <2>4
<1>11. ASSUME NEW s \in SlabIds, PoolDrop(s)
     PROVE  ArenaInv'
  <2> USE <1>11 DEF PoolDrop, Labels, Index, Slots
  <2>1. ArenaTypeOK'
    BY DEF ArenaTypeOK, CutBelowIdx, Obj
  <2>2. SlabExclusive'
    BY DEF ArenaTypeOK, SlabExclusive, CutBelowIdx, Busy
  <2>3. NoAlias'
    BY DEF ArenaTypeOK, SlabExclusive, NoAlias, CutBelowIdx, Busy, HasObj, Obj
  <2>4. CutBelowIdx'
    BY DEF ArenaTypeOK, SlabExclusive, CutBelowIdx, NoAlias, Busy, HasObj, Obj, Pinned
  <2> QED BY <2>1, <2>2, <2>3, <2>4
<1>12. ASSUME NEW s \in SlabIds, Reclaim(s)
     PROVE  ArenaInv'
  <2> USE <1>12 DEF Reclaim, Labels, Index, Slots
  <2>1. ArenaTypeOK'
    BY DEF ArenaTypeOK, CutBelowIdx, Obj
  <2>2. SlabExclusive'
    BY DEF ArenaTypeOK, SlabExclusive, CutBelowIdx, Busy
  <2>3. NoAlias'
    BY DEF ArenaTypeOK, SlabExclusive, NoAlias, CutBelowIdx, Busy, HasObj, Obj
  <2>4. CutBelowIdx'
    BY DEF ArenaTypeOK, SlabExclusive, CutBelowIdx, NoAlias, Busy, HasObj, Obj, Pinned
  <2> QED BY <2>1, <2>2, <2>3, <2>4
<1>13. CASE UNCHANGED arenaVars
  BY <1>13 DEF arenaVars, ArenaTypeOK, SlabExclusive, NoAlias, CutBelowIdx,
               Busy, HasObj, Obj
<1> QED
  BY <1>1, <1>2, <1>3, <1>4, <1>5, <1>6, <1>7, <1>8, <1>9, <1>10, <1>11, <1>12,
     <1>13
     DEF ArenaNext, Work, Collect

\* The inductive invariant holds throughout every behaviour of the allocator.
THEOREM ArenaInvariant == ArenaSpec => []ArenaInv
BY ArenaInitInv, ArenaStepInv, PTL DEF ArenaSpec

\* Type correctness of the allocator's state (arena.go).
THEOREM ArenaTypeCorrect == ArenaSpec => []ArenaTypeOK
BY ArenaInvariant, PTL DEF ArenaInv

\* A slab between pool.Get and pool.Put in Take is used by one goroutine only,
\* so slab.take() needs no lock.
THEOREM ArenaSlabExclusive == ArenaSpec => []SlabExclusive
BY ArenaInvariant, PTL DEF ArenaInv

\* Take never returns a pointer somebody else still holds.
THEOREM ArenaNoAlias == ArenaSpec => []NoAlias
BY ArenaInvariant, PTL DEF ArenaInv

\* slab.idx separates handed-out objects from free ones, and no slab in use is
\* reclaimed.
THEOREM ArenaCutBelowIdx == ArenaSpec => []CutBelowIdx
BY ArenaInvariant, PTL DEF ArenaInv
----------------------------------------------------------------------------
(***************************************************************************)
(* Wrapping over the arena.                                                *)
(***************************************************************************)
\* Where wrap is, what it has in et, and how much of *et it has written.
WrapProgress ==
  \A g \in Goroutines :
    /\ stage[g] = "idle" => pc[g] = "idle" /\ et[g] = None
    /\ stage[g] = "take" => et[g] = None
    /\ stage[g] \in {"err", "pc", "return"} =>
         et[g] \in Slots /\ live[et[g]] > 0 /\ pc[g] = "idle"
    /\ stage[g] \in {"pc", "return"} => heap[et[g]].err = call[g].err
    /\ stage[g] = "return" => heap[et[g]].pc = call[g].pc
    /\ stage[g] # "idle" => call[g].pc \in Sites

\* No two calls of wrap fill the same object.
OwnEt ==
  \A g, h \in Goroutines : g # h /\ et[g] # None => et[g] # et[h]

WrapInv == ArenaInv /\ WrapTypeOK /\ WrapProgress /\ OwnEt

\* The program before its first error satisfies the inductive invariant.
LEMMA WrapInitInv == Init => WrapInv
<1> SUFFICES ASSUME Init PROVE WrapInv
  OBVIOUS
<1>1. ArenaInv
  BY ArenaInitInv DEF Init
<1>2. WrapTypeOK /\ WrapProgress /\ OwnEt
  BY DEF Init, ArenaInit, WrapTypeOK, WrapProgress, OwnEt, NoCall, ErrorValues, Stages
<1> QED BY <1>1, <1>2 DEF WrapInv

\* Each step of wrap is at most one step of the allocator.
LEMMA WrapStepsArena == [Next]_vars => [ArenaNext]_arenaVars
BY DEF Next, vars, Wrap, New, CallerWrap, Enter, Taking, Taken, WriteErr, WritePC,
       WrapReturn, ForgetError, ArenaNext, Work, arenaVars

\* What Take returns is held by nobody.
LEMMA TakenFresh ==
  ASSUME WrapInv, NEW g \in Goroutines, Taken(g)
  PROVE  Obj(g) \in Slots /\ live[Obj(g)] = 0 /\ \A h \in Goroutines : et[h] # Obj(g)
<1>1. Obj(g) \in Slots
  BY DEF Taken, Return, WrapInv, ArenaInv, ArenaTypeOK, CutBelowIdx, Obj, Slots
<1>2. live[Obj(g)] = 0
  BY DEF Taken, Return, WrapInv, ArenaInv, NoAlias, HasObj
<1>3. ASSUME NEW h \in Goroutines, et[h] = Obj(g) PROVE FALSE
  <2>1. et[h] # None
    BY <1>1, <1>3, ErrorsAssumption
  <2>2. stage[h] \in {"err", "pc", "return"}
    BY <2>1 DEF WrapInv, WrapProgress, WrapTypeOK, Stages
  <2> QED BY <2>2, <1>2, <1>3 DEF WrapInv, WrapProgress
<1> QED BY <1>1, <1>2, <1>3

\* Every step of wrap, of the program and of the collector preserves it.
LEMMA WrapStepInv == WrapInv /\ [Next]_vars => WrapInv'
<1> SUFFICES ASSUME WrapInv, [Next]_vars PROVE WrapInv'
  OBVIOUS
<1>a. ArenaInv'
  BY ArenaStepInv, WrapStepsArena DEF WrapInv
<1> DEFINE Rest == WrapTypeOK /\ WrapProgress /\ OwnEt
<1>1. ASSUME NEW g \in Goroutines, NEW s \in Sites,
             NEW e \in Slots \union Bases \union {Nil}, Enter(g, e, s)
      PROVE  Rest'
  BY <1>1 DEF Enter, Step, Call, Goto, WrapInv, ArenaInv, ArenaTypeOK, WrapTypeOK,
              WrapProgress, OwnEt, ErrorValues, Stages
<1>2. ASSUME NEW g \in Goroutines, Taking(g)
      PROVE  Rest'
  <2>1. /\ UNCHANGED <<call, stage, et, live>>
        /\ stage[g] = "take"
        /\ \A h \in Goroutines : h # g => pc'[h] = pc[h]
    BY <1>2 DEF Taking, wrapVars, PoolMiss, TakeFull, TakePtr, TakeBump, PoolPut,
                PoolHit, NewSlab, Goto, WrapInv, ArenaInv, ArenaTypeOK
  <2>2. /\ heap' \in [Slots -> [err : ErrorValues, pc : Sites \union {0}]]
        /\ \A p \in Slots : live[p] > 0 => heap'[p] = heap[p]
    <3>1. CASE UNCHANGED heap
      BY <3>1 DEF WrapInv, WrapTypeOK
    <3>2. ASSUME NEW s \in SlabIds, NewSlab(g, s),
                 heap' = [p \in Slots |-> IF p[1] = s THEN NoCall ELSE heap[p]]
          PROVE  <2>2
      <4>1. \A p \in Slots : live[p] > 0 => p[1] # s
        BY <3>2 DEF NewSlab, WrapInv, ArenaInv, CutBelowIdx, Slots
      <4> QED BY <4>1, <3>2 DEF WrapInv, WrapTypeOK, NoCall, ErrorValues
    <3> QED BY <3>1, <3>2, <1>2 DEF Taking, wrapVars
  <2>3. WrapTypeOK' /\ OwnEt'
    BY <2>1, <2>2 DEF WrapInv, WrapTypeOK, OwnEt
  <2>4. WrapProgress'
    BY <2>1, <2>2 DEF WrapInv, WrapProgress
  <2> QED BY <2>3, <2>4
<1>3. ASSUME NEW g \in Goroutines, Taken(g)
      PROVE  Rest'
  <2>1. Obj(g) \in Slots /\ live[Obj(g)] = 0 /\ \A h \in Goroutines : et[h] # Obj(g)
    BY <1>3, TakenFresh
  <2>2. /\ UNCHANGED <<heap, call>>
        /\ et' = [et EXCEPT ![g] = Obj(g)]
        /\ stage[g] = "take" /\ stage' = [stage EXCEPT ![g] = "err"]
        /\ pc' = [pc EXCEPT ![g] = "idle"]
        /\ live' = [live EXCEPT ![Obj(g)] = @ + 1]
    BY <1>3 DEF Taken, Step, Return, Goto
  <2>3. live'[Obj(g)] > 0 /\ \A p \in Slots : live[p] > 0 => live'[p] > 0
    BY <2>1, <2>2 DEF WrapInv, ArenaInv, ArenaTypeOK
  <2>4. WrapTypeOK'
    BY <2>1, <2>2 DEF WrapInv, WrapTypeOK, Stages
  <2>5. OwnEt'
    BY <2>1, <2>2 DEF WrapInv, WrapTypeOK, OwnEt
  <2>6. WrapProgress'
    BY <2>1, <2>2, <2>3 DEF WrapInv, WrapTypeOK, WrapProgress, ArenaInv, ArenaTypeOK
  <2> QED BY <2>4, <2>5, <2>6
<1>4. ASSUME NEW g \in Goroutines, WriteErr(g)
      PROVE  Rest'
  <2>1. /\ UNCHANGED <<arenaVars, call, et>>
        /\ stage[g] = "err" /\ stage' = [stage EXCEPT ![g] = "pc"]
        /\ heap' = [heap EXCEPT ![et[g]].err = call[g].err]
    BY <1>4 DEF WriteErr, Step
  <2>2. et[g] \in Slots /\ et[g] # None
    BY <2>1, ErrorsAssumption DEF WrapInv, WrapProgress
  <2>3. /\ heap'[et[g]].err = call[g].err
        /\ \A h \in Goroutines : h # g => heap'[et[h]] = heap[et[h]]
    BY <2>1, <2>2 DEF WrapInv, WrapTypeOK, OwnEt
  <2>5. WrapTypeOK' /\ OwnEt'
    BY <2>1, <2>2 DEF WrapInv, WrapTypeOK, OwnEt, Stages
  <2>6. WrapProgress'
    BY <2>1, <2>2, <2>3 DEF arenaVars, WrapInv, WrapTypeOK, WrapProgress
  <2> QED BY <2>5, <2>6
<1>5. ASSUME NEW g \in Goroutines, WritePC(g)
      PROVE  Rest'
  <2>1. /\ UNCHANGED <<arenaVars, call, et>>
        /\ stage[g] = "pc" /\ stage' = [stage EXCEPT ![g] = "return"]
        /\ heap' = [heap EXCEPT ![et[g]].pc = call[g].pc]
    BY <1>5 DEF WritePC, Step
  <2>2. et[g] \in Slots /\ et[g] # None
    BY <2>1, ErrorsAssumption DEF WrapInv, WrapProgress
  <2>3. /\ heap'[et[g]].pc = call[g].pc
        /\ \A h \in Goroutines : h # g => heap'[et[h]] = heap[et[h]]
    BY <2>1, <2>2 DEF WrapInv, WrapTypeOK, OwnEt
  <2>4. heap'[et[g]].err = heap[et[g]].err
    BY <2>1, <2>2 DEF WrapInv, WrapTypeOK
  <2>5. WrapTypeOK' /\ OwnEt'
    BY <2>1, <2>2 DEF WrapInv, WrapTypeOK, OwnEt, Stages
  <2>6. WrapProgress'
    BY <2>1, <2>2, <2>3, <2>4 DEF arenaVars, WrapInv, WrapTypeOK, WrapProgress
  <2> QED BY <2>5, <2>6
<1>6. ASSUME NEW g \in Goroutines, WrapReturn(g)
      PROVE  Rest'
  BY <1>6 DEF WrapReturn, Step, arenaVars, WrapInv, WrapTypeOK, WrapProgress, OwnEt,
              ErrorValues, NoCall, Stages
<1>7. ASSUME NEW p \in Slots, ForgetError(p)
      PROVE  Rest'
  <2>1. \A q \in Slots : q # p => live'[q] = live[q]
    BY <1>7 DEF ForgetError, Forget, WrapInv, ArenaInv, ArenaTypeOK
  <2>2. \A g \in Goroutines : et[g] # p
    BY <1>7 DEF ForgetError, Published
  <2> QED BY <1>7, <2>1, <2>2
          DEF ForgetError, Forget, wrapVars, WrapInv, WrapTypeOK, WrapProgress, OwnEt
<1>8. ASSUME Collect, UNCHANGED wrapVars
      PROVE  Rest'
  BY <1>8 DEF Collect, PoolDrop, Reclaim, wrapVars, WrapInv, WrapTypeOK, WrapProgress, OwnEt
<1>9. ASSUME UNCHANGED vars
      PROVE  Rest'
  BY <1>9 DEF vars, arenaVars, wrapVars, WrapInv, WrapTypeOK, WrapProgress, OwnEt
<1>10. Rest'
  <2>1. Published \subseteq Slots
    BY DEF Published, Alive
  <2> QED BY <2>1, <1>1, <1>2, <1>3, <1>4, <1>5, <1>6, <1>7, <1>8, <1>9
          DEF Next, Wrap, New, CallerWrap
<1> QED BY <1>a, <1>10 DEF WrapInv
----------------------------------------------------------------------------
(***************************************************************************)
(* The refinement.  A call is pending while wrap runs, and the store gains *)
(* the record at wrap's return; all steps in between change neither.       *)
(***************************************************************************)
\* Initially the store is empty.
LEMMA RefInit == Init => Store!StoreInit
<1> SUFFICES ASSUME Init PROVE Store!StoreInit
  OBVIOUS
<1>1. Published = {}
  BY DEF Init, ArenaInit, Published, Alive
<1>2. \A g \in Goroutines : stage[g] = "idle"
  BY DEF Init
<1> QED BY <1>1, <1>2 DEF Store!StoreInit

\* A step that changes no published object and no call in flight is a stutter.
LEMMA StutterStep ==
  ASSUME UNCHANGED <<call, stage>>, Published' = Published,
         \A p \in Published : heap'[p] = heap[p]
  PROVE  UNCHANGED Store!storeVars
<1>1. [p \in Published |-> heap[p]]' = [p \in Published |-> heap[p]]
  OBVIOUS
<1>2. [g \in Goroutines |-> IF stage[g] = "idle" THEN NoCall ELSE call[g]]'
        = [g \in Goroutines |-> IF stage[g] = "idle" THEN NoCall ELSE call[g]]
  OBVIOUS
<1> QED BY <1>1, <1>2 DEF Store!storeVars
\* Entering wrap is the invocation.
LEMMA EnterInvokes ==
  ASSUME WrapInv, NEW g \in Goroutines, NEW s \in Sites,
         NEW e \in Published \union Bases \union {Nil}, Enter(g, e, s)
  PROVE  Store!StoreNext
<1>1. UNCHANGED <<live, et, heap>>
  BY DEF Enter, Call
<1>2. Published' = Published
  BY <1>1 DEF Published, Alive
<1>3. [p \in Published |-> heap[p]]' = [p \in Published |-> heap[p]]
  BY <1>1, <1>2
<1>4. /\ stage[g] = "idle" /\ stage' = [stage EXCEPT ![g] = "take"]
      /\ call' = [call EXCEPT ![g] = [err |-> e, pc |-> s]]
  BY DEF Enter, Step
<1> DEFINE pending == [h \in Goroutines |-> IF stage[h] = "idle" THEN NoCall ELSE call[h]]
<1>5. pending[g] = NoCall
  BY <1>4
<1>6. pending' = [pending EXCEPT ![g] = [err |-> e, pc |-> s]]
  BY <1>4 DEF WrapInv, WrapTypeOK
<1>7. Store!Invoke(g, e, s)
  BY <1>3, <1>5, <1>6 DEF Store!Invoke, Store!Known
<1> QED BY <1>7 DEF Store!StoreNext, Store!Known

\* wrap's return is the response: the object is filled and becomes a record.
LEMMA ReturnResponds ==
  ASSUME WrapInv, NEW g \in Goroutines, WrapReturn(g)
  PROVE  Store!StoreNext
<1> DEFINE pending == [h \in Goroutines |-> IF stage[h] = "idle" THEN NoCall ELSE call[h]]
           store == [p \in Published |-> heap[p]]
<1>1. /\ stage[g] = "return" /\ stage' = [stage EXCEPT ![g] = "idle"]
      /\ et' = [et EXCEPT ![g] = None]
      /\ call' = [call EXCEPT ![g] = NoCall]
      /\ UNCHANGED <<live, heap>>
  BY DEF WrapReturn, Step, arenaVars
<1>2. PICK id \in Slots : id = et[g] /\ id # None /\ live[id] > 0
  BY <1>1, ErrorsAssumption DEF WrapInv, WrapProgress
<1>3. Published' = Published \union {id} /\ id \notin Published
  BY <1>1, <1>2, ErrorsAssumption DEF Published, Alive, WrapInv, WrapTypeOK, OwnEt
<1>4. heap[id] = call[g]
  <2>1. heap[id].err = call[g].err /\ heap[id].pc = call[g].pc
    BY <1>1, <1>2 DEF WrapInv, WrapProgress
  <2> QED BY <2>1, <1>2 DEF WrapInv, WrapTypeOK
<1>5. pending[g] = call[g] /\ pending[g] # NoCall
  BY <1>1, ErrorsAssumption DEF WrapInv, WrapProgress, NoCall
<1>6. pending' = [pending EXCEPT ![g] = NoCall]
  BY <1>1 DEF WrapInv, WrapTypeOK
<1>7. store' = [p \in DOMAIN store \union {id} |-> IF p = id THEN pending[g] ELSE store[p]]
  BY <1>1, <1>3, <1>4, <1>5
<1>8. Store!Respond(g, id)
  BY <1>3, <1>5, <1>6, <1>7 DEF Store!Respond
<1> QED BY <1>8 DEF Store!StoreNext

\* Forgetting an unreferenced error drops its record.
LEMMA ForgetDrops ==
  ASSUME WrapInv, NEW id \in Slots, ForgetError(id)
  PROVE  Store!StoreNext
<1> DEFINE pending == [h \in Goroutines |-> IF stage[h] = "idle" THEN NoCall ELSE call[h]]
           store == [p \in Published |-> heap[p]]
<1>1. /\ id \in Published
      /\ \A q \in Published : heap[q].err # id
      /\ \A g \in Goroutines : call[g].err # id
      /\ live' = [live EXCEPT ![id] = @ - 1]
      /\ UNCHANGED <<heap, call, stage, et>>
  BY DEF ForgetError, Forget, wrapVars
<1>2. live[id] = 1
  BY <1>1 DEF Published, Alive, WrapInv, ArenaInv, ArenaTypeOK, NoAlias
<1>3. Published' = Published \ {id}
  BY <1>1, <1>2 DEF Published, Alive, WrapInv, ArenaInv, ArenaTypeOK
<1>4. store' = [p \in DOMAIN store \ {id} |-> store[p]] /\ UNCHANGED pending
  BY <1>1, <1>3
<1>5. /\ id \in DOMAIN store
      /\ \A p \in DOMAIN store : store[p].err # id
      /\ \A g \in Goroutines : pending[g] # NoCall => pending[g].err # id
  BY <1>1
<1>6. Store!Drop(id)
  BY <1>4, <1>5 DEF Store!Drop
<1> QED BY <1>6 DEF Store!StoreNext

\* The steps in between touch nothing the program can see.
LEMMA InnerStutters ==
  ASSUME WrapInv, NEW g \in Goroutines,
         Taking(g) \/ Taken(g) \/ WriteErr(g) \/ WritePC(g)
  PROVE  UNCHANGED Store!storeVars
<1>1. CASE Taking(g)
  <2>1. UNCHANGED <<call, stage, et, live>>
    BY <1>1 DEF Taking, wrapVars, PoolMiss, TakeFull, TakePtr, TakeBump, PoolPut,
                PoolHit, NewSlab
  <2>2. Published' = Published /\ Published \subseteq Slots
    BY <2>1 DEF Published, Alive
  <2>3. ASSUME NEW p \in Published PROVE heap'[p] = heap[p]
    <3>1. CASE UNCHANGED heap
      BY <3>1
    <3>2. ASSUME NEW s \in SlabIds, NewSlab(g, s),
                 heap' = [q \in Slots |-> IF q[1] = s THEN NoCall ELSE heap[q]]
          PROVE  heap'[p] = heap[p]
      <4>1. p[1] # s
        BY <3>2, <2>2 DEF NewSlab, WrapInv, ArenaInv, CutBelowIdx, Slots, Published, Alive
      <4> QED BY <4>1, <3>2, <2>2
    <3> QED BY <3>1, <3>2, <1>1 DEF Taking, wrapVars
  <2> QED BY <2>1, <2>2, <2>3, StutterStep
<1>2. CASE Taken(g)
  <2>1. Obj(g) \in Slots /\ live[Obj(g)] = 0
    BY <1>2, TakenFresh
  <2>2. /\ et' = [et EXCEPT ![g] = Obj(g)] /\ et[g] = None
        /\ live' = [live EXCEPT ![Obj(g)] = @ + 1]
        /\ UNCHANGED <<heap, call>>
    BY <1>2 DEF Taken, Step, Return, WrapInv, WrapProgress
  <2>3. Published' = Published
    BY <2>1, <2>2, ErrorsAssumption DEF Published, Alive, WrapInv, WrapTypeOK, ArenaInv, ArenaTypeOK
  <2>4. [h \in Goroutines |-> IF stage[h] = "idle" THEN NoCall ELSE call[h]]'
          = [h \in Goroutines |-> IF stage[h] = "idle" THEN NoCall ELSE call[h]]
    BY <1>2, <2>2 DEF Taken, Step, WrapInv, WrapTypeOK
  <2>5. [p \in Published |-> heap[p]]' = [p \in Published |-> heap[p]]
    BY <2>2, <2>3
  <2> QED BY <2>4, <2>5 DEF Store!storeVars
<1>3. CASE WriteErr(g) \/ WritePC(g)
  <2>1. /\ UNCHANGED <<live, call, et>> /\ et[g] \in Slots
        /\ \A p \in Published : heap'[p] = heap[p]
    BY <1>3 DEF WriteErr, WritePC, Step, arenaVars, WrapInv, WrapTypeOK, WrapProgress,
                Published, Alive
  <2>2. Published' = Published
    BY <2>1 DEF Published, Alive
  <2>3. [h \in Goroutines |-> IF stage[h] = "idle" THEN NoCall ELSE call[h]]'
          = [h \in Goroutines |-> IF stage[h] = "idle" THEN NoCall ELSE call[h]]
    BY <1>3, <2>1 DEF WriteErr, WritePC, Step, WrapInv, WrapTypeOK
  <2>4. [p \in Published |-> heap[p]]' = [p \in Published |-> heap[p]]
    BY <2>1, <2>2
  <2> QED BY <2>3, <2>4 DEF Store!storeVars
<1> QED BY <1>1, <1>2, <1>3

\* Every step of wrap is a step of the store or a stutter.
LEMMA RefStep == WrapInv /\ [Next]_vars => [Store!StoreNext]_(Store!storeVars)
<1> SUFFICES ASSUME WrapInv, [Next]_vars
             PROVE  Store!StoreNext \/ UNCHANGED Store!storeVars
  OBVIOUS
<1>1. ASSUME NEW g \in Goroutines, NEW s \in Sites,
             NEW e \in Published \union Bases \union {Nil}, Enter(g, e, s)
      PROVE  Store!StoreNext
  BY <1>1, EnterInvokes
<1>2. ASSUME Collect, UNCHANGED wrapVars
      PROVE  UNCHANGED Store!storeVars
  BY <1>2, StutterStep DEF Collect, PoolDrop, Reclaim, wrapVars, Published, Alive
<1>3. ASSUME UNCHANGED vars
      PROVE  UNCHANGED Store!storeVars
  BY <1>3, StutterStep DEF vars, arenaVars, wrapVars, Published, Alive
<1> QED
  BY <1>1, <1>2, <1>3, ReturnResponds, ForgetDrops, InnerStutters
     DEF Next, Wrap, New, CallerWrap

\* Inductive invariant: the arena's, and how far each wrap has filled its object.
THEOREM WrapInvariant == Spec => []WrapInv
BY WrapInitInv, WrapStepInv, PTL DEF Spec

\* Type correctness of wrap's state.
THEOREM WrapTypeCorrect == Spec => []WrapTypeOK
BY WrapInvariant, PTL DEF WrapInv

\* Whatever goroutines and collections do, a wrapped error is an immutable
\* record of the error and the call site it was given.
THEOREM WrapRefinesStore == Spec => Refines
<1>1. Store!StoreInit /\ [][Store!StoreNext]_(Store!storeVars) => Refines
  BY DEF Refines, Store!StoreSpec
<1> QED BY <1>1, RefInit, RefStep, WrapInvariant, PTL DEF Spec

----------------------------------------------------------------------------
\* What is proved of every store holds of the one wrap implements.
StoreP == INSTANCE ErrorStoreProofs WITH
  Ids <- Slots,
  store <- [p \in Published |-> heap[p]],
  pending <- [g \in Goroutines |-> IF stage[g] = "idle" THEN NoCall ELSE call[g]]

\* Slots and NoCall are what ErrorStore asks of its constants.
LEMMA StoreDistinct == StoreP!Distinct
BY ErrorsAssumption DEF StoreP!Distinct, StoreP!Records, NoCall

\* The store's inductive invariant holds initially ...
LEMMA StoreInitCarried == Store!StoreInit => StoreP!StoreInv
<1>1. Store!StoreInit => StoreP!StoreInit
  BY DEF Store!StoreInit, StoreP!StoreInit
<1> QED BY <1>1, StoreP!StoreInitInv

\* ... and the steps wrap takes on the store preserve it.
LEMMA StoreStepCarried ==
  StoreP!StoreInv /\ [Store!StoreNext]_(Store!storeVars) => StoreP!StoreInv'
<1>1. [Store!StoreNext]_(Store!storeVars) => [StoreP!StoreNext]_(StoreP!storeVars)
  BY DEF Store!StoreNext, Store!storeVars, Store!Invoke, Store!Respond, Store!Drop,
         Store!Known, StoreP!StoreNext, StoreP!storeVars, StoreP!Invoke,
         StoreP!Respond, StoreP!Drop, StoreP!Known
<1> QED BY <1>1, StoreP!StoreStepInv, StoreDistinct

\* The store's inductive invariant holds of what wrap implements.
THEOREM WrapStoreInvariant == Spec => []StoreP!StoreInv
BY WrapInvariant, RefInit, RefStep, StoreInitCarried, StoreStepCarried, PTL DEF Spec

\* Error() and buildTraceTree return on every error wrap hands out: the chain
\* of errTrace objects that starts at it ends, although slabs are reused.
THEOREM WrapChainsEnd == Spec => []ChainsEnd
<1>1. StoreP!StoreInv => ChainsEnd
  BY DEF StoreP!StoreInv, StoreP!ChainsEnd, ChainsEnd, Store!ChainsEnd
<1> QED BY <1>1, WrapStoreInvariant, PTL

\* No errTrace the program holds refers to an object that may be handed out
\* again.
THEOREM WrapNoDangling == Spec => []NoDangling
<1>1. StoreP!StoreInv => NoDangling
  BY DEF StoreP!StoreInv, StoreP!NoDangling, StoreP!Known, NoDangling,
         Store!NoDangling, Store!Known
<1> QED BY <1>1, WrapStoreInvariant, PTL

----------------------------------------------------------------------------
\* No call in flight has nil to wrap, and no error handed out wraps it.
NonNil ==
  /\ \A g \in Goroutines : stage[g] # "idle" => call[g].err # Nil
  /\ NoNilInside

\* Without a caller that passes nil on, no step lets nil into an error.
LEMMA NonNilStep ==
  ASSUME ~NilCallers, WrapInv, NonNil, [Next]_vars
  PROVE  NonNil'
<1> USE ErrorsAssumption
<1>1. ASSUME NEW g \in Goroutines, NEW s \in Sites,
             NEW e \in Published \union Bases \union {Nil},
             Wrap(g, e, s) \/ CallerWrap(g, e, s) \/ (e \in Bases /\ New(g, e, s))
      PROVE  NonNil'
  <2>1. e # Nil /\ Enter(g, e, s)
    BY <1>1 DEF Wrap, CallerWrap, New
  <2>2. Published' = Published /\ UNCHANGED heap
    BY <2>1 DEF Enter, Call, Published, Alive
  <2> QED BY <2>1, <2>2 DEF NonNil, NoNilInside, Store!NoNilInside, Enter, Step,
                            WrapInv, WrapTypeOK
<1>2. ASSUME NEW g \in Goroutines, WrapReturn(g)
      PROVE  NonNil'
  <2>1. Published' \subseteq Published \union {et[g]} /\ UNCHANGED heap
    BY <1>2 DEF WrapReturn, arenaVars, Published, Alive, WrapInv, WrapTypeOK
  <2>2. heap[et[g]].err # Nil
    BY <1>2 DEF WrapReturn, Step, NonNil, WrapInv, WrapProgress
  <2> QED BY <1>2, <2>1, <2>2 DEF NonNil, NoNilInside, Store!NoNilInside, WrapReturn,
                                 Step, WrapInv, WrapTypeOK
<1>3. ASSUME NEW p \in Slots, ForgetError(p)
      PROVE  NonNil'
  <2>1. Published' \subseteq Published /\ UNCHANGED <<heap, call, stage>>
    BY <1>3 DEF ForgetError, Forget, wrapVars, Published, Alive, WrapInv, ArenaInv,
               ArenaTypeOK
  <2> QED BY <2>1 DEF NonNil, NoNilInside, Store!NoNilInside
<1>4. ASSUME NEW g \in Goroutines,
             Taking(g) \/ Taken(g) \/ WriteErr(g) \/ WritePC(g)
      PROVE  NonNil'
  <2>1. UNCHANGED Store!storeVars
    BY <1>4, InnerStutters
  <2>2. [p \in Published |-> heap[p]]' = [p \in Published |-> heap[p]]
    BY <2>1 DEF Store!storeVars
  <2>3. UNCHANGED call /\ stage[g] # "idle" /\ \A h \in Goroutines : h # g => stage'[h] = stage[h]
    BY <1>4 DEF Taking, Taken, WriteErr, WritePC, Step, wrapVars, WrapInv, WrapTypeOK
  <2>4. NoNilInside'
    BY <2>2 DEF NonNil, NoNilInside, Store!NoNilInside
  <2> QED BY <2>3, <2>4 DEF NonNil
<1>5. ASSUME (Collect /\ UNCHANGED wrapVars) \/ UNCHANGED vars
      PROVE  NonNil'
  <2>1. UNCHANGED <<heap, call, stage, et, live>>
    BY <1>5 DEF Collect, PoolDrop, Reclaim, wrapVars, vars, arenaVars
  <2> QED BY <2>1 DEF NonNil, NoNilInside, Store!NoNilInside, Published, Alive
<1> QED BY <1>1, <1>2, <1>3, <1>4, <1>5 DEF Next

\* "If err is nil, Wrap returns nil": as long as no program passes nil to
\* Caller.Wrap, which does not check, no error handed out wraps nil.
THEOREM WrapNoNilInside ==
  ASSUME ~NilCallers
  PROVE  Spec => []NoNilInside
<1>1. Init => NonNil
  BY DEF Init, ArenaInit, NonNil, NoNilInside, Store!NoNilInside, Published, Alive
<1>2. WrapInv /\ NonNil /\ [Next]_vars => NonNil'
  BY NonNilStep
<1>3. NonNil => NoNilInside
  BY DEF NonNil
<1> QED BY <1>1, <1>2, <1>3, WrapInvariant, PTL DEF Spec
============================================================================
