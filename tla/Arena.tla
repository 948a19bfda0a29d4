------------------------------- MODULE Arena -------------------------------
(***************************************************************************)
(* The slab allocator of arena.go that hands out errTrace objects.         *)
(*                                                                         *)
(* Goroutines call arena.Take concurrently.  A slab is fetched from a      *)
(* sync.Pool, one object is cut from it without any lock, and the slab is  *)
(* put back.  Exclusive use of a slab between Get and Put is all that      *)
(* keeps two goroutines from receiving the same object, so the read of     *)
(* slab.idx and its increment are separate steps here.                     *)
(*                                                                         *)
(* The pool belongs to the Go runtime: Get may miss although the pool is   *)
(* not empty (pools are per-P), a garbage collection may drop pooled slabs *)
(* at any moment, and the memory of an unreachable slab is reused.         *)
(***************************************************************************)
EXTENDS Naturals, FiniteSets

CONSTANTS
  Goroutines,  \* callers of Take
  SlabIds,     \* addresses a slab can have; bounds the slabs alive at once
  SlabSize,    \* arena.slabSize
  MaxLive,     \* bound: objects alive or being allocated at once
  None

ASSUME SlabSizeAssumption == SlabSize \in Nat \ {0}
ASSUME NoneAssumption == None \notin SlabIds

VARIABLES
  pc,     \* where each goroutine is inside Take
  slab,   \* Take's local variable slab
  at,     \* index read from slab.idx by slab.take()
  made,   \* slabs allocated and not reclaimed
  idx,    \* arenaSlab.idx
  pool,   \* how many times each slab is in the sync.Pool
  live    \* how many callers of Take were handed each object and keep it

arenaVars == <<pc, slab, at, made, idx, pool, live>>

Index == 0 .. SlabSize - 1

\* An object is a slot of a slab: &slab.buf[i].
Slots == SlabIds \X Index

Labels == {"idle", "get", "new", "take", "bump", "put", "done"}

\* Take has the slab to itself: between Get (or make) and Put.
Busy(g) == pc[g] \in {"take", "bump", "put"}

\* slab.take() has computed its pointer; Take returns it.
HasObj(g) == pc[g] \in {"bump", "put", "done"}
Obj(g) == <<slab[g], at[g]>>

\* Variant: objects handed out do not keep their slab.
Pinned_NotByObjects(s) == pool[s] > 0 \/ \E g \in Goroutines : slab[g] = s

\* The garbage collector finds a pointer into the slab.
Pinned(s) ==
  \/ pool[s] > 0
  \/ \E g \in Goroutines : slab[g] = s
  \/ \E i \in Index : live[<<s, i>>] > 0

Alive == {p \in Slots : live[p] > 0}
Calling == {g \in Goroutines : pc[g] # "idle"}
----------------------------------------------------------------------------
ArenaInit ==
  /\ pc = [g \in Goroutines |-> "idle"]
  /\ slab = [g \in Goroutines |-> None]
  /\ at = [g \in Goroutines |-> 0]
  /\ made = {}
  /\ idx = [s \in SlabIds |-> 0]
  /\ pool = [s \in SlabIds |-> 0]
  /\ live = [p \in Slots |-> 0]

Goto(g, l) == pc' = [pc EXCEPT ![g] = l]

\* Take is entered; MaxLive caps what the program allocates.
Call(g) ==
  /\ pc[g] = "idle"
  /\ Cardinality(Alive) + Cardinality(Calling) < MaxLive
  /\ Goto(g, "get")
  /\ UNCHANGED <<slab, at, made, idx, pool, live>>

\* Variant: the pool lends the slab and keeps it.
PoolHit_Shared(g, s) ==
  /\ pc[g] = "get"
  /\ pool[s] > 0
  /\ slab' = [slab EXCEPT ![g] = s]
  /\ Goto(g, "take")
  /\ UNCHANGED <<at, made, idx, pool, live>>

\* a.pool.Get() returns a pooled slab: the caller now has it to itself ...
PoolHit(g, s) ==
  /\ pc[g] = "get"
  /\ pool[s] > 0
  /\ pool' = [pool EXCEPT ![s] = @ - 1]
  /\ slab' = [slab EXCEPT ![g] = s]
  /\ Goto(g, "take")
  /\ UNCHANGED <<at, made, idx, live>>

\* ... or nil, so the type assertion fails, also when another P has slabs.
PoolMiss(g) ==
  /\ pc[g] = "get"
  /\ Goto(g, "new")
  /\ UNCHANGED <<slab, at, made, idx, pool, live>>

\* newArenaSlab: a fresh buffer, idx zero.
NewSlab(g, s) ==
  /\ pc[g] = "new"
  /\ s \notin made
  /\ made' = made \union {s}
  /\ idx' = [idx EXCEPT ![s] = 0]
  /\ slab' = [slab EXCEPT ![g] = s]
  /\ Goto(g, "take")
  /\ UNCHANGED <<at, pool, live>>

\* Variant: the used up slab goes back to the pool.
TakeFull_PutBack(g) ==
  /\ pc[g] = "take"
  /\ idx[slab[g]] >= SlabSize
  /\ pool' = [pool EXCEPT ![slab[g]] = @ + 1]
  /\ slab' = [slab EXCEPT ![g] = None]
  /\ Goto(g, "get")
  /\ UNCHANGED <<at, made, idx, live>>

\* slab.take() finds the slab used up: it is dropped, not put back, and the
\* for loop asks the pool again.
TakeFull(g) ==
  /\ pc[g] = "take"
  /\ idx[slab[g]] >= SlabSize
  /\ slab' = [slab EXCEPT ![g] = None]
  /\ Goto(g, "get")
  /\ UNCHANGED <<at, made, idx, pool, live>>

\* Variant: off by one at the end of the slab.
TakePtr_OffByOne(g) ==
  /\ pc[g] = "take"
  /\ idx[slab[g]] <= SlabSize
  /\ at' = [at EXCEPT ![g] = idx[slab[g]]]
  /\ Goto(g, "bump")
  /\ UNCHANGED <<slab, made, idx, pool, live>>

\* slab.take() has room: ptr := &a.buf[a.idx] ...
TakePtr(g) ==
  /\ pc[g] = "take"
  /\ idx[slab[g]] < SlabSize
  /\ at' = [at EXCEPT ![g] = idx[slab[g]]]
  /\ Goto(g, "bump")
  /\ UNCHANGED <<slab, made, idx, pool, live>>

\* Variant: the increment is lost.
TakeBump_Lost(g) ==
  /\ pc[g] = "bump"
  /\ Goto(g, "put")
  /\ UNCHANGED <<slab, at, made, idx, pool, live>>

\* ... then a.idx++.
TakeBump(g) ==
  /\ pc[g] = "bump"
  /\ idx' = [idx EXCEPT ![slab[g]] = @ + 1]
  /\ Goto(g, "put")
  /\ UNCHANGED <<slab, at, made, pool, live>>

\* a.pool.Put(slab): from here on any goroutine may get the slab.
PoolPut(g) ==
  /\ pc[g] = "put"
  /\ pool' = [pool EXCEPT ![slab[g]] = @ + 1]
  /\ Goto(g, "done")
  /\ UNCHANGED <<slab, at, made, idx, live>>

\* Take returns the pointer to its caller.
Return(g) ==
  /\ pc[g] = "done"
  /\ live' = [live EXCEPT ![Obj(g)] = @ + 1]
  /\ slab' = [slab EXCEPT ![g] = None]
  /\ at' = [at EXCEPT ![g] = 0]
  /\ Goto(g, "idle")
  /\ UNCHANGED <<made, idx, pool>>

\* The program forgets an object it was handed.
Forget(p) ==
  /\ live[p] > 0
  /\ live' = [live EXCEPT ![p] = @ - 1]
  /\ UNCHANGED <<pc, slab, at, made, idx, pool>>

\* A garbage collection empties (a part of) the pool ...
PoolDrop(s) ==
  /\ pool[s] > 0
  /\ pool' = [pool EXCEPT ![s] = @ - 1]
  /\ UNCHANGED <<pc, slab, at, made, idx, live>>

\* ... and frees a slab nothing points into any more.
Reclaim(s) ==
  /\ s \in made
  /\ ~Pinned(s)
  /\ made' = made \ {s}
  /\ UNCHANGED <<pc, slab, at, idx, pool, live>>
----------------------------------------------------------------------------
\* One step of goroutine g inside Take.
Work(g) ==
  \/ \E s \in SlabIds : PoolHit(g, s) \/ NewSlab(g, s)
  \/ PoolMiss(g)
  \/ TakeFull(g)
  \/ TakePtr(g)
  \/ TakeBump(g)
  \/ PoolPut(g)
  \/ Return(g)

Collect == \E s \in SlabIds : PoolDrop(s) \/ Reclaim(s)

ArenaNext ==
  \/ \E g \in Goroutines : Call(g) \/ Work(g)
  \/ \E p \in Slots : Forget(p)
  \/ Collect

ArenaSpec == ArenaInit /\ [][ArenaNext]_arenaVars

----------------------------------------------------------------------------
\* Type invariant; slab.idx never runs past len(slab.buf), so &buf[idx] is in range.
ArenaTypeOK ==
  /\ pc \in [Goroutines -> Labels]
  /\ slab \in [Goroutines -> SlabIds \union {None}]
  /\ at \in [Goroutines -> Index]
  /\ made \subseteq SlabIds
  /\ idx \in [SlabIds -> 0 .. SlabSize]
  /\ pool \in [SlabIds -> Nat]
  /\ live \in [Slots -> Nat]

(***************************************************************************)
(* A slab between Get and Put belongs to one goroutine: no other goroutine *)
(* works on it, the pool does not hold it, and the pool never holds a slab *)
(* twice.  This is the exclusion arena.Take relies on instead of a lock.   *)
(***************************************************************************)
SlabExclusive ==
  /\ \A g \in Goroutines : Busy(g) => pool[slab[g]] = 0
  /\ \A g, h \in Goroutines : g # h /\ Busy(g) /\ Busy(h) => slab[g] # slab[h]
  /\ \A s \in SlabIds : pool[s] <= 1

(***************************************************************************)
(* Take never hands out an object somebody still has: not to two callers   *)
(* that keep it, and not to a caller while another one is about to return  *)
(* it, across slabs that were refilled, dropped, collected and reused.     *)
(***************************************************************************)
NoAlias ==
  /\ \A p \in Slots : live[p] <= 1
  /\ \A g \in Goroutines : HasObj(g) => live[Obj(g)] = 0
  /\ \A g, h \in Goroutines : g # h /\ HasObj(g) /\ HasObj(h) => Obj(g) # Obj(h)

\* What the two rest on: slab.idx separates the objects handed out from the
\* rest of the slab, and slabs in use are not reclaimed.
CutBelowIdx ==
  /\ \A s \in SlabIds, i \in Index : live[<<s, i>>] > 0 => i < idx[s] /\ s \in made
  /\ \A g \in Goroutines :
       /\ pc[g] \in {"put", "done"} => at[g] < idx[slab[g]]
       /\ pc[g] = "bump" => at[g] = idx[slab[g]]
       /\ slab[g] # None <=> pc[g] \in {"take", "bump", "put", "done"}
       /\ slab[g] # None => slab[g] \in made
  /\ \A s \in SlabIds : pool[s] > 0 => s \in made

ArenaInv == ArenaTypeOK /\ SlabExclusive /\ NoAlias /\ CutBelowIdx

(***************************************************************************)
(* Liveness.  Only the goroutines in Running are scheduled; the others may *)
(* stop for good anywhere inside Take.  The collector runs.                *)
(***************************************************************************)
CONSTANT Running

ArenaFairness ==
  /\ \A g \in Running : WF_arenaVars(Work(g))
  /\ \A s \in SlabIds : WF_arenaVars(PoolDrop(s)) /\ WF_arenaVars(Reclaim(s))

ArenaLiveSpec == ArenaSpec /\ ArenaFairness

(***************************************************************************)
(* "arena is a lock-free allocator" (arena.go): while a scheduled          *)
(* goroutine is inside Take, some Take returns, even if other goroutines   *)
(* stopped while they held a slab.  The loop of Take must make progress    *)
(* although full slabs are dropped and the pool may keep missing.          *)
(***************************************************************************)
LockFree ==
  \/ []<>(\A g \in Running : pc[g] = "idle")
  \/ []<><<\E g \in Goroutines : Return(g)>>_arenaVars
============================================================================
