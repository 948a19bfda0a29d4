----------------------------- MODULE ErrorStore -----------------------------
(***************************************************************************)
(* What errtrace promises the code that wraps errors: a store of immutable *)
(* records.  A call to Wrap, New, Errorf or Caller.Wrap is invoked with an *)
(* error and a call site and answers with a new record that holds exactly  *)
(* those two.  Nothing is said of slabs, pools or the order of writes.     *)
(***************************************************************************)
EXTENDS Naturals, FiniteSets

CONSTANTS
  Goroutines,
  Ids,         \* identities of records (pointers)
  Bases,       \* errors made elsewhere (errors.New, fmt.Errorf, ...)
  Sites,       \* program counters of call sites
  Nil,         \* the nil error
  NoCall

VARIABLES
  store,    \* the records the program can reach
  pending   \* the call each goroutine has in flight

storeVars == <<store, pending>>

Records == [err : Ids \union Bases \union {Nil}, pc : Sites]

\* What the constants must satisfy; the theorems have it as a hypothesis.
Distinct ==
  /\ Ids \intersect Bases = {}
  /\ Nil \notin Ids \union Bases
  /\ NoCall \notin Records

\* Every error value the program has at hand.
Known == DOMAIN store \union Bases

StoreInit ==
  /\ store = [id \in {} |-> NoCall]
  /\ pending = [g \in Goroutines |-> NoCall]

\* e = Nil only reaches a record through an API that does not check.
Invoke(g, e, s) ==
  /\ pending[g] = NoCall
  /\ e \in Known \union {Nil}
  /\ pending' = [pending EXCEPT ![g] = [err |-> e, pc |-> s]]
  /\ UNCHANGED store

Respond(g, id) ==
  /\ pending[g] # NoCall
  /\ id \notin DOMAIN store
  /\ store' = [p \in DOMAIN store \union {id} |->
                 IF p = id THEN pending[g] ELSE store[p]]
  /\ pending' = [pending EXCEPT ![g] = NoCall]

\* A record nobody refers to any more is forgotten; its identity is free.
Drop(id) ==
  /\ id \in DOMAIN store
  /\ \A p \in DOMAIN store : store[p].err # id
  /\ \A g \in Goroutines : pending[g] # NoCall => pending[g].err # id
  /\ store' = [p \in DOMAIN store \ {id} |-> store[p]]
  /\ UNCHANGED pending

StoreNext ==
  \/ \E g \in Goroutines, e \in Known \union {Nil}, s \in Sites : Invoke(g, e, s)
  \/ \E g \in Goroutines, id \in Ids : Respond(g, id)
  \/ \E id \in Ids : Drop(id)

StoreSpec == StoreInit /\ [][StoreNext]_storeVars
----------------------------------------------------------------------------
\* Type invariant.
StoreTypeOK ==
  /\ DOMAIN store \subseteq Ids
  /\ store \in [DOMAIN store -> Records]
  /\ pending \in [Goroutines -> Records \union {NoCall}]

(***************************************************************************)
(* Every chain of wrapped errors ends: no set of records in which each one *)
(* wraps a member of the set.  Error() and buildTraceTree walk the chain   *)
(* with no check for cycles, so they only return because of this.          *)
(***************************************************************************)
ChainsEnd ==
  \A S \in SUBSET DOMAIN store :
    S # {} => \E p \in S : store[p].err \notin S

\* No record wraps a record whose memory may be reused.
NoDangling == \A p \in DOMAIN store : store[p].err \in Known \union {Nil}

(***************************************************************************)
(* "If err is nil, Wrap returns nil" (wrap.go): no record wraps nil.  The  *)
(* Error method of one that did would call a method of a nil interface.    *)
(***************************************************************************)
NoNilInside == \A p \in DOMAIN store : store[p].err # Nil
============================================================================
