-------------------------- MODULE ErrorStoreProofs --------------------------
(***************************************************************************)
(* What follows from the promise of ErrorStore alone, for any number of    *)
(* goroutines, identities and call sites: chains of wrapped errors end.    *)
(***************************************************************************)
EXTENDS ErrorStore, TLAPS

\* The error a call in flight will wrap is still there when it answers.
PendingKnown ==
  \A g \in Goroutines :
    pending[g] # NoCall => pending[g].err \in Known \union {Nil}

StoreInv == StoreTypeOK /\ NoDangling /\ PendingKnown /\ ChainsEnd

\* The empty store satisfies the inductive invariant.
LEMMA StoreInitInv == StoreInit => StoreInv
BY DEF StoreInit, StoreInv, StoreTypeOK, NoDangling, PendingKnown, ChainsEnd, Known

\* Adding a record that wraps a known error cannot close a cycle: nothing
\* known wraps the new identity.
LEMMA RespondChains ==
  ASSUME Distinct, StoreInv, NEW g \in Goroutines, NEW id \in Ids, Respond(g, id)
  PROVE  ChainsEnd'
<1> DEFINE e == pending[g].err
<1>1. /\ DOMAIN store' = DOMAIN store \union {id}
      /\ store'[id] = pending[g]
      /\ \A p \in DOMAIN store : store'[p] = store[p]
      /\ id \notin DOMAIN store
  BY DEF Respond
<1>2. e # id /\ id # Nil /\ id \notin Bases
  BY <1>1, Distinct DEF Distinct, StoreInv, PendingKnown, Known, Respond
<1>3. \A p \in DOMAIN store : store[p].err # id
  BY <1>1, <1>2 DEF StoreInv, NoDangling, Known
<1>4. SUFFICES ASSUME NEW S \in SUBSET (DOMAIN store \union {id}), S # {}
               PROVE  \E p \in S : store'[p].err \notin S
  BY <1>1 DEF ChainsEnd
<1>5. CASE S \ {id} = {}
  <2>1. S = {id}
    BY <1>4, <1>5
  <2>2. store'[id].err = e
    BY <1>1
  <2> QED BY <2>1, <2>2, <1>2
<1>6. CASE S \ {id} # {}
  <2>1. PICK p \in S \ {id} : store[p].err \notin S \ {id}
    BY <1>6 DEF StoreInv, ChainsEnd
  <2> QED BY <2>1, <1>1, <1>3
<1> QED BY <1>5, <1>6

\* Calls, answers and forgotten records preserve it.
LEMMA StoreStepInv ==
  ASSUME Distinct, StoreInv, [StoreNext]_storeVars
  PROVE  StoreInv'
<1>1. ASSUME NEW g \in Goroutines, NEW e \in Known \union {Nil}, NEW s \in Sites,
             Invoke(g, e, s)
      PROVE  StoreInv'
  <2> USE <1>1 DEF Invoke
  <2>1. StoreTypeOK'
    BY DEF StoreInv, StoreTypeOK, Records, Known
  <2>2. NoDangling' /\ ChainsEnd'
    BY DEF StoreInv, NoDangling, ChainsEnd, Known
  <2>3. PendingKnown'
    BY DEF StoreInv, StoreTypeOK, PendingKnown, Known
  <2> QED BY <2>1, <2>2, <2>3 DEF StoreInv
<1>2. ASSUME NEW g \in Goroutines, NEW id \in Ids, Respond(g, id)
      PROVE  StoreInv'
  <2>1. StoreTypeOK'
    BY <1>2 DEF Respond, StoreInv, StoreTypeOK
  <2>2. NoDangling'
    BY <1>2 DEF Respond, StoreInv, NoDangling, PendingKnown, Known
  <2>3. PendingKnown'
    BY <1>2 DEF Respond, StoreInv, StoreTypeOK, PendingKnown, Known
  <2>4. ChainsEnd'
    BY <1>2, RespondChains
  <2> QED BY <2>1, <2>2, <2>3, <2>4 DEF StoreInv
<1>3. ASSUME NEW id \in Ids, Drop(id)
      PROVE  StoreInv'
  <2> USE <1>3 DEF Drop
  <2>1. StoreTypeOK'
    BY DEF StoreInv, StoreTypeOK
  <2>2. NoDangling' /\ PendingKnown'
    BY DEF StoreInv, NoDangling, PendingKnown, Known
  <2>3. ChainsEnd'
    BY DEF StoreInv, ChainsEnd
  <2> QED BY <2>1, <2>2, <2>3 DEF StoreInv
<1>4. CASE UNCHANGED storeVars
  BY <1>4 DEF storeVars, StoreInv, StoreTypeOK, NoDangling, PendingKnown, ChainsEnd, Known
<1> QED BY <1>1, <1>2, <1>3, <1>4 DEF StoreNext

\* The inductive invariant of the store.
THEOREM StoreInvariant ==
  ASSUME Distinct
  PROVE  StoreSpec => []StoreInv
<1>1. StoreInv /\ [StoreNext]_storeVars => StoreInv'
  BY StoreStepInv
<1> QED BY <1>1, StoreInitInv, PTL DEF StoreSpec

\* Error() and buildTraceTree return on every error errtrace hands out.
THEOREM StoreChainsEnd ==
  ASSUME Distinct
  PROVE  StoreSpec => []ChainsEnd
BY StoreInvariant, PTL DEF StoreInv

\* No error handed out wraps one that is gone.
THEOREM StoreNoDangling ==
  ASSUME Distinct
  PROVE  StoreSpec => []NoDangling
BY StoreInvariant, PTL DEF StoreInv
============================================================================
