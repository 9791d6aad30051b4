----------------------- MODULE SharedOwnershipProofs -----------------------
(***************************************************************************)
(* Proof that SpCountedBase implements SharedOwnership, for any number of  *)
(* threads, smart pointers and control blocks and for both lock policies:  *)
(* each step of a thread is one step of the specification without counts,  *)
(* or none.                                                                *)
(***************************************************************************)
EXTENDS SpCountedBaseProofs

OwnershipStep == [Ownership!Next]_(Ownership!state)

-----------------------------------------------------------------------------
(* References that change places.                                          *)

LEMMA SameCardinality == \A S : Ownership!Cardinality(S) = Cardinality(S)
BY Zenon DEF Ownership!Cardinality, Cardinality

LEMMA SameNumbersRearrange ==
  ASSUME UNCHANGED life, \A b \in Blocks : NS(b)' = NS(b) /\ NW(b)' = NW(b)
  PROVE  OwnershipStep
<1>1. \A b : /\ Ownership!Cardinality(Ownership!Owners(b)) = NS(b)
             /\ Ownership!Cardinality(Ownership!Observers(b)) = NW(b)
  BY SameCardinality DEF Ownership!Owners, Ownership!Observers, NS, NW, Count
<1>2. \A b : /\ Ownership!Cardinality(Ownership!Owners(b)') = NS(b)'
             /\ Ownership!Cardinality(Ownership!Observers(b)') = NW(b)'
  BY SameCardinality DEF Ownership!Owners, Ownership!Observers, NS, NW, Count
<1>3. Ownership!Rearrange
  BY <1>1, <1>2 DEF Ownership!Rearrange
<1> QED BY <1>3 DEF OwnershipStep, Ownership!Next

LEMMA SharedExchange ==
  ASSUME IInv, NEW s \in SharedSlots, NEW r \in SharedSlots, s # r,
         sref' = [sref EXCEPT ![s] = sref[r], ![r] = sref[s]], UNCHANGED <<life, wref>>
  PROVE  OwnershipStep
<1>1. SameExcept(SharedSlots, sref, sref', {s, r}) /\ sref'[s] = sref[r] /\ sref'[r] = sref[s]
  BY DEF SameExcept, IInv, TypeOK
<1>2. \A b : NS(b)' = NS(b) + Is(sref'[s], b) - Is(sref[s], b) + Is(sref'[r], b) - Is(sref[r], b)
  BY <1>1, SharedWrite2, Zenon
<1>3. \A b \in Blocks : NS(b)' = NS(b) /\ NW(b)' = NW(b)
  BY <1>1, <1>2, NumbersOfReferences DEF Is, NW, IInv, TypeOK
<1> QED BY <1>3, SameNumbersRearrange

LEMMA WeakExchange ==
  ASSUME IInv, NEW s \in WeakSlots, NEW r \in WeakSlots, s # r,
         wref' = [wref EXCEPT ![s] = wref[r], ![r] = wref[s]], UNCHANGED <<life, sref>>
  PROVE  OwnershipStep
<1>1. SameExcept(WeakSlots, wref, wref', {s, r}) /\ wref'[s] = wref[r] /\ wref'[r] = wref[s]
  BY DEF SameExcept, IInv, TypeOK
<1>2. \A b : NW(b)' = NW(b) + Is(wref'[s], b) - Is(wref[s], b) + Is(wref'[r], b) - Is(wref[r], b)
  BY <1>1, WeakWrite2, Zenon
<1>3. \A b \in Blocks : NS(b)' = NS(b) /\ NW(b)' = NW(b)
  BY <1>1, <1>2, NumbersOfReferences DEF Is, NS, IInv, TypeOK
<1> QED BY <1>3, SameNumbersRearrange

(* A move assignment turns three slots round: q to p, p to t, t to q.      *)
LEMMA SharedRotation ==
  ASSUME IInv, NEW p \in SharedSlots, NEW q \in SharedSlots, NEW t \in SharedSlots,
         p # q, p # t, q # t,
         sref' = [sref EXCEPT ![p] = sref[q], ![q] = sref[t], ![t] = sref[p]], UNCHANGED <<life, wref>>
  PROVE  OwnershipStep
<1>1. /\ SameExcept(SharedSlots, sref, sref', {p, q, t})
      /\ sref'[p] = sref[q] /\ sref'[q] = sref[t] /\ sref'[t] = sref[p]
  BY DEF SameExcept, IInv, TypeOK
<1>2. \A b : NS(b)' = NS(b) + Is(sref'[p], b) - Is(sref[p], b)
                            + Is(sref'[q], b) - Is(sref[q], b)
                            + Is(sref'[t], b) - Is(sref[t], b)
  BY <1>1, SharedWrite3, Zenon
<1>3. \A b \in Blocks : NS(b)' = NS(b) /\ NW(b)' = NW(b)
  BY <1>1, <1>2, NumbersOfReferences DEF Is, NW, IInv, TypeOK
<1> QED BY <1>3, SameNumbersRearrange

LEMMA WeakRotation ==
  ASSUME IInv, NEW p \in WeakSlots, NEW q \in WeakSlots, NEW t \in WeakSlots,
         p # q, p # t, q # t,
         wref' = [wref EXCEPT ![p] = wref[q], ![q] = wref[t], ![t] = wref[p]], UNCHANGED <<life, sref>>
  PROVE  OwnershipStep
<1>1. /\ SameExcept(WeakSlots, wref, wref', {p, q, t})
      /\ wref'[p] = wref[q] /\ wref'[q] = wref[t] /\ wref'[t] = wref[p]
  BY DEF SameExcept, IInv, TypeOK
<1>2. \A b : NW(b)' = NW(b) + Is(wref'[p], b) - Is(wref[p], b)
                            + Is(wref'[q], b) - Is(wref[q], b)
                            + Is(wref'[t], b) - Is(wref[t], b)
  BY <1>1, WeakWrite3, Zenon
<1>3. \A b \in Blocks : NS(b)' = NS(b) /\ NW(b)' = NW(b)
  BY <1>1, <1>2, NumbersOfReferences DEF Is, NS, IInv, TypeOK
<1> QED BY <1>3, SameNumbersRearrange

-----------------------------------------------------------------------------
(* Operations of shared_ptr.                                               *)

LEMMA ClientSharedOwns ==
  ASSUME IInv, NEW t \in Threads, ClientShared(t)
  PROVE  OwnershipStep
<1>1. t \in SharedSlots /\ (\A p \in SharedPtrs : p \in SharedSlots /\ p # t)
  BY ConstantsAssumption DEF SharedSlots
<1>2. ASSUME NEW p \in SharedPtrs, NEW b \in Blocks, New(t, p, b)
      PROVE  OwnershipStep
  <2>1. Ownership!Create(p, b)
    BY <1>2 DEF New, Ownership!Create
  <2> QED BY <1>1, <2>1 DEF OwnershipStep, Ownership!Next
<1>3. ASSUME NEW q \in SharedPtrs, NEW p \in SharedPtrs, CopyShared(t, q, p)
      PROVE  OwnershipStep
  <2>1. sref[q] \in Blocks /\ Ownership!Share(p, sref[q])
    BY <1>1, <1>3, SharedIsUsed DEF CopyShared, Owned, Ownership!Share, Ownership!Owners
  <2> QED BY <1>1, <2>1 DEF OwnershipStep, Ownership!Next
<1>4. ASSUME NEW q \in SharedPtrs, NEW p \in SharedPtrs, AssignShared(t, q, p)
      PROVE  OwnershipStep
  <2>1. sref[t] = NoBlock
    BY <1>4, IdleThread DEF AssignShared, Begin
  <2>2. CASE sref[q] = NoBlock
    BY <1>4, <2>1, <2>2 DEF AssignShared, OwnershipStep, Ownership!state, IInv, TypeOK
  <2>3. CASE sref[q] # NoBlock
    <3>1. sref[q] \in Blocks /\ Ownership!Share(t, sref[q])
      BY <1>4, <2>1, <2>3, SharedIsUsed DEF AssignShared, Owned, Ownership!Share, Ownership!Owners
    <3> QED BY <1>1, <3>1 DEF OwnershipStep, Ownership!Next
  <2> QED BY <2>2, <2>3
<1>5. ASSUME NEW p \in SharedPtrs, ResetShared(t, p)
      PROVE  OwnershipStep
  <2>1. sref[t] = NoBlock
    BY <1>5, IdleThread DEF ResetShared, Begin
  <2> QED BY <1>1, <1>5, <2>1, SharedExchange DEF ResetShared, counts
<1>6. ASSUME NEW q \in SharedPtrs, NEW p \in SharedPtrs, SwapShared(t, q, p)
      PROVE  OwnershipStep
  BY <1>1, <1>6, SharedExchange DEF SwapShared, counts
<1>7. ASSUME NEW q \in SharedPtrs, NEW p \in SharedPtrs, MoveAssignShared(t, q, p)
      PROVE  OwnershipStep
  <2>1. sref[t] = NoBlock
    BY <1>7, IdleThread DEF MoveAssignShared, Begin
  <2> QED BY <1>1, <1>7, <2>1, SharedRotation DEF MoveAssignShared, counts
<1> QED BY <1>2, <1>3, <1>4, <1>5, <1>6, <1>7 DEF ClientShared

-----------------------------------------------------------------------------
(* Operations of weak_ptr.                                                 *)

LEMMA ClientWeakOwns ==
  ASSUME IInv, NEW t \in Threads, ClientWeak(t)
  PROVE  OwnershipStep
<1>1. t \in WeakSlots /\ (\A w \in WeakPtrs : w \in WeakSlots /\ w # t)
  BY ConstantsAssumption DEF WeakSlots
<1>2. ASSUME NEW w \in WeakPtrs, NEW b \in Sources, CopyWeak(t, b, w)
      PROVE  OwnershipStep
  <2>1. b \in Blocks /\ Ownership!Observe(w, b)
    BY <1>2, SourceIsUsed DEF CopyWeak, Owned, Observed, Ownership!Observe, Ownership!Owners, Ownership!Observers
  <2> QED BY <1>1, <2>1 DEF OwnershipStep, Ownership!Next
<1>3. ASSUME NEW w \in WeakPtrs, NEW b \in Sources, AssignWeak(t, b, w)
      PROVE  OwnershipStep
  <2>1. wref[t] = NoBlock
    BY <1>3, IdleThread DEF AssignWeak, Begin
  <2>2. CASE b = NoBlock
    BY <1>3, <2>1, <2>2 DEF AssignWeak, OwnershipStep, Ownership!state, IInv, TypeOK
  <2>3. CASE b # NoBlock
    <3>1. b \in Blocks /\ Ownership!Observe(t, b)
      BY <1>3, <2>1, <2>3, SourceIsUsed
         DEF AssignWeak, Owned, Observed, Ownership!Observe, Ownership!Owners, Ownership!Observers
    <3> QED BY <1>1, <3>1 DEF OwnershipStep, Ownership!Next
  <2> QED BY <2>2, <2>3
<1>4. ASSUME NEW w \in WeakPtrs, ResetWeak(t, w)
      PROVE  OwnershipStep
  <2>1. wref[t] = NoBlock
    BY <1>4, IdleThread DEF ResetWeak, Begin
  <2> QED BY <1>1, <1>4, <2>1, WeakExchange DEF ResetWeak, counts
<1>5. ASSUME NEW v \in WeakPtrs, NEW w \in WeakPtrs, SwapWeak(t, v, w)
      PROVE  OwnershipStep
  BY <1>1, <1>5, WeakExchange DEF SwapWeak, counts
<1>6. ASSUME NEW v \in WeakPtrs, NEW w \in WeakPtrs, MoveAssignWeak(t, v, w)
      PROVE  OwnershipStep
  <2>1. wref[t] = NoBlock
    BY <1>6, IdleThread DEF MoveAssignWeak, Begin
  <2> QED BY <1>1, <1>6, <2>1, WeakRotation DEF MoveAssignWeak, counts
<1>7. ASSUME NEW v \in WeakPtrs, NEW w \in WeakPtrs, ConvertMoveWeak(t, v, w)
      PROVE  OwnershipStep
  BY <1>7 DEF ConvertMoveWeak, counts, refs, OwnershipStep, Ownership!state
<1> QED BY <1>2, <1>3, <1>4, <1>5, <1>6, <1>7 DEF ClientWeak

LEMMA ClientLockOwns ==
  ASSUME NEW t \in Threads, ClientLock(t)
  PROVE  OwnershipStep
BY DEF ClientLock, LockLoad, LockMutex, counts, refs, OwnershipStep, Ownership!state

-----------------------------------------------------------------------------
(* Releasing references.                                                   *)

LEMMA GiveUpOwns ==
  ASSUME IInv, NEW t \in Threads, FastStore(t) \/ DecUse(t)
  PROVE  OwnershipStep
<1>1. tgt[t] \in SharedSlots
  BY DEF FastStore, DecUse, IInv, OperationOK, Releasing
<1>2. Ownership!Disown(tgt[t])
  BY DEF FastStore, DecUse, Ownership!Disown
<1> QED BY <1>1, <1>2 DEF OwnershipStep, Ownership!Next

LEMMA WeakDecOwns ==
  ASSUME IInv, NEW t \in Threads, WeakDec(t)
  PROVE  OwnershipStep
<1>1. tgt[t] \in WeakSlots
  BY DEF WeakDec, IInv, OperationOK, WeakSlots
<1>2. Ownership!Unobserve(tgt[t])
  BY DEF WeakDec, Ownership!Unobserve
<1> QED BY <1>1, <1>2 DEF OwnershipStep, Ownership!Next

LEMMA DisposeOwns ==
  ASSUME IInv, NEW t \in Threads, FastDispose(t) \/ Dispose(t)
  PROVE  OwnershipStep
<1>1. pc[t] \in {"dispose", "fast_dispose"} /\ blk[t] \in Blocks
  BY DEF FastDispose, Dispose, IInv, TypeOK, OperationOK
<1>2. life[blk[t]] = "alive" /\ ~Owned(blk[t])
  BY <1>1 DEF IInv, LastUserIsAlone, Ending, LastUse
<1>3. Ownership!Dispose(blk[t])
  BY <1>2 DEF FastDispose, Dispose, refs, Owned, Ownership!Dispose, Ownership!Owners
<1> QED BY <1>1, <1>3 DEF OwnershipStep, Ownership!Next

LEMMA DestroyOwns ==
  ASSUME IInv, NEW t \in Threads, Destroy(t)
  PROVE  OwnershipStep
<1>1. pc[t] = "destroy" /\ blk[t] \in Blocks
  BY DEF Destroy, IInv, TypeOK, OperationOK
<1>2. life[blk[t]] = "disposed" /\ ~Observed(blk[t])
  BY <1>1 DEF IInv, LastUserIsAlone, Ending
<1>3. Ownership!Destroy(blk[t])
  BY <1>2 DEF Destroy, refs, Observed, Ownership!Destroy, Ownership!Observers
<1> QED BY <1>1, <1>3 DEF OwnershipStep, Ownership!Next

(* The target of an assignment is empty since its reference was given up.  *)
LEMMA StoreOwns ==
  ASSUME IInv, NEW t \in Threads, Store(t)
  PROVE  OwnershipStep
<1>1. /\ pc[t] = "store" /\ UNCHANGED life
      /\ tgt[t] \in SharedSlots => sref[tgt[t]] = NoBlock
      /\ tgt[t] \in WeakSlots => wref[tgt[t]] = NoBlock
  BY DEF Store, counts, IInv, OperationOK
<1>2. CASE tgt[t] \in SharedPtrs
  <2>1. src[t] = t /\ tgt[t] # t /\ t \in SharedSlots /\ tgt[t] \in SharedSlots /\ tgt[t] \notin WeakPtrs
    BY <1>1, <1>2, ConstantsAssumption DEF IInv, OperationOK, SharedSlots
  <2>2. sref' = [sref EXCEPT ![tgt[t]] = sref[src[t]], ![src[t]] = sref[tgt[t]]] /\ UNCHANGED wref
    BY <1>1, <2>1 DEF Store
  <2> QED BY <1>1, <2>1, <2>2, SharedExchange
<1>3. CASE tgt[t] \in WeakPtrs
  <2>1. /\ src[t] \in WeakSlots /\ tgt[t] \in WeakSlots /\ src[t] # tgt[t]
        /\ tgt[t] \notin SharedPtrs
    BY <1>1, <1>3, ConstantsAssumption DEF IInv, OperationOK, WeakSlots
  <2>2. wref' = [wref EXCEPT ![tgt[t]] = wref[src[t]], ![src[t]] = wref[tgt[t]]] /\ UNCHANGED sref
    BY <1>1, <2>1 DEF Store
  <2> QED BY <1>1, <2>1, <2>2, WeakExchange
<1> QED BY <1>2, <1>3 DEF Store

LEMMA ReleaseOwns ==
  ASSUME IInv, NEW t \in Threads, Release(t)
  PROVE  OwnershipStep
<1>1. CASE LoadBoth(t) \/ DecWeak(t)
  BY <1>1 DEF LoadBoth, DecWeak, counts, refs, OwnershipStep, Ownership!state
<1> QED BY <1>1, GiveUpOwns, WeakDecOwns, DisposeOwns, DestroyOwns, StoreOwns DEF Release

-----------------------------------------------------------------------------
(* lock() makes an owner only where there is one.                          *)

LEMMA AddedOwns ==
  ASSUME IInv, NEW t \in Threads, pc[t] \in Locking, use[blk[t]] # 0,
         ~SomeAt({"mutex_reset"}, blk[t]), AddRef(blk[t], tgt[t]), UNCHANGED <<life, wref>>
  PROVE  OwnershipStep
<1>1. blk[t] \in Blocks /\ tgt[t] \in SharedSlots /\ sref[tgt[t]] = NoBlock
  BY DEF IInv, TypeOK, OperationOK, Locking, SharedSlots
<1>2. Owned(blk[t])
  BY <1>1, UsedIsOwned
<1>3. Ownership!Share(tgt[t], blk[t])
  BY <1>1, <1>2 DEF AddRef, Owned, Ownership!Share, Ownership!Owners
<1> QED BY <1>1, <1>3 DEF OwnershipStep, Ownership!Next

LEMMA LockStepOwns ==
  ASSUME IInv, NEW t \in Threads, LockStep(t)
  PROVE  OwnershipStep
<1>1. CASE CasSucceeds(t)
  <2>1. pc[t] = "cas" /\ use[blk[t]] # 0
    BY <1>1 DEF CasSucceeds, IInv, PolicyOK
  <2>2. \A u \in Threads : pc[u] # "mutex_reset"
    BY <2>1 DEF IInv, PolicyOK, Locking
  <2> QED BY <1>1, <2>1, <2>2, AddedOwns DEF CasSucceeds, SomeAt, Locking
<1>2. CASE MutexAdd(t)
  <2>1. pc[t] = "mutex_add" /\ ~SomeAt({"mutex_reset"}, blk[t])
    BY <1>2 DEF MutexAdd, IInv, MutexOK, SomeAt
  <2>2. CASE use[blk[t]] # 0
    BY <1>2, <2>1, <2>2, AddedOwns DEF MutexAdd, Locking
  <2>3. CASE use[blk[t]] = 0
    BY <1>2, <2>3 DEF MutexAdd, OwnershipStep, Ownership!state
  <2> QED BY <2>2, <2>3
<1>3. CASE CasFails(t) \/ MutexAcquire(t) \/ MutexReset(t)
  BY <1>3 DEF CasFails, MutexAcquire, MutexReset, counts, refs, OwnershipStep, Ownership!state
<1> QED BY <1>1, <1>2, <1>3 DEF LockStep

-----------------------------------------------------------------------------
LEMMA InitOwns == Init => Ownership!Init
BY DEF Init, Ownership!Init

LEMMA NextOwns ==
  ASSUME IInv, [Next]_vars
  PROVE  OwnershipStep
<1>1. CASE UNCHANGED vars
  BY <1>1 DEF vars, OwnershipStep, Ownership!state
<1>2. CASE Next
  BY <1>2, ClientSharedOwns, ClientWeakOwns, ClientLockOwns, ReleaseOwns, LockStepOwns DEF Next
<1> QED BY <1>1, <1>2

(* Counting references, releasing them in several steps and locking by a   *)
(* compare-and-exchange or under a mutex give exactly what a shared_ptr    *)
(* promises: an object lives while it has an owner and its block while     *)
(* something refers to it, and owners come only from owners.               *)
THEOREM CountingIsOwnership == Spec => ImplementsOwnership
<1>1. IInv /\ [Next]_vars => [Ownership!Next]_(Ownership!state)
  BY NextOwns DEF OwnershipStep
<1> QED BY <1>1, InitOwns, InductiveInvariant, PTL DEF Spec, Ownership!Spec, ImplementsOwnership
=============================================================================
