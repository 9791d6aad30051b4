------------------------ MODULE SpCountedBaseProofs ------------------------
(***************************************************************************)
(* Proofs about SpCountedBase, for any number of threads, smart pointers   *)
(* and control blocks and for both lock policies.                          *)
(***************************************************************************)
EXTENDS SpCountedBase, FiniteSetTheorems, TLAPS

Is(v, b) == IF v = b THEN 1 ELSE 0

-----------------------------------------------------------------------------
(* Counting the slots of a finite set that hold a value.                   *)

Count(S, f, b) == Cardinality({x \in S : f[x] = b})

(* f and g agree outside T.                                                *)
SameExcept(S, f, g, T) == \A x \in S \ T : g[x] = f[x]

LEMMA CountIsNat ==
  ASSUME NEW S, IsFiniteSet(S), NEW f, NEW b
  PROVE  /\ Count(S, f, b) \in Nat
         /\ Count(S, f, b) = 0 <=> ~(\E x \in S : f[x] = b)
<1> DEFINE F == {x \in S : f[x] = b}
<1>1. IsFiniteSet(F)
  BY FS_Subset
<1> QED BY <1>1, FS_CardinalityType, FS_EmptySet DEF Count

(* Writing one slot moves one unit between the counts of two values.       *)
LEMMA CountWrite ==
  ASSUME NEW S, IsFiniteSet(S), NEW f, NEW g, NEW s \in S,
         SameExcept(S, f, g, {s}), NEW b
  PROVE  Count(S, g, b) = Count(S, f, b) + Is(g[s], b) - Is(f[s], b)
<1> USE DEF SameExcept
<1> DEFINE F == {x \in S : f[x] = b}
           G == {x \in S : g[x] = b}
<1>1. IsFiniteSet(F) /\ IsFiniteSet(G) /\ Cardinality(F) \in Nat /\ Cardinality(G) \in Nat
  BY FS_Subset, FS_CardinalityType
<1>2. CASE f[s] = b /\ g[s] = b
  <2>1. F = G BY <1>2
  <2> QED BY <1>1, <1>2, <2>1 DEF Is, Count
<1>3. CASE f[s] # b /\ g[s] # b
  <2>1. F = G BY <1>3
  <2> QED BY <1>1, <1>3, <2>1 DEF Is, Count
<1>4. CASE f[s] # b /\ g[s] = b
  <2>1. G = F \cup {s} /\ s \notin F BY <1>4
  <2>2. Cardinality(G) = Cardinality(F) + 1
    <3> HIDE DEF F, G
    <3> QED BY <1>1, <2>1, FS_AddElement
  <2> QED BY <1>1, <1>4, <2>2 DEF Is, Count
<1>5. CASE f[s] = b /\ g[s] # b
  <2>1. G = F \ {s} /\ s \in F BY <1>5
  <2>2. Cardinality(G) = Cardinality(F) - 1
    <3> HIDE DEF F, G
    <3> QED BY <1>1, <2>1, FS_RemoveElement
  <2> QED BY <1>1, <1>5, <2>2 DEF Is, Count
<1> QED BY <1>2, <1>3, <1>4, <1>5

(* Writing two slots.                                                      *)
LEMMA CountWrite2 ==
  ASSUME NEW S, IsFiniteSet(S), NEW f, NEW g, NEW s \in S, NEW r \in S, r # s,
         SameExcept(S, f, g, {s, r}), NEW b
  PROVE  Count(S, g, b) = Count(S, f, b) + Is(g[s], b) - Is(f[s], b)
                                         + Is(g[r], b) - Is(f[r], b)
<1> DEFINE h == [x \in S |-> IF x = s THEN g[s] ELSE f[x]]
<1>1. SameExcept(S, f, h, {s}) /\ SameExcept(S, h, g, {r})
  BY DEF SameExcept
<1>2. h[s] = g[s] /\ h[r] = f[r]
  OBVIOUS
<1> HIDE DEF h
<1>3. Count(S, h, b) = Count(S, f, b) + Is(h[s], b) - Is(f[s], b)
  BY <1>1, CountWrite
<1>4. Count(S, g, b) = Count(S, h, b) + Is(g[r], b) - Is(h[r], b)
  BY <1>1, CountWrite
<1>5. Count(S, f, b) \in Nat /\ Count(S, h, b) \in Nat
  BY CountIsNat
<1> QED BY <1>1, <1>2, <1>3, <1>4, <1>5 DEF Is

(* Writing three slots.                                                    *)
LEMMA CountWrite3 ==
  ASSUME NEW S, IsFiniteSet(S), NEW f, NEW g, NEW s \in S, NEW r \in S, NEW q \in S,
         r # s, q # s, q # r, SameExcept(S, f, g, {s, r, q}), NEW b
  PROVE  Count(S, g, b) = Count(S, f, b) + Is(g[s], b) - Is(f[s], b)
                                         + Is(g[r], b) - Is(f[r], b)
                                         + Is(g[q], b) - Is(f[q], b)
<1> DEFINE h == [x \in S |-> IF x \in {s, r} THEN g[x] ELSE f[x]]
<1>1. SameExcept(S, f, h, {s, r}) /\ SameExcept(S, h, g, {q})
  BY DEF SameExcept
<1>2. h[s] = g[s] /\ h[r] = g[r] /\ h[q] = f[q]
  OBVIOUS
<1> HIDE DEF h
<1>3. Count(S, h, b) = Count(S, f, b) + Is(h[s], b) - Is(f[s], b) + Is(h[r], b) - Is(f[r], b)
  BY <1>1, CountWrite2
<1>4. Count(S, g, b) = Count(S, h, b) + Is(g[q], b) - Is(h[q], b)
  BY <1>1, CountWrite
<1>5. Count(S, f, b) \in Nat /\ Count(S, h, b) \in Nat
  BY CountIsNat
<1> QED BY <1>2, <1>3, <1>4, <1>5 DEF Is

-----------------------------------------------------------------------------
(* The number of references to a block, and when there is none.            *)
NS(b) == Count(SharedSlots, sref, b)
NW(b) == Count(WeakSlots, wref, b)

LEMMA FiniteSlots == IsFiniteSet(SharedSlots) /\ IsFiniteSet(WeakSlots)
BY FS_Union, ConstantsAssumption DEF SharedSlots, WeakSlots

(* A count of one means one reference.                                     *)
LEMMA OnlyReference ==
  ASSUME NEW b, NS(b) = 1, NEW s \in SharedSlots, NEW r \in SharedSlots, sref[s] = b, sref[r] = b
  PROVE  s = r
<1> DEFINE F == {x \in SharedSlots : sref[x] = b}
<1>1. IsFiniteSet(F) /\ Cardinality(F) = 1 /\ s \in F /\ r \in F
  BY FiniteSlots, FS_Subset DEF NS, Count
<1> HIDE DEF F
<1> QED BY <1>1, FS_Singleton

LEMMA NumbersOfReferences ==
  \A b : /\ NS(b) \in Nat /\ (NS(b) = 0 <=> ~Owned(b))
         /\ NW(b) \in Nat /\ (NW(b) = 0 <=> ~Observed(b))
BY FiniteSlots, CountIsNat DEF NS, NW, Owned, Observed

LEMMA NumbersOfReferencesNext ==
  \A b : /\ NS(b)' \in Nat /\ (NS(b)' = 0 <=> ~Owned(b)')
         /\ NW(b)' \in Nat /\ (NW(b)' = 0 <=> ~Observed(b)')
BY FiniteSlots, CountIsNat DEF NS, NW, Owned, Observed

(* The ledger in terms of these numbers.                                   *)
LEMMA CountsAsNumbers ==
  CountsAreReferences <=>
    \A b \in Blocks : /\ use[b]  = NS(b) + Resetting(b)
                      /\ weak[b] = NW(b) + OwnersWeakCount(b)
BY DEF CountsAreReferences, NS, NW, Count, Shared, Weak

LEMMA CountsAsNumbersNext ==
  CountsAreReferences' <=>
    \A b \in Blocks : /\ use'[b]  = NS(b)' + Resetting(b)'
                      /\ weak'[b] = NW(b)' + OwnersWeakCount(b)'
BY DEF CountsAreReferences, NS, NW, Count, Shared, Weak

LEMMA SharedWrite ==
  ASSUME NEW s \in SharedSlots, SameExcept(SharedSlots, sref, sref', {s})
  PROVE  \A b : NS(b)' = NS(b) + Is(sref'[s], b) - Is(sref[s], b)
<1> DEFINE f == sref
           g == sref'
<1>1. SameExcept(SharedSlots, f, g, {s}) /\ IsFiniteSet(SharedSlots)
  BY FiniteSlots
<1>2. ASSUME NEW b
      PROVE  Count(SharedSlots, g, b) = Count(SharedSlots, f, b) + Is(g[s], b) - Is(f[s], b)
  <2> HIDE DEF f, g
  <2> QED BY <1>1, CountWrite
<1> QED BY <1>2 DEF NS

LEMMA SharedWrite2 ==
  ASSUME NEW s \in SharedSlots, NEW r \in SharedSlots, r # s, SameExcept(SharedSlots, sref, sref', {s, r})
  PROVE  \A b : NS(b)' = NS(b) + Is(sref'[s], b) - Is(sref[s], b)
                               + Is(sref'[r], b) - Is(sref[r], b)
<1> DEFINE f == sref
           g == sref'
<1>1. SameExcept(SharedSlots, f, g, {s, r}) /\ IsFiniteSet(SharedSlots)
  BY FiniteSlots
<1>2. ASSUME NEW b
      PROVE  Count(SharedSlots, g, b) = Count(SharedSlots, f, b) + Is(g[s], b) - Is(f[s], b)
                                                   + Is(g[r], b) - Is(f[r], b)
  <2> HIDE DEF f, g
  <2> QED BY <1>1, CountWrite2
<1> QED BY <1>2 DEF NS

LEMMA WeakWrite ==
  ASSUME NEW s \in WeakSlots, SameExcept(WeakSlots, wref, wref', {s})
  PROVE  \A b : NW(b)' = NW(b) + Is(wref'[s], b) - Is(wref[s], b)
<1> DEFINE f == wref
           g == wref'
<1>1. SameExcept(WeakSlots, f, g, {s}) /\ IsFiniteSet(WeakSlots)
  BY FiniteSlots
<1>2. ASSUME NEW b
      PROVE  Count(WeakSlots, g, b) = Count(WeakSlots, f, b) + Is(g[s], b) - Is(f[s], b)
  <2> HIDE DEF f, g
  <2> QED BY <1>1, CountWrite
<1> QED BY <1>2 DEF NW

LEMMA WeakWrite2 ==
  ASSUME NEW s \in WeakSlots, NEW r \in WeakSlots, r # s, SameExcept(WeakSlots, wref, wref', {s, r})
  PROVE  \A b : NW(b)' = NW(b) + Is(wref'[s], b) - Is(wref[s], b)
                               + Is(wref'[r], b) - Is(wref[r], b)
<1> DEFINE f == wref
           g == wref'
<1>1. SameExcept(WeakSlots, f, g, {s, r}) /\ IsFiniteSet(WeakSlots)
  BY FiniteSlots
<1>2. ASSUME NEW b
      PROVE  Count(WeakSlots, g, b) = Count(WeakSlots, f, b) + Is(g[s], b) - Is(f[s], b)
                                                   + Is(g[r], b) - Is(f[r], b)
  <2> HIDE DEF f, g
  <2> QED BY <1>1, CountWrite2
<1> QED BY <1>2 DEF NW

LEMMA SharedWrite3 ==
  ASSUME NEW s \in SharedSlots, NEW r \in SharedSlots, NEW q \in SharedSlots, r # s, q # s, q # r,
         SameExcept(SharedSlots, sref, sref', {s, r, q})
  PROVE  \A b : NS(b)' = NS(b) + Is(sref'[s], b) - Is(sref[s], b)
                               + Is(sref'[r], b) - Is(sref[r], b)
                               + Is(sref'[q], b) - Is(sref[q], b)
<1> DEFINE f == sref
           g == sref'
<1>1. SameExcept(SharedSlots, f, g, {s, r, q}) /\ IsFiniteSet(SharedSlots)
  BY FiniteSlots
<1>2. ASSUME NEW b
      PROVE  Count(SharedSlots, g, b) = Count(SharedSlots, f, b) + Is(g[s], b) - Is(f[s], b)
                                                   + Is(g[r], b) - Is(f[r], b)
                                                   + Is(g[q], b) - Is(f[q], b)
  <2> HIDE DEF f, g
  <2> QED BY <1>1, CountWrite3
<1> QED BY <1>2 DEF NS

LEMMA WeakWrite3 ==
  ASSUME NEW s \in WeakSlots, NEW r \in WeakSlots, NEW q \in WeakSlots, r # s, q # s, q # r,
         SameExcept(WeakSlots, wref, wref', {s, r, q})
  PROVE  \A b : NW(b)' = NW(b) + Is(wref'[s], b) - Is(wref[s], b)
                               + Is(wref'[r], b) - Is(wref[r], b)
                               + Is(wref'[q], b) - Is(wref[q], b)
<1> DEFINE f == wref
           g == wref'
<1>1. SameExcept(WeakSlots, f, g, {s, r, q}) /\ IsFiniteSet(WeakSlots)
  BY FiniteSlots
<1>2. ASSUME NEW b
      PROVE  Count(WeakSlots, g, b) = Count(WeakSlots, f, b) + Is(g[s], b) - Is(f[s], b)
                                                   + Is(g[r], b) - Is(f[r], b)
                                                   + Is(g[q], b) - Is(f[q], b)
  <2> HIDE DEF f, g
  <2> QED BY <1>1, CountWrite3
<1> QED BY <1>2 DEF NW

-----------------------------------------------------------------------------
(* The part of the invariant about blocks.  A step leaves it true when it  *)
(* begins or ends no last release, keeps the counts and the references in  *)
(* step, and takes new references only to blocks that have some.           *)
Ledger == CountsAreReferences /\ LastUserIsAlone /\ NoLeak

Phases == Ending \cup {"mutex_reset"}

SamePhases ==
  \A u \in Threads : pc[u] \in Phases \/ pc'[u] \in Phases =>
    pc'[u] = pc[u] /\ blk'[u] = blk[u]

InStep ==
  \A b \in Blocks :
    /\ use'[b]  = use[b] + NS(b)' - NS(b)
    /\ weak'[b] = weak[b] + NW(b)' - NW(b)
    /\ NS(b)' = 0 <=> NS(b) = 0
    /\ NW(b)' = 0 => NW(b) = 0
    /\ NW(b)' # 0 => NW(b) # 0 \/ NS(b) # 0

LEMMA SamePhasesSomeAt ==
  ASSUME SamePhases, NEW P \in SUBSET Phases
  PROVE  \A b : SomeAt(P, b)' <=> SomeAt(P, b)
BY DEF SamePhases, SomeAt

LEMMA LedgerStep ==
  ASSUME TypeOK, Ledger, \A t \in Threads : OperationOK(t), SamePhases, InStep, UNCHANGED life
  PROVE  Ledger'
<1> USE NumbersOfReferences, NumbersOfReferencesNext
<1>1. \A b \in Blocks : /\ Owned(b)' <=> Owned(b)
                        /\ Observed(b) => Observed(b)'
                        /\ Observed(b)' => Observed(b) \/ Owned(b)
  BY DEF InStep
<1>2. \A b : /\ SomeAt(LastUse, b)' <=> SomeAt(LastUse, b)
             /\ SomeAt({"mutex_reset"}, b)' <=> SomeAt({"mutex_reset"}, b)
             /\ SomeAt({"dispose", "fast_dispose"}, b)' <=> SomeAt({"dispose", "fast_dispose"}, b)
             /\ SomeAt(Ending, b)' <=> SomeAt(Ending, b)
  BY SamePhasesSomeAt DEF Phases, Ending, LastUse
<1>3. CountsAreReferences'
  <2> SUFFICES ASSUME NEW b \in Blocks
               PROVE  use'[b] = NS(b)' + Resetting(b)' /\ weak'[b] = NW(b)' + OwnersWeakCount(b)'
    BY CountsAsNumbersNext
  <2>1. use[b] = NS(b) + Resetting(b) /\ weak[b] = NW(b) + OwnersWeakCount(b)
    BY CountsAsNumbers DEF Ledger
  <2>2. Resetting(b)' = Resetting(b) /\ OwnersWeakCount(b)' = OwnersWeakCount(b)
    BY <1>1, <1>2 DEF Resetting, OwnersWeakCount
  <2>3. Resetting(b) \in Nat /\ OwnersWeakCount(b) \in Nat
    BY DEF Resetting, OwnersWeakCount
  <2> QED BY <2>1, <2>2, <2>3 DEF InStep
<1>4. LastUserIsAlone'
  <2>1. ASSUME NEW t \in Threads, pc'[t] \in Ending
        PROVE  pc[t] = pc'[t] /\ blk[t] = blk'[t] /\ blk[t] \in Blocks
    BY <2>1 DEF SamePhases, Phases, TypeOK, OperationOK, Ending, LastUse
  <2>2. ASSUME NEW t \in Threads, pc'[t] \in Ending
        PROVE  /\ ~Owned(blk[t])
               /\ life[blk[t]] = IF pc[t] \in {"dispose", "fast_dispose"} THEN "alive" ELSE "disposed"
               /\ pc[t] \in {"destroy", "fast_dispose"} => ~Observed(blk[t]) /\ weak[blk[t]] = 0
               /\ \A u \in Threads \ {t} : pc[u] \in Ending => blk[u] # blk[t]
    BY <2>1, <2>2 DEF Ledger, LastUserIsAlone
  <2>3. ASSUME NEW t \in Threads, pc'[t] \in {"destroy", "fast_dispose"}
        PROVE  ~Observed(blk[t])' /\ weak'[blk[t]] = 0
    BY <1>1, <2>1, <2>2, <2>3 DEF InStep, Ending
  <2>4. ASSUME NEW t \in Threads, pc'[t] \in Ending
        PROVE  ~Owned(blk[t])'
    BY <1>1, <2>1, <2>2, <2>4
  <2> QED BY <2>1, <2>2, <2>3, <2>4 DEF LastUserIsAlone
<1>5. NoLeak'
  BY <1>1, <1>2 DEF Ledger, NoLeak
<1> QED BY <1>3, <1>4, <1>5 DEF Ledger

(* The part of the ledger about one block.                                 *)
EndingOK(u, b) ==
  /\ ~Owned(b)
  /\ life[b] = IF pc[u] \in {"dispose", "fast_dispose"} THEN "alive" ELSE "disposed"
  /\ pc[u] \in {"destroy", "fast_dispose"} => ~Observed(b) /\ weak[b] = 0
  /\ \A v \in Threads \ {u} : pc[v] \in Ending => blk[v] # b

BlockOK(b) ==
  /\ use[b]  = NS(b) + Resetting(b)
  /\ weak[b] = NW(b) + OwnersWeakCount(b)
  /\ \A u \in Threads : pc[u] \in Ending /\ blk[u] = b => EndingOK(u, b)
  /\ life[b] = "alive" => Owned(b) \/ SomeAt({"dispose", "fast_dispose"}, b)
  /\ life[b] # "free" => Owned(b) \/ Observed(b) \/ SomeAt(Ending, b)

LEMMA LedgerOfBlock ==
  ASSUME Ledger, NEW b \in Blocks
  PROVE  BlockOK(b)
BY CountsAsNumbers DEF Ledger, LastUserIsAlone, NoLeak, BlockOK, EndingOK

(* A step of t changes nothing but the state of block b.                   *)
OnlyBlock(t, b) ==
  /\ \A u \in Threads \ {t} : pc'[u] = pc[u] /\ blk'[u] = blk[u]
  /\ blk[t] = b /\ blk'[t] \in {b, NoBlock}
  /\ pc'[t] \in Phases => blk'[t] = b
  /\ \A c \in Blocks \ {b} :
       /\ use'[c] = use[c] /\ weak'[c] = weak[c] /\ life'[c] = life[c]
       /\ NS(c)' = NS(c) /\ NW(c)' = NW(c)

LEMMA LedgerAtBlock ==
  ASSUME TypeOK, Ledger, \A u \in Threads : OperationOK(u),
         NEW t \in Threads, NEW b \in Blocks, OnlyBlock(t, b), BlockOK(b)'
  PROVE  Ledger'
<1>1. ASSUME NEW c \in Blocks, c # b
      PROVE  /\ Owned(c)' <=> Owned(c)
             /\ Observed(c)' <=> Observed(c)
  BY <1>1, NumbersOfReferences, NumbersOfReferencesNext DEF OnlyBlock
<1>2. ASSUME NEW c \in Blocks, c # b, NEW P \in SUBSET Phases
      PROVE  SomeAt(P, c)' <=> SomeAt(P, c)
  BY <1>2, ConstantsAssumption DEF OnlyBlock, SomeAt
<1>3. ASSUME NEW c \in Blocks, c # b
      PROVE  /\ SomeAt(LastUse, c)' <=> SomeAt(LastUse, c)
             /\ SomeAt({"mutex_reset"}, c)' <=> SomeAt({"mutex_reset"}, c)
             /\ SomeAt({"dispose", "fast_dispose"}, c)' <=> SomeAt({"dispose", "fast_dispose"}, c)
             /\ SomeAt(Ending, c)' <=> SomeAt(Ending, c)
  BY <1>2, <1>3 DEF Phases, Ending, LastUse
<1>4. ASSUME NEW c \in Blocks
      PROVE  BlockOK(c)'
  <2>1. CASE c = b
    BY <2>1
  <2>2. CASE c # b
    <3>1. BlockOK(c)
      BY LedgerOfBlock
    <3>2. ASSUME NEW u \in Threads, pc'[u] \in Ending, blk'[u] = c
          PROVE  u # t /\ pc[u] = pc'[u] /\ blk[u] = c
      BY <2>2, <3>2, ConstantsAssumption DEF OnlyBlock
    <3>3. ASSUME NEW u \in Threads, pc'[u] \in Ending, blk'[u] = c
          PROVE  EndingOK(u, c)'
      BY <1>1, <2>2, <3>1, <3>2, <3>3 DEF BlockOK, EndingOK, OnlyBlock
    <3> QED BY <1>1, <1>3, <2>2, <3>1, <3>3 DEF BlockOK, OnlyBlock, Resetting, OwnersWeakCount
  <2> QED BY <2>1, <2>2
<1>5. CountsAreReferences'
  BY <1>4, CountsAsNumbersNext DEF BlockOK
<1>6. \A u \in Threads : pc'[u] \in Ending => blk'[u] \in Blocks
  BY DEF OnlyBlock, Phases, TypeOK, OperationOK, Ending, LastUse
<1>7. LastUserIsAlone' /\ NoLeak'
  BY <1>4, <1>6 DEF BlockOK, EndingOK, LastUserIsAlone, NoLeak
<1> QED BY <1>5, <1>7 DEF Ledger

-----------------------------------------------------------------------------
(* One lemma per action: it preserves the inductive invariant.             *)

(* A thread works with the smart pointers and its own temporary.           *)
LEMMA Targets ==
  ASSUME IInv
  PROVE  \A u \in Threads : /\ tgt[u] \in SharedPtrs \cup WeakPtrs \cup {u, NoSlot}
                            /\ src[u] \in WeakPtrs \cup {u, NoSlot}
BY DEF IInv, TypeOK, OperationOK, Pcs, Releasing, Ending, LastUse, Locking

LEMMA IdleThread ==
  ASSUME IInv, NEW t \in Threads, pc[t] = "idle"
  PROVE  /\ sref[t] = NoBlock /\ wref[t] = NoBlock /\ blk[t] = NoBlock
         /\ tgt[t] = NoSlot /\ src[t] = NoSlot
BY ConstantsAssumption DEF IInv, OperationOK, TemporaryOK, Releasing

(* A new reference is taken only to a block that has one, and never to one *)
(* that a thread is releasing on the unique-owner path.                    *)
LEMMA WeakIsUsed ==
  ASSUME IInv, NEW w \in WeakPtrs, wref[w] # NoBlock
  PROVE  /\ wref[w] \in Blocks /\ Observed(wref[w]) /\ life[wref[w]] # "free"
         /\ \A u \in Threads : pc[u] = "fast_store" => blk[u] # wref[w]
BY DEF IInv, TypeOK, Observed, NoUseAfterFree, FastPathIsUnique, WeakSlots

LEMMA SharedIsUsed ==
  ASSUME IInv, NEW q \in SharedPtrs, sref[q] # NoBlock
  PROVE  /\ sref[q] \in Blocks /\ Owned(sref[q]) /\ life[sref[q]] # "free"
         /\ CanRead(q) => \A u \in Threads : pc[u] = "fast_store" => blk[u] # sref[q]
BY DEF IInv, TypeOK, Owned, OwnersSeeLiveObject, FastPathIsUnique, SharedSlots, CanRead

LEMMA SourceIsUsed ==
  ASSUME IInv, NEW b \in Sources, b # NoBlock
  PROVE  /\ b \in Blocks /\ (Owned(b) \/ Observed(b)) /\ life[b] # "free"
         /\ \A u \in Threads : pc[u] = "fast_store" => blk[u] # b
<1>1. CASE \E q \in SharedPtrs : CanRead(q) /\ b = sref[q]
  BY <1>1, SharedIsUsed
<1>2. CASE \E w \in WeakPtrs : b = wref[w]
  BY <1>2, WeakIsUsed
<1> QED BY <1>1, <1>2 DEF Sources

(* lock() finds a count above zero: somebody owns the object.              *)
LEMMA UsedIsOwned ==
  ASSUME IInv, NEW b \in Blocks, use[b] # 0, ~SomeAt({"mutex_reset"}, b)
  PROVE  Owned(b) /\ life[b] = "alive"
<1>1. use[b] = NS(b) + Resetting(b) /\ Resetting(b) = 0
  BY CountsAsNumbers DEF IInv, Resetting
<1> QED BY <1>1, NumbersOfReferences, ConstantsAssumption DEF IInv, Owned, OwnersSeeLiveObject

(* No decrement goes below zero.                                           *)
LEMMA CountsArePositive ==
  ASSUME IInv, NEW b \in Blocks
  PROVE  /\ Owned(b) => use[b] # 0
         /\ Observed(b) \/ SomeAt(LastUse, b) => weak[b] # 0
<1>1. use[b] = NS(b) + Resetting(b) /\ weak[b] = NW(b) + OwnersWeakCount(b)
  BY CountsAsNumbers DEF IInv
<1>2. Resetting(b) \in Nat /\ OwnersWeakCount(b) \in Nat
  BY DEF Resetting, OwnersWeakCount
<1> QED BY <1>1, <1>2, NumbersOfReferences DEF OwnersWeakCount

(* A release returns, or goes on to store.                                 *)
ReleasedTo(t, q, k, d, s, n) ==
  /\ pc'  = [pc EXCEPT ![t] = q]
  /\ blk' = [blk EXCEPT ![t] = k]
  /\ tgt' = [tgt EXCEPT ![t] = d]
  /\ src' = [src EXCEPT ![t] = s]
  /\ cnt' = [cnt EXCEPT ![t] = n]
  /\ \/ tgt[t] = t /\ q = "idle" /\ k = NoBlock /\ d = NoSlot /\ s = NoSlot /\ n = 0
     \/ tgt[t] # t /\ q = "store" /\ k = blk[t] /\ d = tgt[t] /\ s = src[t] /\ n = cnt[t]

LEMMA ReleasedWrites ==
  ASSUME TypeOK, NEW t \in Threads, Released(t)
  PROVE  \E q, k, d, s, n : ReleasedTo(t, q, k, d, s, n)
<1>1. CASE tgt[t] = t
  BY <1>1 DEF Released, Return, ReleasedTo
<1>2. CASE tgt[t] # t
  <2>1. ReleasedTo(t, "store", blk[t], tgt[t], src[t], cnt[t])
    BY <1>2 DEF Released, Goto, ReleasedTo, TypeOK
  <2> QED BY <2>1
<1> QED BY <1>1, <1>2

LEMMA ResetSharedStep ==
  ASSUME IInv, NEW t \in Threads, NEW p \in SharedPtrs, ResetShared(t, p)
  PROVE  IInv'
<1>1. /\ p \in SharedSlots /\ t \in SharedSlots /\ p # t /\ p # NoSlot
      /\ sref[p] \in Blocks /\ sref[t] = NoBlock /\ NoBlock \notin Blocks
      /\ pc[t] = "idle" /\ CanWrite(p)
      /\ sref' = [sref EXCEPT ![p] = NoBlock, ![t] = sref[p]]
      /\ pc' = [pc EXCEPT ![t] = ReleaseStart] /\ blk' = [blk EXCEPT ![t] = sref[p]]
      /\ tgt' = [tgt EXCEPT ![t] = t] /\ src' = [src EXCEPT ![t] = NoSlot]
      /\ ReleaseStart \in {"load_both", "dec_use"} /\ (ReleaseStart = "load_both" => UniqueFastPath)
      /\ UNCHANGED <<use, weak, life, mutex, wref, cnt>>
  BY IdleThread, ConstantsAssumption DEF ResetShared, Begin, ReleaseStart, counts, IInv, TypeOK, SharedSlots
<1>2. TypeOK'
  BY <1>1 DEF IInv, TypeOK, Pcs, Slots, Locking, SharedSlots, WeakSlots
<1>3. Ledger'
  <2>1. SameExcept(SharedSlots, sref, sref', {p, t}) /\ p # t
    BY <1>1 DEF SameExcept, IInv, TypeOK
  <2>2. \A c : NS(c)' = NS(c) + Is(sref'[p], c) - Is(sref[p], c) + Is(sref'[t], c) - Is(sref[t], c)
    BY <1>1, <2>1, SharedWrite2
  <2>3. \A c \in Blocks : NS(c)' = NS(c) /\ NW(c)' = NW(c)
    BY <1>1, <2>2, NumbersOfReferences DEF Is, NW, IInv, TypeOK
  <2>4. InStep
    BY <1>1, <2>3, NumbersOfReferences DEF InStep, IInv, TypeOK
  <2>5. SamePhases
    BY <1>1 DEF SamePhases, Phases, Ending, LastUse, IInv, TypeOK
  <2> QED BY <1>1, <2>4, <2>5, LedgerStep DEF IInv, Ledger
<1>4. \A u \in Threads : OperationOK(u)'
  BY <1>1, ConstantsAssumption DEF IInv, TypeOK, OperationOK, CanRead, CanWrite, SlotsOK, SharedSlots, WeakSlots, Locking, Releasing, Ending, LastUse
<1>5. \A u \in Threads : TemporaryOK(u)'
  BY <1>1, ConstantsAssumption DEF IInv, TypeOK, TemporaryOK, OperationOK, SharedSlots, WeakSlots, Releasing
<1>6. SlotsOK' /\ PolicyOK'
  BY <1>1, Targets, ConstantsAssumption DEF IInv, TypeOK, SlotsOK, CanRead, CanWrite, Locking, PolicyOK
<1>7. MutexOK'
  BY <1>1 DEF IInv, TypeOK, MutexOK, Owned
<1>8. OwnersSeeLiveObject' /\ NoUseAfterFree'
  BY <1>1 DEF IInv, TypeOK, OwnersSeeLiveObject, NoUseAfterFree
<1>9. FastPathIsUnique'
  BY <1>1 DEF IInv, TypeOK, FastPathIsUnique, Owned, Observed, CanRead, CanWrite, OperationOK, Releasing, Locking
<1> QED BY <1>2, <1>3, <1>4, <1>5, <1>6, <1>7, <1>8, <1>9 DEF IInv, Ledger

LEMMA CopySharedStep ==
  ASSUME IInv, NEW t \in Threads, NEW q \in SharedPtrs, NEW p \in SharedPtrs, CopyShared(t, q, p)
  PROVE  IInv'
<1> DEFINE b == sref[q]
<1>1. /\ p \in SharedSlots /\ q \in SharedSlots
      /\ b \in Blocks /\ b = sref[q] /\ sref[p] = NoBlock /\ NoBlock \notin Blocks /\ Owned(b)
      /\ pc[t] = "idle" /\ CanRead(q) /\ CanWrite(p)
      /\ sref' = [sref EXCEPT ![p] = b] /\ use' = [use EXCEPT ![b] = @ + 1]
      /\ UNCHANGED <<weak, life, wref, mutex, pc, blk, tgt, src, cnt>>
  BY ConstantsAssumption DEF CopyShared, control, IInv, TypeOK, SharedSlots, Owned
<1>2. TypeOK'
  BY <1>1 DEF IInv, TypeOK, Pcs, Slots, Locking, SharedSlots, WeakSlots
<1>3. Ledger'
  <2>1. SameExcept(SharedSlots, sref, sref', {p}) /\ sref'[p] = b /\ sref[p] = NoBlock
    BY <1>1 DEF SameExcept, IInv, TypeOK
  <2>2. \A c : NS(c)' = NS(c) + Is(sref'[p], c) - Is(sref[p], c)
    BY <1>1, <2>1, SharedWrite
  <2>3. \A c \in Blocks : NS(c)' = NS(c) + Is(b, c) /\ NW(c)' = NW(c)
    BY <1>1, <2>1, <2>2, NumbersOfReferences DEF Is, NW
  <2>4. InStep
    BY <1>1, <2>3, NumbersOfReferences DEF InStep, Is, IInv, TypeOK
  <2>5. SamePhases
    BY <1>1 DEF SamePhases, Phases, Ending, LastUse, IInv, TypeOK
  <2> QED BY <1>1, <2>4, <2>5, LedgerStep DEF IInv, Ledger
<1>4. \A u \in Threads : OperationOK(u)'
  BY <1>1, ConstantsAssumption DEF IInv, TypeOK, OperationOK, CanRead, CanWrite, SlotsOK, SharedSlots, WeakSlots, Locking, Releasing, Ending, LastUse
<1>5. \A u \in Threads : TemporaryOK(u)'
  BY <1>1, ConstantsAssumption DEF IInv, TypeOK, TemporaryOK, OperationOK, SharedSlots, WeakSlots, Releasing
<1>6. SlotsOK' /\ PolicyOK'
  BY <1>1, Targets, ConstantsAssumption DEF IInv, TypeOK, SlotsOK, CanRead, CanWrite, Locking, PolicyOK
<1>7. MutexOK'
  BY <1>1 DEF IInv, TypeOK, MutexOK, Owned
<1>8. OwnersSeeLiveObject' /\ NoUseAfterFree'
  BY <1>1 DEF IInv, TypeOK, OwnersSeeLiveObject, NoUseAfterFree
<1>9. FastPathIsUnique'
  BY <1>1 DEF IInv, TypeOK, FastPathIsUnique, Owned, Observed, CanRead, CanWrite, OperationOK, Releasing, Locking
<1> QED BY <1>2, <1>3, <1>4, <1>5, <1>6, <1>7, <1>8, <1>9 DEF IInv, Ledger

LEMMA SwapSharedStep ==
  ASSUME IInv, NEW t \in Threads, NEW q \in SharedPtrs, NEW p \in SharedPtrs, SwapShared(t, q, p)
  PROVE  IInv'
<1>1. /\ p \in SharedSlots /\ q \in SharedSlots /\ p # q
      /\ sref[p] \in Blocks \cup {NoBlock} /\ sref[q] \in Blocks \cup {NoBlock} /\ NoBlock \notin Blocks
      /\ pc[t] = "idle" /\ CanWrite(q) /\ CanWrite(p)
      /\ sref' = [sref EXCEPT ![p] = sref[q], ![q] = sref[p]]
      /\ UNCHANGED <<use, weak, life, wref, mutex, pc, blk, tgt, src, cnt>>
  BY ConstantsAssumption DEF SwapShared, counts, control, IInv, TypeOK, SharedSlots
<1>2. TypeOK'
  BY <1>1 DEF IInv, TypeOK, Pcs, Slots, Locking, SharedSlots, WeakSlots
<1>3. Ledger'
  <2>1. SameExcept(SharedSlots, sref, sref', {p, q}) /\ p # q
    BY <1>1 DEF SameExcept, IInv, TypeOK
  <2>2. \A c : NS(c)' = NS(c) + Is(sref'[p], c) - Is(sref[p], c) + Is(sref'[q], c) - Is(sref[q], c)
    BY <1>1, <2>1, SharedWrite2
  <2>3. \A c \in Blocks : NS(c)' = NS(c) /\ NW(c)' = NW(c)
    BY <1>1, <2>2, NumbersOfReferences DEF Is, NW, IInv, TypeOK
  <2>4. InStep
    BY <1>1, <2>3, NumbersOfReferences DEF InStep, IInv, TypeOK
  <2>5. SamePhases
    BY <1>1 DEF SamePhases, Phases, Ending, LastUse, IInv, TypeOK
  <2> QED BY <1>1, <2>4, <2>5, LedgerStep DEF IInv, Ledger
<1>4. \A u \in Threads : OperationOK(u)'
  BY <1>1, ConstantsAssumption DEF IInv, TypeOK, OperationOK, CanRead, CanWrite, SlotsOK, SharedSlots, WeakSlots, Locking, Releasing, Ending, LastUse
<1>5. \A u \in Threads : TemporaryOK(u)'
  BY <1>1, ConstantsAssumption DEF IInv, TypeOK, TemporaryOK, OperationOK, SharedSlots, WeakSlots, Releasing
<1>6. SlotsOK' /\ PolicyOK'
  BY <1>1, Targets, ConstantsAssumption DEF IInv, TypeOK, SlotsOK, CanRead, CanWrite, Locking, PolicyOK
<1>7. MutexOK'
  BY <1>1 DEF IInv, TypeOK, MutexOK, Owned
<1>8. OwnersSeeLiveObject' /\ NoUseAfterFree'
  BY <1>1 DEF IInv, TypeOK, OwnersSeeLiveObject, NoUseAfterFree
<1>9. FastPathIsUnique'
  BY <1>1 DEF IInv, TypeOK, FastPathIsUnique, Owned, Observed, CanRead, CanWrite, OperationOK, Releasing, Locking
<1> QED BY <1>2, <1>3, <1>4, <1>5, <1>6, <1>7, <1>8, <1>9 DEF IInv, Ledger

LEMMA AssignSharedStep ==
  ASSUME IInv, NEW t \in Threads, NEW q \in SharedPtrs, NEW p \in SharedPtrs, AssignShared(t, q, p)
  PROVE  IInv'
<1> DEFINE b == sref[q]
<1>1. /\ p \in SharedSlots /\ q \in SharedSlots /\ t \in SharedSlots /\ p # t /\ q # t /\ p # NoSlot /\ t # NoSlot /\ t \notin WeakPtrs
      /\ b \in Blocks \cup {NoBlock} /\ b = sref[q] /\ sref[t] = NoBlock /\ NoBlock \notin Blocks
      /\ sref[p] \in Blocks /\ b # sref[p] /\ (b \in Blocks => Owned(b))
      /\ pc[t] = "idle" /\ CanRead(q) /\ CanWrite(p)
      /\ sref' = [sref EXCEPT ![t] = b] /\ use' = (IF b = NoBlock THEN use ELSE [use EXCEPT ![b] = @ + 1])
      /\ pc' = [pc EXCEPT ![t] = ReleaseStart] /\ blk' = [blk EXCEPT ![t] = sref[p]]
      /\ tgt' = [tgt EXCEPT ![t] = p] /\ src' = [src EXCEPT ![t] = t]
      /\ ReleaseStart \in {"load_both", "dec_use"} /\ (ReleaseStart = "load_both" => UniqueFastPath)
      /\ UNCHANGED <<weak, life, wref, mutex, cnt>>
  BY IdleThread, ConstantsAssumption DEF AssignShared, Begin, ReleaseStart, IInv, TypeOK, SharedSlots, Owned
<1>2. TypeOK'
  BY <1>1 DEF IInv, TypeOK, Pcs, Slots, Locking, SharedSlots, WeakSlots
<1>3. Ledger'
  <2>1. SameExcept(SharedSlots, sref, sref', {t}) /\ sref'[t] = b /\ sref[t] = NoBlock
    BY <1>1 DEF SameExcept, IInv, TypeOK
  <2>2. \A c : NS(c)' = NS(c) + Is(sref'[t], c) - Is(sref[t], c)
    BY <1>1, <2>1, SharedWrite
  <2>3. \A c \in Blocks : NS(c)' = NS(c) + Is(b, c) /\ NW(c)' = NW(c)
    BY <1>1, <2>1, <2>2, NumbersOfReferences DEF Is, NW
  <2>4. InStep
    BY <1>1, <2>3, NumbersOfReferences DEF InStep, Is, IInv, TypeOK
  <2>5. SamePhases
    BY <1>1 DEF SamePhases, Phases, Ending, LastUse, IInv, TypeOK
  <2> QED BY <1>1, <2>4, <2>5, LedgerStep DEF IInv, Ledger
<1>4. \A u \in Threads : OperationOK(u)'
  BY <1>1, ConstantsAssumption DEF IInv, TypeOK, OperationOK, CanRead, CanWrite, SlotsOK, SharedSlots, WeakSlots, Locking, Releasing, Ending, LastUse
<1>5. \A u \in Threads : TemporaryOK(u)'
  BY <1>1, ConstantsAssumption DEF IInv, TypeOK, TemporaryOK, OperationOK, SharedSlots, WeakSlots, Releasing
<1>6. SlotsOK' /\ PolicyOK'
  BY <1>1, Targets, ConstantsAssumption DEF IInv, TypeOK, SlotsOK, CanRead, CanWrite, Locking, PolicyOK
<1>7. MutexOK'
  BY <1>1 DEF IInv, TypeOK, MutexOK, Owned
<1>8. OwnersSeeLiveObject' /\ NoUseAfterFree'
  BY <1>1 DEF IInv, TypeOK, OwnersSeeLiveObject, NoUseAfterFree
<1>9. FastPathIsUnique'
  BY <1>1 DEF IInv, TypeOK, FastPathIsUnique, Owned, Observed, CanRead, CanWrite, OperationOK, Releasing, Locking
<1> QED BY <1>2, <1>3, <1>4, <1>5, <1>6, <1>7, <1>8, <1>9 DEF IInv, Ledger

LEMMA MoveAssignSharedStep ==
  ASSUME IInv, NEW t \in Threads, NEW q \in SharedPtrs, NEW p \in SharedPtrs, MoveAssignShared(t, q, p)
  PROVE  IInv'
<1>1. /\ p \in SharedSlots /\ q \in SharedSlots /\ t \in SharedSlots /\ p # t /\ q # t /\ p # q /\ p # NoSlot /\ q # NoSlot /\ t # NoSlot
      /\ sref[q] \in Blocks \cup {NoBlock} /\ sref[p] \in Blocks /\ sref[t] = NoBlock /\ NoBlock \notin Blocks
      /\ pc[t] = "idle" /\ CanWrite(q) /\ CanWrite(p)
      /\ sref' = [sref EXCEPT ![p] = sref[q], ![q] = NoBlock, ![t] = sref[p]]
      /\ pc' = [pc EXCEPT ![t] = ReleaseStart] /\ blk' = [blk EXCEPT ![t] = sref[p]]
      /\ tgt' = [tgt EXCEPT ![t] = t] /\ src' = [src EXCEPT ![t] = NoSlot]
      /\ ReleaseStart \in {"load_both", "dec_use"} /\ (ReleaseStart = "load_both" => UniqueFastPath)
      /\ UNCHANGED <<use, weak, life, wref, mutex, cnt>>
  BY IdleThread, ConstantsAssumption DEF MoveAssignShared, Begin, ReleaseStart, counts, IInv, TypeOK, SharedSlots
<1>2. TypeOK'
  BY <1>1 DEF IInv, TypeOK, Pcs, Slots, Locking, SharedSlots, WeakSlots
<1>3. Ledger'
  <2>1. SameExcept(SharedSlots, sref, sref', {p, q, t})
    BY <1>1 DEF SameExcept, IInv, TypeOK
  <2>2. \A c : NS(c)' = NS(c) + Is(sref'[p], c) - Is(sref[p], c)
                             + Is(sref'[q], c) - Is(sref[q], c)
                             + Is(sref'[t], c) - Is(sref[t], c)
    BY <1>1, <2>1, SharedWrite3
  <2>3. \A c \in Blocks : NS(c)' = NS(c) /\ NW(c)' = NW(c)
    BY <1>1, <2>2, NumbersOfReferences DEF Is, NW, IInv, TypeOK
  <2>4. InStep
    BY <1>1, <2>3, NumbersOfReferences DEF InStep, IInv, TypeOK
  <2>5. SamePhases
    BY <1>1 DEF SamePhases, Phases, Ending, LastUse, IInv, TypeOK
  <2> QED BY <1>1, <2>4, <2>5, LedgerStep DEF IInv, Ledger
<1>4. \A u \in Threads : OperationOK(u)'
  BY <1>1, ConstantsAssumption DEF IInv, TypeOK, OperationOK, CanRead, CanWrite, SlotsOK, SharedSlots, WeakSlots, Locking, Releasing, Ending, LastUse
<1>5. \A u \in Threads : TemporaryOK(u)'
  BY <1>1, ConstantsAssumption DEF IInv, TypeOK, TemporaryOK, OperationOK, SharedSlots, WeakSlots, Releasing
<1>6. SlotsOK' /\ PolicyOK'
  BY <1>1, Targets, ConstantsAssumption DEF IInv, TypeOK, SlotsOK, CanRead, CanWrite, Locking, PolicyOK
<1>7. MutexOK'
  BY <1>1 DEF IInv, TypeOK, MutexOK, Owned
<1>8. OwnersSeeLiveObject' /\ NoUseAfterFree'
  BY <1>1 DEF IInv, TypeOK, OwnersSeeLiveObject, NoUseAfterFree
<1>9. FastPathIsUnique'
  BY <1>1 DEF IInv, TypeOK, FastPathIsUnique, Owned, Observed, CanRead, CanWrite, OperationOK, Releasing, Locking
<1> QED BY <1>2, <1>3, <1>4, <1>5, <1>6, <1>7, <1>8, <1>9 DEF IInv, Ledger

LEMMA CopyWeakStep ==
  ASSUME IInv, NEW t \in Threads, NEW b \in Sources, NEW w \in WeakPtrs, CopyWeak(t, b, w)
  PROVE  IInv'
<1>1. /\ w \in WeakSlots /\ w # NoSlot
      /\ b \in Blocks /\ wref[w] = NoBlock /\ NoBlock \notin Blocks /\ (Owned(b) \/ Observed(b))
      /\ \A u \in Threads : pc[u] = "fast_store" => blk[u] # b
      /\ pc[t] = "idle" /\ CanWrite(w) /\ life[b] # "free"
      /\ wref' = [wref EXCEPT ![w] = b] /\ weak' = [weak EXCEPT ![b] = @ + 1]
      /\ UNCHANGED <<use, life, sref, mutex, pc, blk, tgt, src, cnt>>
  BY SourceIsUsed, ConstantsAssumption DEF CopyWeak, control, IInv, TypeOK, WeakSlots
<1>2. TypeOK'
  BY <1>1 DEF IInv, TypeOK, Pcs, Slots, Locking, SharedSlots, WeakSlots
<1>3. Ledger'
  <2>1. SameExcept(WeakSlots, wref, wref', {w}) /\ wref'[w] = b /\ wref[w] = NoBlock
    BY <1>1 DEF SameExcept, IInv, TypeOK
  <2>2. \A c : NW(c)' = NW(c) + Is(wref'[w], c) - Is(wref[w], c)
    BY <1>1, <2>1, WeakWrite
  <2>3. \A c \in Blocks : NW(c)' = NW(c) + Is(b, c) /\ NS(c)' = NS(c)
    BY <1>1, <2>1, <2>2, NumbersOfReferences DEF Is, NS
  <2>4. InStep
    BY <1>1, <2>3, NumbersOfReferences DEF InStep, Is, IInv, TypeOK
  <2>5. SamePhases
    BY <1>1 DEF SamePhases, Phases, Ending, LastUse, IInv, TypeOK
  <2> QED BY <1>1, <2>4, <2>5, LedgerStep DEF IInv, Ledger
<1>4. \A u \in Threads : OperationOK(u)'
  BY <1>1, ConstantsAssumption DEF IInv, TypeOK, OperationOK, CanRead, CanWrite, SlotsOK, SharedSlots, WeakSlots, Locking, Releasing, Ending, LastUse
<1>5. \A u \in Threads : TemporaryOK(u)'
  BY <1>1, ConstantsAssumption DEF IInv, TypeOK, TemporaryOK, OperationOK, SharedSlots, WeakSlots, Releasing
<1>6. SlotsOK' /\ PolicyOK'
  BY <1>1, Targets, ConstantsAssumption DEF IInv, TypeOK, SlotsOK, CanRead, CanWrite, Locking, PolicyOK
<1>7. MutexOK'
  BY <1>1 DEF IInv, TypeOK, MutexOK, Owned
<1>8. OwnersSeeLiveObject' /\ NoUseAfterFree'
  BY <1>1 DEF IInv, TypeOK, OwnersSeeLiveObject, NoUseAfterFree
<1>9. FastPathIsUnique'
  BY <1>1 DEF IInv, TypeOK, FastPathIsUnique, Owned, Observed, CanRead, CanWrite, OperationOK, Releasing, Locking
<1> QED BY <1>2, <1>3, <1>4, <1>5, <1>6, <1>7, <1>8, <1>9 DEF IInv, Ledger

LEMMA AssignWeakStep ==
  ASSUME IInv, NEW t \in Threads, NEW b \in Sources, NEW w \in WeakPtrs, AssignWeak(t, b, w)
  PROVE  IInv'
<1>1. /\ w \in WeakSlots /\ t \in WeakSlots /\ w # t /\ w # NoSlot /\ t # NoSlot /\ t \notin SharedPtrs /\ w \notin SharedSlots
      /\ b \in Blocks \cup {NoBlock} /\ wref[t] = NoBlock /\ NoBlock \notin Blocks
      /\ b \in Blocks => (Owned(b) \/ Observed(b)) /\ life[b] # "free"
      /\ \A u \in Threads : pc[u] = "fast_store" => blk[u] # b /\ blk[u] # wref[w]
      /\ wref[w] \in Blocks /\ life[wref[w]] # "free"
      /\ pc[t] = "idle" /\ CanWrite(w)
      /\ wref' = [wref EXCEPT ![t] = b] /\ weak' = (IF b = NoBlock THEN weak ELSE [weak EXCEPT ![b] = @ + 1])
      /\ pc' = [pc EXCEPT ![t] = "weak_dec"] /\ blk' = [blk EXCEPT ![t] = wref[w]]
      /\ tgt' = [tgt EXCEPT ![t] = w] /\ src' = [src EXCEPT ![t] = t]
      /\ UNCHANGED <<use, life, sref, mutex, cnt>>
  <2>1. CanWrite(w) /\ pc[t] = "idle" /\ wref[w] # NoBlock /\ NoBlock \notin Blocks
    BY ConstantsAssumption DEF AssignWeak, Begin
  <2>2. /\ b \in Blocks \cup {NoBlock}
        /\ b \in Blocks => (Owned(b) \/ Observed(b)) /\ life[b] # "free"
        /\ \A u \in Threads : pc[u] = "fast_store" => blk[u] # b
    BY <2>1, SourceIsUsed DEF IInv, OperationOK
  <2>3. /\ wref[w] \in Blocks /\ life[wref[w]] # "free"
        /\ \A u \in Threads : pc[u] = "fast_store" => blk[u] # wref[w]
    BY <2>1, WeakIsUsed
  <2>4. wref[t] = NoBlock
    BY <2>1, IdleThread
  <2> QED BY <2>1, <2>2, <2>3, <2>4, ConstantsAssumption DEF AssignWeak, Begin, WeakSlots, SharedSlots
<1>2. TypeOK'
  BY <1>1 DEF IInv, TypeOK, Pcs, Slots, Locking, SharedSlots, WeakSlots
<1>3. Ledger'
  <2>1. SameExcept(WeakSlots, wref, wref', {t}) /\ wref'[t] = b /\ wref[t] = NoBlock
    BY <1>1 DEF SameExcept, IInv, TypeOK
  <2>2. \A c : NW(c)' = NW(c) + Is(wref'[t], c) - Is(wref[t], c)
    BY <1>1, <2>1, WeakWrite
  <2>3. \A c \in Blocks : NW(c)' = NW(c) + Is(b, c) /\ NS(c)' = NS(c)
    BY <1>1, <2>1, <2>2, NumbersOfReferences DEF Is, NS
  <2>4. InStep
    BY <1>1, <2>3, NumbersOfReferences DEF InStep, Is, IInv, TypeOK
  <2>5. SamePhases
    BY <1>1 DEF SamePhases, Phases, Ending, LastUse, IInv, TypeOK
  <2> QED BY <1>1, <2>4, <2>5, LedgerStep DEF IInv, Ledger
<1>4. \A u \in Threads : OperationOK(u)'
  BY <1>1, ConstantsAssumption DEF IInv, TypeOK, OperationOK, CanRead, CanWrite, SlotsOK, SharedSlots, WeakSlots, Locking, Releasing, Ending, LastUse
<1>5. \A u \in Threads : TemporaryOK(u)'
  BY <1>1, ConstantsAssumption DEF IInv, TypeOK, TemporaryOK, OperationOK, SharedSlots, WeakSlots, Releasing
<1>6. SlotsOK' /\ PolicyOK'
  BY <1>1, Targets, ConstantsAssumption DEF IInv, TypeOK, SlotsOK, CanRead, CanWrite, Locking, PolicyOK
<1>7. MutexOK'
  BY <1>1 DEF IInv, TypeOK, MutexOK, Owned
<1>8. OwnersSeeLiveObject' /\ NoUseAfterFree'
  BY <1>1 DEF IInv, TypeOK, OwnersSeeLiveObject, NoUseAfterFree
<1>9. FastPathIsUnique'
  BY <1>1 DEF IInv, TypeOK, FastPathIsUnique, Owned, Observed, CanRead, CanWrite, OperationOK, Releasing, Locking
<1> QED BY <1>2, <1>3, <1>4, <1>5, <1>6, <1>7, <1>8, <1>9 DEF IInv, Ledger

LEMMA ResetWeakStep ==
  ASSUME IInv, NEW t \in Threads, NEW w \in WeakPtrs, ResetWeak(t, w)
  PROVE  IInv'
<1>1. /\ w \in WeakSlots /\ t \in WeakSlots /\ w # t /\ w # NoSlot /\ t # NoSlot /\ t \notin SharedPtrs
      /\ wref[w] \in Blocks /\ wref[t] = NoBlock /\ NoBlock \notin Blocks /\ life[wref[w]] # "free"
      /\ \A u \in Threads : pc[u] = "fast_store" => blk[u] # wref[w]
      /\ pc[t] = "idle" /\ CanWrite(w)
      /\ wref' = [wref EXCEPT ![w] = NoBlock, ![t] = wref[w]]
      /\ pc' = [pc EXCEPT ![t] = "weak_dec"] /\ blk' = [blk EXCEPT ![t] = wref[w]]
      /\ tgt' = [tgt EXCEPT ![t] = t] /\ src' = [src EXCEPT ![t] = NoSlot]
      /\ UNCHANGED <<use, weak, life, sref, mutex, cnt>>
  BY IdleThread, WeakIsUsed, ConstantsAssumption DEF ResetWeak, Begin, counts, WeakSlots
<1>2. TypeOK'
  BY <1>1 DEF IInv, TypeOK, Pcs, Slots, Locking, SharedSlots, WeakSlots
<1>3. Ledger'
  <2>1. SameExcept(WeakSlots, wref, wref', {w, t}) /\ w # t
    BY <1>1 DEF SameExcept, IInv, TypeOK
  <2>2. \A c : NW(c)' = NW(c) + Is(wref'[w], c) - Is(wref[w], c) + Is(wref'[t], c) - Is(wref[t], c)
    BY <1>1, <2>1, WeakWrite2
  <2>3. \A c \in Blocks : NW(c)' = NW(c) /\ NS(c)' = NS(c)
    BY <1>1, <2>2, NumbersOfReferences DEF Is, NS, IInv, TypeOK
  <2>4. InStep
    BY <1>1, <2>3, NumbersOfReferences DEF InStep, IInv, TypeOK
  <2>5. SamePhases
    BY <1>1 DEF SamePhases, Phases, Ending, LastUse, IInv, TypeOK
  <2> QED BY <1>1, <2>4, <2>5, LedgerStep DEF IInv, Ledger
<1>4. \A u \in Threads : OperationOK(u)'
  BY <1>1, ConstantsAssumption DEF IInv, TypeOK, OperationOK, CanRead, CanWrite, SlotsOK, SharedSlots, WeakSlots, Locking, Releasing, Ending, LastUse
<1>5. \A u \in Threads : TemporaryOK(u)'
  BY <1>1, ConstantsAssumption DEF IInv, TypeOK, TemporaryOK, OperationOK, SharedSlots, WeakSlots, Releasing
<1>6. SlotsOK' /\ PolicyOK'
  BY <1>1, Targets, ConstantsAssumption DEF IInv, TypeOK, SlotsOK, CanRead, CanWrite, Locking, PolicyOK
<1>7. MutexOK'
  BY <1>1 DEF IInv, TypeOK, MutexOK, Owned
<1>8. OwnersSeeLiveObject' /\ NoUseAfterFree'
  BY <1>1 DEF IInv, TypeOK, OwnersSeeLiveObject, NoUseAfterFree
<1>9. FastPathIsUnique'
  BY <1>1 DEF IInv, TypeOK, FastPathIsUnique, Owned, Observed, CanRead, CanWrite, OperationOK, Releasing, Locking
<1> QED BY <1>2, <1>3, <1>4, <1>5, <1>6, <1>7, <1>8, <1>9 DEF IInv, Ledger

LEMMA SwapWeakStep ==
  ASSUME IInv, NEW t \in Threads, NEW v \in WeakPtrs, NEW w \in WeakPtrs, SwapWeak(t, v, w)
  PROVE  IInv'
<1>1. /\ w \in WeakSlots /\ v \in WeakSlots /\ w # v
      /\ wref[w] \in Blocks \cup {NoBlock} /\ wref[v] \in Blocks \cup {NoBlock} /\ NoBlock \notin Blocks
      /\ pc[t] = "idle" /\ CanWrite(v) /\ CanWrite(w)
      /\ wref' = [wref EXCEPT ![w] = wref[v], ![v] = wref[w]]
      /\ UNCHANGED <<use, weak, life, sref, mutex, pc, blk, tgt, src, cnt>>
  BY ConstantsAssumption DEF SwapWeak, counts, control, IInv, TypeOK, WeakSlots
<1>2. TypeOK'
  BY <1>1 DEF IInv, TypeOK, Pcs, Slots, Locking, SharedSlots, WeakSlots
<1>3. Ledger'
  <2>1. SameExcept(WeakSlots, wref, wref', {w, v}) /\ w # v
    BY <1>1 DEF SameExcept, IInv, TypeOK
  <2>2. \A c : NW(c)' = NW(c) + Is(wref'[w], c) - Is(wref[w], c) + Is(wref'[v], c) - Is(wref[v], c)
    BY <1>1, <2>1, WeakWrite2
  <2>3. \A c \in Blocks : NW(c)' = NW(c) /\ NS(c)' = NS(c)
    BY <1>1, <2>2, NumbersOfReferences DEF Is, NS, IInv, TypeOK
  <2>4. InStep
    BY <1>1, <2>3, NumbersOfReferences DEF InStep, IInv, TypeOK
  <2>5. SamePhases
    BY <1>1 DEF SamePhases, Phases, Ending, LastUse, IInv, TypeOK
  <2> QED BY <1>1, <2>4, <2>5, LedgerStep DEF IInv, Ledger
<1>4. \A u \in Threads : OperationOK(u)'
  BY <1>1, ConstantsAssumption DEF IInv, TypeOK, OperationOK, CanRead, CanWrite, SlotsOK, SharedSlots, WeakSlots, Locking, Releasing, Ending, LastUse
<1>5. \A u \in Threads : TemporaryOK(u)'
  BY <1>1, ConstantsAssumption DEF IInv, TypeOK, TemporaryOK, OperationOK, SharedSlots, WeakSlots, Releasing
<1>6. SlotsOK' /\ PolicyOK'
  BY <1>1, Targets, ConstantsAssumption DEF IInv, TypeOK, SlotsOK, CanRead, CanWrite, Locking, PolicyOK
<1>7. MutexOK'
  BY <1>1 DEF IInv, TypeOK, MutexOK, Owned
<1>8. OwnersSeeLiveObject' /\ NoUseAfterFree'
  BY <1>1 DEF IInv, TypeOK, OwnersSeeLiveObject, NoUseAfterFree
<1>9. FastPathIsUnique'
  BY <1>1 DEF IInv, TypeOK, FastPathIsUnique, Owned, Observed, CanRead, CanWrite, OperationOK, Releasing, Locking
<1> QED BY <1>2, <1>3, <1>4, <1>5, <1>6, <1>7, <1>8, <1>9 DEF IInv, Ledger

LEMMA MoveAssignWeakStep ==
  ASSUME IInv, NEW t \in Threads, NEW v \in WeakPtrs, NEW w \in WeakPtrs, MoveAssignWeak(t, v, w)
  PROVE  IInv'
<1>1. /\ w \in WeakSlots /\ v \in WeakSlots /\ t \in WeakSlots /\ w # t /\ v # t /\ w # v /\ w # NoSlot /\ v # NoSlot /\ t # NoSlot
      /\ wref[v] \in Blocks \cup {NoBlock} /\ wref[w] \in Blocks /\ wref[t] = NoBlock /\ NoBlock \notin Blocks
      /\ life[wref[w]] # "free" /\ t \notin SharedPtrs
      /\ \A u \in Threads : pc[u] = "fast_store" => blk[u] # wref[w]
      /\ pc[t] = "idle" /\ CanWrite(v) /\ CanWrite(w)
      /\ wref' = [wref EXCEPT ![w] = wref[v], ![v] = NoBlock, ![t] = wref[w]]
      /\ pc' = [pc EXCEPT ![t] = "weak_dec"] /\ blk' = [blk EXCEPT ![t] = wref[w]]
      /\ tgt' = [tgt EXCEPT ![t] = t] /\ src' = [src EXCEPT ![t] = NoSlot]
      /\ UNCHANGED <<use, weak, life, sref, mutex, cnt>>
  BY IdleThread, WeakIsUsed, ConstantsAssumption DEF MoveAssignWeak, Begin, counts, WeakSlots, IInv, TypeOK
<1>2. TypeOK'
  BY <1>1 DEF IInv, TypeOK, Pcs, Slots, Locking, SharedSlots, WeakSlots
<1>3. Ledger'
  <2>1. SameExcept(WeakSlots, wref, wref', {w, v, t})
    BY <1>1 DEF SameExcept, IInv, TypeOK
  <2>2. \A c : NW(c)' = NW(c) + Is(wref'[w], c) - Is(wref[w], c)
                             + Is(wref'[v], c) - Is(wref[v], c)
                             + Is(wref'[t], c) - Is(wref[t], c)
    BY <1>1, <2>1, WeakWrite3
  <2>3. \A c \in Blocks : NW(c)' = NW(c) /\ NS(c)' = NS(c)
    BY <1>1, <2>2, NumbersOfReferences DEF Is, NS, IInv, TypeOK
  <2>4. InStep
    BY <1>1, <2>3, NumbersOfReferences DEF InStep, IInv, TypeOK
  <2>5. SamePhases
    BY <1>1 DEF SamePhases, Phases, Ending, LastUse, IInv, TypeOK
  <2> QED BY <1>1, <2>4, <2>5, LedgerStep DEF IInv, Ledger
<1>4. \A u \in Threads : OperationOK(u)'
  BY <1>1, ConstantsAssumption DEF IInv, TypeOK, OperationOK, CanRead, CanWrite, SlotsOK, SharedSlots, WeakSlots, Locking, Releasing, Ending, LastUse
<1>5. \A u \in Threads : TemporaryOK(u)'
  BY <1>1, ConstantsAssumption DEF IInv, TypeOK, TemporaryOK, OperationOK, SharedSlots, WeakSlots, Releasing
<1>6. SlotsOK' /\ PolicyOK'
  BY <1>1, Targets, ConstantsAssumption DEF IInv, TypeOK, SlotsOK, CanRead, CanWrite, Locking, PolicyOK
<1>7. MutexOK'
  BY <1>1 DEF IInv, TypeOK, MutexOK, Owned
<1>8. OwnersSeeLiveObject' /\ NoUseAfterFree'
  BY <1>1 DEF IInv, TypeOK, OwnersSeeLiveObject, NoUseAfterFree
<1>9. FastPathIsUnique'
  BY <1>1 DEF IInv, TypeOK, FastPathIsUnique, Owned, Observed, CanRead, CanWrite, OperationOK, Releasing, Locking
<1> QED BY <1>2, <1>3, <1>4, <1>5, <1>6, <1>7, <1>8, <1>9 DEF IInv, Ledger

LEMMA ConvertMoveWeakStep ==
  ASSUME IInv, NEW t \in Threads, NEW v \in WeakPtrs, NEW w \in WeakPtrs, ConvertMoveWeak(t, v, w)
  PROVE  IInv'
<1>1. /\ w \in WeakSlots /\ v \in WeakSlots /\ w # v /\ w # NoSlot /\ v # NoSlot /\ w \notin SharedSlots /\ w # t /\ v # t
      /\ wref[w] \in Blocks /\ NoBlock \notin Blocks /\ life[wref[w]] # "free"
      /\ \A u \in Threads : pc[u] = "fast_store" => blk[u] # wref[w]
      /\ sref[t] = NoBlock /\ wref[t] = NoBlock
      /\ pc[t] = "idle" /\ CanWrite(v) /\ CanWrite(w)
      /\ pc' = [pc EXCEPT ![t] = "weak_dec"] /\ blk' = [blk EXCEPT ![t] = wref[w]]
      /\ tgt' = [tgt EXCEPT ![t] = w] /\ src' = [src EXCEPT ![t] = v]
      /\ UNCHANGED <<use, weak, life, sref, wref, mutex, cnt>>
  BY IdleThread, WeakIsUsed, ConstantsAssumption DEF ConvertMoveWeak, Begin, counts, refs, WeakSlots, SharedSlots
<1>2. TypeOK'
  BY <1>1 DEF IInv, TypeOK, Pcs, Slots, Locking, SharedSlots, WeakSlots
<1>3. Ledger'
  <2>1. InStep
    BY <1>1, NumbersOfReferences DEF InStep, NS, NW, IInv, TypeOK
  <2>2. SamePhases
    BY <1>1 DEF SamePhases, Phases, Ending, LastUse, IInv, TypeOK
  <2> QED BY <1>1, <2>1, <2>2, LedgerStep DEF IInv, Ledger
<1>4. \A u \in Threads : OperationOK(u)'
  BY <1>1, ConstantsAssumption DEF IInv, TypeOK, OperationOK, CanRead, CanWrite, SlotsOK, SharedSlots, WeakSlots, Locking, Releasing, Ending, LastUse
<1>5. \A u \in Threads : TemporaryOK(u)'
  BY <1>1, ConstantsAssumption DEF IInv, TypeOK, TemporaryOK, OperationOK, SharedSlots, WeakSlots, Releasing
<1>6. SlotsOK' /\ PolicyOK'
  BY <1>1, Targets, ConstantsAssumption DEF IInv, TypeOK, SlotsOK, CanRead, CanWrite, Locking, PolicyOK
<1>7. MutexOK'
  BY <1>1 DEF IInv, TypeOK, MutexOK, Owned
<1>8. OwnersSeeLiveObject' /\ NoUseAfterFree'
  BY <1>1 DEF IInv, TypeOK, OwnersSeeLiveObject, NoUseAfterFree
<1>9. FastPathIsUnique'
  BY <1>1 DEF IInv, TypeOK, FastPathIsUnique, Owned, Observed, CanRead, CanWrite, OperationOK, Releasing, Locking
<1> QED BY <1>2, <1>3, <1>4, <1>5, <1>6, <1>7, <1>8, <1>9 DEF IInv, Ledger

LEMMA LockLoadStep ==
  ASSUME IInv, NEW t \in Threads, NEW w \in WeakPtrs, NEW p \in SharedPtrs, LockLoad(t, w, p)
  PROVE  IInv'
<1>1. /\ w # NoSlot /\ p # NoSlot /\ p \in SharedSlots /\ w \in WeakSlots /\ p \notin WeakPtrs /\ w \notin SharedPtrs /\ p # t /\ w # t
      /\ wref[w] \in Blocks /\ sref[p] = NoBlock /\ NoBlock \notin Blocks /\ life[wref[w]] # "free"
      /\ \A u \in Threads : pc[u] = "fast_store" => blk[u] # wref[w]
      /\ sref[t] = NoBlock /\ wref[t] = NoBlock
      /\ pc[t] = "idle" /\ CanRead(w) /\ CanWrite(p) /\ Policy = "atomic" /\ use[wref[w]] # 0
      /\ pc' = [pc EXCEPT ![t] = "cas"] /\ blk' = [blk EXCEPT ![t] = wref[w]]
      /\ tgt' = [tgt EXCEPT ![t] = p] /\ src' = [src EXCEPT ![t] = w]
      /\ cnt' = [cnt EXCEPT ![t] = use[wref[w]]]
      /\ UNCHANGED <<use, weak, life, sref, wref, mutex>>
  BY IdleThread, WeakIsUsed, ConstantsAssumption DEF LockLoad, CanLock, counts, refs, WeakSlots, SharedSlots
<1>2. TypeOK'
  BY <1>1 DEF IInv, TypeOK, Pcs, Slots, Locking, SharedSlots, WeakSlots
<1>3. Ledger'
  <2>1. InStep
    BY <1>1, NumbersOfReferences DEF InStep, NS, NW, IInv, TypeOK
  <2>2. SamePhases
    BY <1>1 DEF SamePhases, Phases, Ending, LastUse, IInv, TypeOK
  <2> QED BY <1>1, <2>1, <2>2, LedgerStep DEF IInv, Ledger
<1>4. \A u \in Threads : OperationOK(u)'
  BY <1>1, ConstantsAssumption DEF IInv, TypeOK, OperationOK, CanRead, CanWrite, SlotsOK, SharedSlots, WeakSlots, Locking, Releasing, Ending, LastUse
<1>5. \A u \in Threads : TemporaryOK(u)'
  BY <1>1, ConstantsAssumption DEF IInv, TypeOK, TemporaryOK, OperationOK, SharedSlots, WeakSlots, Releasing
<1>6. SlotsOK' /\ PolicyOK'
  BY <1>1, Targets, ConstantsAssumption DEF IInv, TypeOK, SlotsOK, CanRead, CanWrite, Locking, PolicyOK
<1>7. MutexOK'
  BY <1>1 DEF IInv, TypeOK, MutexOK, Owned
<1>8. OwnersSeeLiveObject' /\ NoUseAfterFree'
  BY <1>1 DEF IInv, TypeOK, OwnersSeeLiveObject, NoUseAfterFree
<1>9. FastPathIsUnique'
  BY <1>1 DEF IInv, TypeOK, FastPathIsUnique, Owned, Observed, CanRead, CanWrite, OperationOK, Releasing, Locking
<1> QED BY <1>2, <1>3, <1>4, <1>5, <1>6, <1>7, <1>8, <1>9 DEF IInv, Ledger

LEMMA LockMutexStep ==
  ASSUME IInv, NEW t \in Threads, NEW w \in WeakPtrs, NEW p \in SharedPtrs, LockMutex(t, w, p)
  PROVE  IInv'
<1>1. /\ w # NoSlot /\ p # NoSlot /\ p \in SharedSlots /\ w \in WeakSlots /\ p \notin WeakPtrs /\ w \notin SharedPtrs /\ p # t /\ w # t
      /\ wref[w] \in Blocks /\ sref[p] = NoBlock /\ NoBlock \notin Blocks /\ life[wref[w]] # "free"
      /\ \A u \in Threads : pc[u] = "fast_store" => blk[u] # wref[w]
      /\ sref[t] = NoBlock /\ wref[t] = NoBlock
      /\ pc[t] = "idle" /\ CanRead(w) /\ CanWrite(p) /\ Policy = "mutex"
      /\ pc' = [pc EXCEPT ![t] = "mutex_wait"] /\ blk' = [blk EXCEPT ![t] = wref[w]]
      /\ tgt' = [tgt EXCEPT ![t] = p] /\ src' = [src EXCEPT ![t] = w]
      /\ UNCHANGED <<use, weak, life, sref, wref, mutex, cnt>>
  BY IdleThread, WeakIsUsed, ConstantsAssumption DEF LockMutex, CanLock, Begin, counts, refs, WeakSlots, SharedSlots
<1>2. TypeOK'
  BY <1>1 DEF IInv, TypeOK, Pcs, Slots, Locking, SharedSlots, WeakSlots
<1>3. Ledger'
  <2>1. InStep
    BY <1>1, NumbersOfReferences DEF InStep, NS, NW, IInv, TypeOK
  <2>2. SamePhases
    BY <1>1 DEF SamePhases, Phases, Ending, LastUse, IInv, TypeOK
  <2> QED BY <1>1, <2>1, <2>2, LedgerStep DEF IInv, Ledger
<1>4. \A u \in Threads : OperationOK(u)'
  BY <1>1, ConstantsAssumption DEF IInv, TypeOK, OperationOK, CanRead, CanWrite, SlotsOK, SharedSlots, WeakSlots, Locking, Releasing, Ending, LastUse
<1>5. \A u \in Threads : TemporaryOK(u)'
  BY <1>1, ConstantsAssumption DEF IInv, TypeOK, TemporaryOK, OperationOK, SharedSlots, WeakSlots, Releasing
<1>6. SlotsOK' /\ PolicyOK'
  BY <1>1, Targets, ConstantsAssumption DEF IInv, TypeOK, SlotsOK, CanRead, CanWrite, Locking, PolicyOK
<1>7. MutexOK'
  BY <1>1 DEF IInv, TypeOK, MutexOK, Owned
<1>8. OwnersSeeLiveObject' /\ NoUseAfterFree'
  BY <1>1 DEF IInv, TypeOK, OwnersSeeLiveObject, NoUseAfterFree
<1>9. FastPathIsUnique'
  BY <1>1 DEF IInv, TypeOK, FastPathIsUnique, Owned, Observed, CanRead, CanWrite, OperationOK, Releasing, Locking
<1> QED BY <1>2, <1>3, <1>4, <1>5, <1>6, <1>7, <1>8, <1>9 DEF IInv, Ledger

LEMMA NewStep ==
  ASSUME IInv, NEW t \in Threads, NEW p \in SharedPtrs, NEW b \in Blocks, New(t, p, b)
  PROVE  IInv'
<1>1. /\ p \in SharedSlots /\ sref[p] = NoBlock /\ NoBlock \notin Blocks
      /\ \A u \in Threads : blk[u] = b => pc[u] = "store"
      /\ pc[t] = "idle" /\ CanWrite(p)
      /\ life[b] = "free" /\ life' = [life EXCEPT ![b] = "alive"]
      /\ use' = [use EXCEPT ![b] = 1] /\ weak' = [weak EXCEPT ![b] = 1]
      /\ sref' = [sref EXCEPT ![p] = b]
      /\ UNCHANGED <<mutex, wref, pc, blk, tgt, src, cnt>>
  BY ConstantsAssumption DEF New, control, SharedSlots, IInv, NoUseAfterFree
<1>2. TypeOK'
  BY <1>1 DEF IInv, TypeOK, Pcs, Slots, Locking, SharedSlots, WeakSlots
<1>3. Ledger'
  <2>1. SameExcept(SharedSlots, sref, sref', {p}) /\ sref'[p] = b
    BY <1>1 DEF SameExcept, IInv, TypeOK
  <2>2. \A c : NS(c)' = NS(c) + Is(sref'[p], c) - Is(sref[p], c)
    BY <1>1, <2>1, SharedWrite
  <2>3. \A c \in Blocks : NS(c)' = NS(c) + Is(b, c) /\ NW(c)' = NW(c)
    BY <1>1, <2>1, <2>2, NumbersOfReferences DEF Is, NW
  <2>4. /\ ~Owned(b) /\ ~Observed(b)
        /\ \A u \in Threads : pc[u] \in Phases => blk[u] # b
    BY <1>1 DEF IInv, TypeOK, Owned, Observed, OwnersSeeLiveObject, NoUseAfterFree, Phases, Ending, LastUse, OperationOK
  <2>5. \A c \in Blocks : /\ Owned(c)' <=> (Owned(c) \/ c = b)
                          /\ Observed(c)' <=> Observed(c)
    BY <2>3, NumbersOfReferences, NumbersOfReferencesNext DEF Is
  <2>6. \A P, c : SomeAt(P, c)' <=> SomeAt(P, c)
    BY <1>1 DEF SomeAt
  <2>7. CountsAreReferences'
    <3> SUFFICES ASSUME NEW c \in Blocks
                 PROVE  use'[c] = NS(c)' + Resetting(c)' /\ weak'[c] = NW(c)' + OwnersWeakCount(c)'
      BY CountsAsNumbersNext
    <3>1. use[c] = NS(c) + Resetting(c) /\ weak[c] = NW(c) + OwnersWeakCount(c)
      BY CountsAsNumbers DEF IInv
    <3>2. CASE c # b
      BY <1>1, <2>3, <2>5, <2>6, <3>1, <3>2, NumbersOfReferences DEF IInv, TypeOK, Resetting, OwnersWeakCount, Is
    <3>3. CASE c = b
      <4>1. Resetting(c)' = 0 /\ OwnersWeakCount(c)' = 1
        BY <1>1, <2>4, <2>5, <3>3 DEF Resetting, OwnersWeakCount, SomeAt, Phases
      <4>2. NS(c) = 0 /\ NW(c) = 0
        BY <2>4, <3>3, NumbersOfReferences
      <4> QED BY <1>1, <2>3, <3>3, <4>1, <4>2 DEF IInv, TypeOK, Is
    <3> QED BY <3>2, <3>3
  <2>8. LastUserIsAlone'
    <3>1. \A u \in Threads : pc[u] \in Ending => blk[u] \in Blocks /\ blk[u] # b
      BY <2>4 DEF IInv, TypeOK, OperationOK, Ending, LastUse, Phases
    <3> QED BY <1>1, <2>5, <3>1 DEF IInv, TypeOK, LastUserIsAlone, Ending
  <2>9. NoLeak'
    BY <1>1, <2>5, <2>6 DEF IInv, TypeOK, NoLeak
  <2> QED BY <2>7, <2>8, <2>9 DEF Ledger
<1>4. \A u \in Threads : OperationOK(u)'
  BY <1>1, ConstantsAssumption DEF IInv, TypeOK, OperationOK, CanRead, CanWrite, SlotsOK, SharedSlots, WeakSlots, Locking, Releasing, Ending, LastUse
<1>5. \A u \in Threads : TemporaryOK(u)'
  BY <1>1, ConstantsAssumption DEF IInv, TypeOK, TemporaryOK, OperationOK, SharedSlots, WeakSlots, Releasing
<1>6. SlotsOK' /\ PolicyOK'
  BY <1>1, Targets, ConstantsAssumption DEF IInv, TypeOK, SlotsOK, CanRead, CanWrite, Locking, PolicyOK
<1>7. MutexOK'
  BY <1>1 DEF IInv, TypeOK, MutexOK, Owned
<1>8. OwnersSeeLiveObject' /\ NoUseAfterFree'
  BY <1>1 DEF IInv, TypeOK, OwnersSeeLiveObject, NoUseAfterFree
<1>9. FastPathIsUnique'
  BY <1>1 DEF IInv, TypeOK, FastPathIsUnique, Owned, Observed, CanRead, CanWrite, OperationOK, Releasing, Locking
<1> QED BY <1>2, <1>3, <1>4, <1>5, <1>6, <1>7, <1>8, <1>9 DEF IInv, Ledger

LEMMA LoadBothStep ==
  ASSUME IInv, NEW t \in Threads, LoadBoth(t)
  PROVE  IInv'
<1> DEFINE b == blk[t]
<1>1. /\ pc[t] = "load_both" /\ b \in Blocks /\ NoBlock \notin Blocks /\ sref[tgt[t]] = b /\ Owned(b) /\ UniqueFastPath
      /\ pc' = [pc EXCEPT ![t] = IF use[b] = 1 /\ weak[b] = 1 THEN "fast_store" ELSE "dec_use"]
      /\ UNCHANGED <<use, weak, mutex, life, sref, wref, blk, tgt, src, cnt>>
  BY ConstantsAssumption DEF LoadBoth, Goto, counts, refs, IInv, TypeOK, OperationOK, Releasing, SharedSlots, Owned, PolicyOK
<1>2. TypeOK'
  BY <1>1 DEF IInv, TypeOK, Pcs, Slots, Locking, SharedSlots, WeakSlots
<1>3. Ledger'
  <2>1. InStep
    BY <1>1, NumbersOfReferences DEF InStep, NS, NW, IInv, TypeOK
  <2>2. SamePhases
    BY <1>1 DEF SamePhases, Phases, Ending, LastUse, IInv, TypeOK
  <2> QED BY <1>1, <2>1, <2>2, LedgerStep DEF IInv, Ledger
<1>4. \A u \in Threads : OperationOK(u)'
  BY <1>1, ConstantsAssumption DEF IInv, TypeOK, OperationOK, CanRead, CanWrite, SlotsOK, SharedSlots, WeakSlots, Locking, Releasing, Ending, LastUse
<1>5. \A u \in Threads : TemporaryOK(u)'
  BY <1>1, ConstantsAssumption DEF IInv, TypeOK, TemporaryOK, OperationOK, SharedSlots, WeakSlots, Releasing
<1>6. SlotsOK' /\ PolicyOK'
  BY <1>1, Targets, ConstantsAssumption DEF IInv, TypeOK, SlotsOK, CanRead, CanWrite, Locking, PolicyOK
<1>7. MutexOK'
  BY <1>1 DEF IInv, TypeOK, MutexOK, Owned
<1>8. OwnersSeeLiveObject' /\ NoUseAfterFree'
  BY <1>1 DEF IInv, TypeOK, OwnersSeeLiveObject, NoUseAfterFree
<1>9. FastPathIsUnique'
  <2>1. ASSUME use[b] = 1 /\ weak[b] = 1
        PROVE  /\ \A s \in SharedSlots : sref[s] = b => s = tgt[t]
               /\ ~Observed(b)
    <3>1. use[b] = NS(b) + Resetting(b) /\ weak[b] = NW(b) + OwnersWeakCount(b)
      BY <1>1, CountsAsNumbers DEF IInv
    <3>2. Resetting(b) \in Nat /\ OwnersWeakCount(b) = 1 /\ NS(b) # 0
      BY <1>1, NumbersOfReferences DEF Resetting, OwnersWeakCount
    <3>3. NS(b) = 1 /\ NW(b) = 0
      BY <2>1, <3>1, <3>2, NumbersOfReferences
    <3> QED BY <1>1, <3>3, NumbersOfReferences, OnlyReference DEF IInv, OperationOK, Releasing
  <2>2. ASSUME use[b] = 1 /\ weak[b] = 1, NEW u \in Threads \ {t}, pc[u] # "store"
        PROVE  blk[u] # b
    <3>1. CASE pc[u] \in Releasing
      BY <1>1, <2>1, <2>2, <3>1, ConstantsAssumption DEF IInv, OperationOK, SlotsOK, SharedSlots, TypeOK
    <3>2. CASE pc[u] \in Ending
      BY <1>1, <3>2 DEF IInv, LastUserIsAlone
    <3>3. CASE pc[u] \in Locking \cup {"weak_dec"}
      BY <2>1, <2>2, <3>3 DEF IInv, OperationOK, Observed, WeakSlots
    <3>4. CASE pc[u] = "idle"
      BY <1>1, <3>4 DEF IInv, OperationOK
    <3> QED BY <2>2, <3>1, <3>2, <3>3, <3>4 DEF IInv, TypeOK, Pcs, Releasing, Ending, LastUse, Locking
  <2>3. ASSUME NEW u \in Threads, pc'[u] = "fast_store", u # t
        PROVE  pc[u] = "fast_store" /\ blk[u] # b
    BY <1>1, <2>3 DEF IInv, TypeOK, FastPathIsUnique
  <2> QED BY <1>1, <2>1, <2>2, <2>3 DEF IInv, TypeOK, FastPathIsUnique, Observed
<1> QED BY <1>2, <1>3, <1>4, <1>5, <1>6, <1>7, <1>8, <1>9 DEF IInv, Ledger

LEMMA CasFailsRetryStep ==
  ASSUME IInv, NEW t \in Threads, CasFails(t), use[blk[t]] # 0
  PROVE  IInv'
<1> DEFINE b == blk[t]
<1>1. /\ pc[t] = "cas" /\ b \in Blocks /\ NoBlock \notin Blocks
      /\ cnt' = [cnt EXCEPT ![t] = use[b]] /\ use[b] # 0
      /\ UNCHANGED <<use, weak, mutex, life, sref, wref, pc, blk, tgt, src>>
  BY ConstantsAssumption DEF CasFails, Return, counts, refs, IInv, TypeOK, OperationOK
<1>2. TypeOK'
  BY <1>1 DEF IInv, TypeOK, Pcs, Slots, Locking, SharedSlots, WeakSlots
<1>3. Ledger'
  <2>1. InStep
    BY <1>1, NumbersOfReferences DEF InStep, NS, NW, IInv, TypeOK
  <2>2. SamePhases
    BY <1>1 DEF SamePhases, Phases, Ending, LastUse, IInv, TypeOK
  <2> QED BY <1>1, <2>1, <2>2, LedgerStep DEF IInv, Ledger
<1>4. \A u \in Threads : OperationOK(u)'
  BY <1>1, ConstantsAssumption DEF IInv, TypeOK, OperationOK, CanRead, CanWrite, SlotsOK, SharedSlots, WeakSlots, Locking, Releasing, Ending, LastUse
<1>5. \A u \in Threads : TemporaryOK(u)'
  BY <1>1, ConstantsAssumption DEF IInv, TypeOK, TemporaryOK, OperationOK, SharedSlots, WeakSlots, Releasing
<1>6. SlotsOK' /\ PolicyOK'
  BY <1>1, Targets, ConstantsAssumption DEF IInv, TypeOK, SlotsOK, CanRead, CanWrite, Locking, PolicyOK
<1>7. MutexOK'
  BY <1>1 DEF IInv, TypeOK, MutexOK, Owned
<1>8. OwnersSeeLiveObject' /\ NoUseAfterFree'
  BY <1>1 DEF IInv, TypeOK, OwnersSeeLiveObject, NoUseAfterFree
<1>9. FastPathIsUnique'
  BY <1>1 DEF IInv, TypeOK, FastPathIsUnique, Owned, Observed, CanRead, CanWrite, OperationOK, Releasing, Locking
<1> QED BY <1>2, <1>3, <1>4, <1>5, <1>6, <1>7, <1>8, <1>9 DEF IInv, Ledger

LEMMA CasFailsEmptyStep ==
  ASSUME IInv, NEW t \in Threads, CasFails(t), use[blk[t]] = 0
  PROVE  IInv'
<1> DEFINE b == blk[t]
<1>1. /\ pc[t] = "cas" /\ b \in Blocks /\ NoBlock \notin Blocks
      /\ pc' = [pc EXCEPT ![t] = "idle"] /\ blk' = [blk EXCEPT ![t] = NoBlock]
      /\ tgt' = [tgt EXCEPT ![t] = NoSlot] /\ src' = [src EXCEPT ![t] = NoSlot]
      /\ cnt' = [cnt EXCEPT ![t] = 0]
      /\ sref[t] = NoBlock /\ wref[t] = NoBlock
      /\ UNCHANGED <<use, weak, mutex, life, sref, wref>>
  BY ConstantsAssumption DEF CasFails, Return, counts, refs, IInv, TypeOK, OperationOK, TemporaryOK, Releasing, Locking
<1>2. TypeOK'
  BY <1>1 DEF IInv, TypeOK, Pcs, Slots, Locking, SharedSlots, WeakSlots
<1>3. Ledger'
  <2>1. InStep
    BY <1>1, NumbersOfReferences DEF InStep, NS, NW, IInv, TypeOK
  <2>2. SamePhases
    BY <1>1 DEF SamePhases, Phases, Ending, LastUse, IInv, TypeOK
  <2> QED BY <1>1, <2>1, <2>2, LedgerStep DEF IInv, Ledger
<1>4. \A u \in Threads : OperationOK(u)'
  BY <1>1, ConstantsAssumption DEF IInv, TypeOK, OperationOK, CanRead, CanWrite, SlotsOK, SharedSlots, WeakSlots, Locking, Releasing, Ending, LastUse
<1>5. \A u \in Threads : TemporaryOK(u)'
  BY <1>1, ConstantsAssumption DEF IInv, TypeOK, TemporaryOK, OperationOK, SharedSlots, WeakSlots, Releasing
<1>6. SlotsOK' /\ PolicyOK'
  BY <1>1, Targets, ConstantsAssumption DEF IInv, TypeOK, SlotsOK, CanRead, CanWrite, Locking, PolicyOK
<1>7. MutexOK'
  BY <1>1 DEF IInv, TypeOK, MutexOK, Owned
<1>8. OwnersSeeLiveObject' /\ NoUseAfterFree'
  BY <1>1 DEF IInv, TypeOK, OwnersSeeLiveObject, NoUseAfterFree
<1>9. FastPathIsUnique'
  BY <1>1 DEF IInv, TypeOK, FastPathIsUnique, Owned, Observed, CanRead, CanWrite, OperationOK, Releasing, Locking
<1> QED BY <1>2, <1>3, <1>4, <1>5, <1>6, <1>7, <1>8, <1>9 DEF IInv, Ledger

LEMMA MutexAcquireStep ==
  ASSUME IInv, NEW t \in Threads, MutexAcquire(t)
  PROVE  IInv'
<1> DEFINE b == blk[t]
<1>1. /\ pc[t] = "mutex_wait" /\ b \in Blocks /\ NoBlock \notin Blocks /\ b \notin mutex
      /\ mutex' = mutex \cup {b} /\ pc' = [pc EXCEPT ![t] = "mutex_add"]
      /\ UNCHANGED <<use, weak, life, sref, wref, blk, tgt, src, cnt>>
  BY ConstantsAssumption DEF MutexAcquire, Goto, refs, IInv, TypeOK, OperationOK
<1>2. TypeOK'
  BY <1>1 DEF IInv, TypeOK, Pcs, Slots, Locking, SharedSlots, WeakSlots
<1>3. Ledger'
  <2>1. InStep
    BY <1>1, NumbersOfReferences DEF InStep, NS, NW, IInv, TypeOK
  <2>2. SamePhases
    BY <1>1 DEF SamePhases, Phases, Ending, LastUse, IInv, TypeOK
  <2> QED BY <1>1, <2>1, <2>2, LedgerStep DEF IInv, Ledger
<1>4. \A u \in Threads : OperationOK(u)'
  BY <1>1, ConstantsAssumption DEF IInv, TypeOK, OperationOK, CanRead, CanWrite, SlotsOK, SharedSlots, WeakSlots, Locking, Releasing, Ending, LastUse
<1>5. \A u \in Threads : TemporaryOK(u)'
  BY <1>1, ConstantsAssumption DEF IInv, TypeOK, TemporaryOK, OperationOK, SharedSlots, WeakSlots, Releasing
<1>6. SlotsOK' /\ PolicyOK'
  BY <1>1, Targets, ConstantsAssumption DEF IInv, TypeOK, SlotsOK, CanRead, CanWrite, Locking, PolicyOK
<1>7. MutexOK'
  BY <1>1 DEF IInv, TypeOK, MutexOK, Owned
<1>8. OwnersSeeLiveObject' /\ NoUseAfterFree'
  BY <1>1 DEF IInv, TypeOK, OwnersSeeLiveObject, NoUseAfterFree
<1>9. FastPathIsUnique'
  BY <1>1 DEF IInv, TypeOK, FastPathIsUnique, Owned, Observed, CanRead, CanWrite, OperationOK, Releasing, Locking
<1> QED BY <1>2, <1>3, <1>4, <1>5, <1>6, <1>7, <1>8, <1>9 DEF IInv, Ledger

LEMMA StoreSharedStep ==
  ASSUME IInv, NEW t \in Threads, NEW p, tgt[t] = p, p \in SharedPtrs, Store(t)
  PROVE  IInv'
<1>1. /\ pc[t] = "store" /\ blk[t] \in Blocks /\ NoBlock \notin Blocks /\ p # t /\ t # NoSlot /\ p \in SharedSlots /\ t \in SharedSlots
      /\ sref[p] = NoBlock /\ sref[t] \in Blocks \cup {NoBlock} /\ src[t] = t /\ wref[t] = NoBlock
      /\ sref' = [sref EXCEPT ![p] = sref[t], ![t] = NoBlock]
      /\ pc' = [pc EXCEPT ![t] = "idle"] /\ blk' = [blk EXCEPT ![t] = NoBlock]
      /\ tgt' = [tgt EXCEPT ![t] = NoSlot] /\ src' = [src EXCEPT ![t] = NoSlot]
      /\ cnt' = [cnt EXCEPT ![t] = 0]
      /\ UNCHANGED <<use, weak, mutex, life, wref>>
  BY ConstantsAssumption DEF Store, Return, counts, IInv, TypeOK, OperationOK, TemporaryOK, Releasing, Ending, LastUse, SharedSlots, WeakSlots
<1>2. TypeOK'
  BY <1>1 DEF IInv, TypeOK, Pcs, Slots, Locking, SharedSlots, WeakSlots
<1>3. Ledger'
  <2>1. SameExcept(SharedSlots, sref, sref', {p, t}) /\ p # t
    BY <1>1 DEF SameExcept, IInv, TypeOK
  <2>2. \A c : NS(c)' = NS(c) + Is(sref'[p], c) - Is(sref[p], c) + Is(sref'[t], c) - Is(sref[t], c)
    BY <1>1, <2>1, SharedWrite2
  <2>3. \A c \in Blocks : NS(c)' = NS(c) /\ NW(c)' = NW(c)
    BY <1>1, <2>2, NumbersOfReferences DEF Is, NW, IInv, TypeOK
  <2>4. InStep
    BY <1>1, <2>3, NumbersOfReferences DEF InStep, IInv, TypeOK
  <2>5. SamePhases
    BY <1>1 DEF SamePhases, Phases, Ending, LastUse, IInv, TypeOK
  <2> QED BY <1>1, <2>4, <2>5, LedgerStep DEF IInv, Ledger
<1>4. \A u \in Threads : OperationOK(u)'
  BY <1>1, ConstantsAssumption DEF IInv, TypeOK, OperationOK, CanRead, CanWrite, SlotsOK, SharedSlots, WeakSlots, Locking, Releasing, Ending, LastUse
<1>5. \A u \in Threads : TemporaryOK(u)'
  BY <1>1, ConstantsAssumption DEF IInv, TypeOK, TemporaryOK, OperationOK, SharedSlots, WeakSlots, Releasing
<1>6. SlotsOK' /\ PolicyOK'
  BY <1>1, Targets, ConstantsAssumption DEF IInv, TypeOK, SlotsOK, CanRead, CanWrite, Locking, PolicyOK
<1>7. MutexOK'
  BY <1>1 DEF IInv, TypeOK, MutexOK, Owned
<1>8. OwnersSeeLiveObject' /\ NoUseAfterFree'
  BY <1>1 DEF IInv, TypeOK, OwnersSeeLiveObject, NoUseAfterFree
<1>9. FastPathIsUnique'
  <2>1. \A u \in Threads : pc[u] = "fast_store" => u # t /\ blk[u] # sref[t] /\ blk[u] # NoBlock
    BY <1>1 DEF IInv, TypeOK, FastPathIsUnique, OperationOK, SlotsOK, Releasing
  <2> QED BY <1>1, <2>1 DEF IInv, TypeOK, FastPathIsUnique, Observed
<1> QED BY <1>2, <1>3, <1>4, <1>5, <1>6, <1>7, <1>8, <1>9 DEF IInv, Ledger

LEMMA StoreWeakStep ==
  ASSUME IInv, NEW t \in Threads, NEW w, tgt[t] = w, w \in WeakPtrs, NEW v, src[t] = v, Store(t)
  PROVE  IInv'
<1>1. /\ pc[t] = "store" /\ blk[t] \in Blocks /\ NoBlock \notin Blocks /\ w # v /\ t # NoSlot /\ w \in WeakSlots /\ v \in WeakSlots /\ v \in WeakPtrs \cup {t} /\ w # t
      /\ wref[w] = NoBlock /\ wref[v] \in Blocks \cup {NoBlock} /\ sref[t] = NoBlock
      /\ v # t => wref[t] = NoBlock
      /\ wref' = [wref EXCEPT ![w] = wref[v], ![v] = NoBlock]
      /\ pc' = [pc EXCEPT ![t] = "idle"] /\ blk' = [blk EXCEPT ![t] = NoBlock]
      /\ tgt' = [tgt EXCEPT ![t] = NoSlot] /\ src' = [src EXCEPT ![t] = NoSlot]
      /\ cnt' = [cnt EXCEPT ![t] = 0]
      /\ UNCHANGED <<use, weak, mutex, life, sref>>
  BY ConstantsAssumption DEF Store, Return, counts, IInv, TypeOK, OperationOK, TemporaryOK, Releasing, Ending, LastUse, SharedSlots, WeakSlots
<1>2. TypeOK'
  BY <1>1 DEF IInv, TypeOK, Pcs, Slots, Locking, SharedSlots, WeakSlots
<1>3. Ledger'
  <2>1. SameExcept(WeakSlots, wref, wref', {w, v}) /\ w # v
    BY <1>1 DEF SameExcept, IInv, TypeOK
  <2>2. \A c : NW(c)' = NW(c) + Is(wref'[w], c) - Is(wref[w], c) + Is(wref'[v], c) - Is(wref[v], c)
    BY <1>1, <2>1, WeakWrite2
  <2>3. \A c \in Blocks : NW(c)' = NW(c) /\ NS(c)' = NS(c)
    BY <1>1, <2>2, NumbersOfReferences DEF Is, NS, IInv, TypeOK
  <2>4. InStep
    BY <1>1, <2>3, NumbersOfReferences DEF InStep, IInv, TypeOK
  <2>5. SamePhases
    BY <1>1 DEF SamePhases, Phases, Ending, LastUse, IInv, TypeOK
  <2> QED BY <1>1, <2>4, <2>5, LedgerStep DEF IInv, Ledger
<1>4. \A u \in Threads : OperationOK(u)'
  BY <1>1, ConstantsAssumption DEF IInv, TypeOK, OperationOK, CanRead, CanWrite, SlotsOK, SharedSlots, WeakSlots, Locking, Releasing, Ending, LastUse
<1>5. \A u \in Threads : TemporaryOK(u)'
  BY <1>1, ConstantsAssumption DEF IInv, TypeOK, TemporaryOK, OperationOK, SharedSlots, WeakSlots, Releasing
<1>6. SlotsOK' /\ PolicyOK'
  BY <1>1, Targets, ConstantsAssumption DEF IInv, TypeOK, SlotsOK, CanRead, CanWrite, Locking, PolicyOK
<1>7. MutexOK'
  BY <1>1 DEF IInv, TypeOK, MutexOK, Owned
<1>8. OwnersSeeLiveObject' /\ NoUseAfterFree'
  BY <1>1 DEF IInv, TypeOK, OwnersSeeLiveObject, NoUseAfterFree
<1>9. FastPathIsUnique'
  BY <1>1 DEF IInv, TypeOK, FastPathIsUnique, Owned, Observed, CanRead, CanWrite, OperationOK, Releasing, Locking
<1> QED BY <1>2, <1>3, <1>4, <1>5, <1>6, <1>7, <1>8, <1>9 DEF IInv, Ledger

LEMMA CasSucceedsStep ==
  ASSUME IInv, NEW t \in Threads, NEW p, p = tgt[t], CasSucceeds(t)
  PROVE  IInv'
<1> DEFINE b == blk[t]
<1>1. /\ p \in SharedSlots /\ p # NoSlot /\ p # t /\ p \in SharedPtrs
      /\ b \in Blocks /\ sref[p] = NoBlock /\ NoBlock \notin Blocks
      /\ pc[t] = "cas" /\ use[b] # 0 /\ Policy = "atomic"
      /\ sref' = [sref EXCEPT ![p] = b] /\ use' = [use EXCEPT ![b] = @ + 1]
      /\ pc' = [pc EXCEPT ![t] = "idle"] /\ blk' = [blk EXCEPT ![t] = NoBlock]
      /\ tgt' = [tgt EXCEPT ![t] = NoSlot] /\ src' = [src EXCEPT ![t] = NoSlot]
      /\ cnt' = [cnt EXCEPT ![t] = 0]
      /\ sref[t] = NoBlock /\ wref[t] = NoBlock
      /\ UNCHANGED <<weak, life, wref, mutex>>
      /\ Owned(b) /\ life[b] = "alive"
  <2>1. /\ pc[t] = "cas" /\ b \in Blocks /\ use[b] # 0 /\ Policy = "atomic"
        /\ p \in SharedPtrs /\ sref[p] = NoBlock /\ sref[t] = NoBlock /\ wref[t] = NoBlock
    BY ConstantsAssumption DEF CasSucceeds, IInv, TypeOK, OperationOK, PolicyOK, TemporaryOK, Locking, Releasing
  <2>2. Owned(b) /\ life[b] = "alive"
    BY <2>1, UsedIsOwned DEF IInv, PolicyOK, Locking, SomeAt
  <2> QED BY <2>1, <2>2, ConstantsAssumption DEF CasSucceeds, AddRef, Return, SharedSlots
<1>2. TypeOK'
  BY <1>1 DEF IInv, TypeOK, Pcs, Slots, Locking, SharedSlots, WeakSlots
<1>3. Ledger'
  <2>1. SameExcept(SharedSlots, sref, sref', {p}) /\ sref'[p] = b /\ sref[p] = NoBlock
    BY <1>1 DEF SameExcept, IInv, TypeOK
  <2>2. \A c : NS(c)' = NS(c) + Is(sref'[p], c) - Is(sref[p], c)
    BY <1>1, <2>1, SharedWrite
  <2>3. \A c \in Blocks : NS(c)' = NS(c) + Is(b, c) /\ NW(c)' = NW(c)
    BY <1>1, <2>1, <2>2, NumbersOfReferences DEF Is, NW
  <2>4. InStep
    BY <1>1, <2>3, NumbersOfReferences DEF InStep, Is, IInv, TypeOK
  <2>5. SamePhases
    BY <1>1 DEF SamePhases, Phases, Ending, LastUse, IInv, TypeOK
  <2> QED BY <1>1, <2>4, <2>5, LedgerStep DEF IInv, Ledger
<1>4. \A u \in Threads : OperationOK(u)'
  BY <1>1, ConstantsAssumption DEF IInv, TypeOK, OperationOK, CanRead, CanWrite, SlotsOK, SharedSlots, WeakSlots, Locking, Releasing, Ending, LastUse
<1>5. \A u \in Threads : TemporaryOK(u)'
  BY <1>1, ConstantsAssumption DEF IInv, TypeOK, TemporaryOK, OperationOK, SharedSlots, WeakSlots, Releasing
<1>6. SlotsOK' /\ PolicyOK'
  BY <1>1, Targets, ConstantsAssumption DEF IInv, TypeOK, SlotsOK, CanRead, CanWrite, Locking, PolicyOK
<1>7. MutexOK'
  BY <1>1 DEF IInv, TypeOK, MutexOK, Owned
<1>8. OwnersSeeLiveObject' /\ NoUseAfterFree'
  BY <1>1 DEF IInv, TypeOK, OwnersSeeLiveObject, NoUseAfterFree
<1>9. FastPathIsUnique'
  BY <1>1 DEF IInv, TypeOK, FastPathIsUnique, Owned, Observed, CanRead, CanWrite, OperationOK, Releasing, Locking
<1> QED BY <1>2, <1>3, <1>4, <1>5, <1>6, <1>7, <1>8, <1>9 DEF IInv, Ledger

LEMMA MutexAddOwnedStep ==
  ASSUME IInv, NEW t \in Threads, NEW p, p = tgt[t], MutexAdd(t), use[blk[t]] # 0
  PROVE  IInv'
<1> DEFINE b == blk[t]
<1>1. /\ p \in SharedSlots /\ p # NoSlot /\ p # t /\ p \in SharedPtrs
      /\ b \in Blocks /\ sref[p] = NoBlock /\ NoBlock \notin Blocks
      /\ pc[t] = "mutex_add" /\ use[b] # 0 /\ mutex' = mutex \ {b}
      /\ sref' = [sref EXCEPT ![p] = b] /\ use' = [use EXCEPT ![b] = @ + 1]
      /\ pc' = [pc EXCEPT ![t] = "idle"] /\ blk' = [blk EXCEPT ![t] = NoBlock]
      /\ tgt' = [tgt EXCEPT ![t] = NoSlot] /\ src' = [src EXCEPT ![t] = NoSlot]
      /\ cnt' = [cnt EXCEPT ![t] = 0]
      /\ sref[t] = NoBlock /\ wref[t] = NoBlock
      /\ UNCHANGED <<weak, life, wref>>
      /\ Owned(b) /\ life[b] = "alive"
  <2>1. /\ pc[t] = "mutex_add" /\ b \in Blocks /\ use[b] # 0
        /\ p \in SharedPtrs /\ sref[p] = NoBlock /\ sref[t] = NoBlock /\ wref[t] = NoBlock
    BY ConstantsAssumption DEF MutexAdd, IInv, TypeOK, OperationOK, TemporaryOK, Locking, Releasing
  <2>2. Owned(b) /\ life[b] = "alive"
    BY <2>1, UsedIsOwned DEF IInv, MutexOK, SomeAt
  <2> QED BY <2>1, <2>2, ConstantsAssumption DEF MutexAdd, AddRef, Return, SharedSlots
<1>2. TypeOK'
  BY <1>1 DEF IInv, TypeOK, Pcs, Slots, Locking, SharedSlots, WeakSlots
<1>3. Ledger'
  <2>1. SameExcept(SharedSlots, sref, sref', {p}) /\ sref'[p] = b /\ sref[p] = NoBlock
    BY <1>1 DEF SameExcept, IInv, TypeOK
  <2>2. \A c : NS(c)' = NS(c) + Is(sref'[p], c) - Is(sref[p], c)
    BY <1>1, <2>1, SharedWrite
  <2>3. \A c \in Blocks : NS(c)' = NS(c) + Is(b, c) /\ NW(c)' = NW(c)
    BY <1>1, <2>1, <2>2, NumbersOfReferences DEF Is, NW
  <2>4. InStep
    BY <1>1, <2>3, NumbersOfReferences DEF InStep, Is, IInv, TypeOK
  <2>5. SamePhases
    BY <1>1 DEF SamePhases, Phases, Ending, LastUse, IInv, TypeOK
  <2> QED BY <1>1, <2>4, <2>5, LedgerStep DEF IInv, Ledger
<1>4. \A u \in Threads : OperationOK(u)'
  BY <1>1, ConstantsAssumption DEF IInv, TypeOK, OperationOK, CanRead, CanWrite, SlotsOK, SharedSlots, WeakSlots, Locking, Releasing, Ending, LastUse
<1>5. \A u \in Threads : TemporaryOK(u)'
  BY <1>1, ConstantsAssumption DEF IInv, TypeOK, TemporaryOK, OperationOK, SharedSlots, WeakSlots, Releasing
<1>6. SlotsOK' /\ PolicyOK'
  BY <1>1, Targets, ConstantsAssumption DEF IInv, TypeOK, SlotsOK, CanRead, CanWrite, Locking, PolicyOK
<1>7. MutexOK'
  BY <1>1 DEF IInv, TypeOK, MutexOK, Owned
<1>8. OwnersSeeLiveObject' /\ NoUseAfterFree'
  BY <1>1 DEF IInv, TypeOK, OwnersSeeLiveObject, NoUseAfterFree
<1>9. FastPathIsUnique'
  BY <1>1 DEF IInv, TypeOK, FastPathIsUnique, Owned, Observed, CanRead, CanWrite, OperationOK, Releasing, Locking
<1> QED BY <1>2, <1>3, <1>4, <1>5, <1>6, <1>7, <1>8, <1>9 DEF IInv, Ledger

LEMMA DecUseSharedStep ==
  ASSUME IInv, NEW t \in Threads, NEW p, p = tgt[t], DecUse(t), use[blk[t]] # 1
  PROVE  IInv'
<1> DEFINE b == blk[t]
<1>r. PICK q, k, d, s, n : ReleasedTo(t, q, k, d, s, n)
  BY ReleasedWrites DEF DecUse, IInv
<1>1. /\ pc[t] = "dec_use" /\ b \in Blocks /\ NoBlock \notin Blocks /\ p \in SharedSlots /\ sref[p] = b
      /\ t # NoSlot /\ t \notin SharedPtrs /\ t \notin WeakPtrs /\ p # NoSlot /\ p \in SharedPtrs \cup {t}
      /\ use[b] # 1 /\ use' = [use EXCEPT ![b] = @ - 1] /\ sref' = [sref EXCEPT ![p] = NoBlock]
      /\ p = t => wref[t] = NoBlock
      /\ pc' = [pc EXCEPT ![t] = q] /\ blk' = [blk EXCEPT ![t] = k]
      /\ tgt' = [tgt EXCEPT ![t] = d] /\ src' = [src EXCEPT ![t] = s] /\ cnt' = [cnt EXCEPT ![t] = n]
      /\ \/ tgt[t] = t /\ q = "idle" /\ k = NoBlock /\ d = NoSlot /\ s = NoSlot /\ n = 0
         \/ tgt[t] # t /\ q = "store" /\ k = blk[t] /\ d = tgt[t] /\ s = src[t] /\ n = cnt[t]
      /\ UNCHANGED <<weak, mutex, life, wref>>
  BY <1>r, ConstantsAssumption DEF ReleasedTo, DecUse, IInv, TypeOK, OperationOK, TemporaryOK, Releasing, SharedSlots, WeakSlots
<1>2. TypeOK'
  <2>1. use[b] # 0
    BY <1>1, CountsArePositive DEF Owned
  <2>2. q \in Pcs /\ k \in Blocks \cup {NoBlock} /\ d \in Slots /\ s \in Slots /\ n \in Nat
    BY <1>1 DEF IInv, TypeOK, Pcs, Slots
  <2> QED BY <1>1, <2>1, <2>2 DEF IInv, TypeOK, SharedSlots, WeakSlots
<1>3. Ledger'
  <2>1. SameExcept(SharedSlots, sref, sref', {p}) /\ sref'[p] = NoBlock
    BY <1>1 DEF SameExcept, IInv, TypeOK
  <2>2. \A c : NS(c)' = NS(c) + Is(sref'[p], c) - Is(sref[p], c)
    BY <1>1, <2>1, SharedWrite
  <2>3. \A c \in Blocks : NS(c)' = NS(c) - Is(b, c) /\ NW(c)' = NW(c)
    BY <1>1, <2>1, <2>2, NumbersOfReferences DEF Is, NW
  <2>4. use[b] = NS(b) + Resetting(b) /\ Owned(b)
    BY <1>1, CountsAsNumbers DEF IInv, Owned
  <2>5. Resetting(b) = 0
    BY <2>4 DEF IInv, MutexOK, Resetting, SomeAt
  <2>6. NS(b) # 0 /\ NS(b) # 1
    BY <1>1, <2>4, <2>5, NumbersOfReferences
  <2>7. InStep
    BY <1>1, <2>3, <2>6, NumbersOfReferences DEF InStep, Is, IInv, TypeOK
  <2>8. SamePhases
    BY <1>1 DEF SamePhases, Phases, Ending, LastUse, IInv, TypeOK
  <2> QED BY <1>1, <2>7, <2>8, LedgerStep DEF IInv, Ledger
<1>4. \A u \in Threads : OperationOK(u)'
  BY <1>1, ConstantsAssumption DEF IInv, TypeOK, OperationOK, CanRead, CanWrite, SlotsOK, SharedSlots, WeakSlots, Locking, Releasing, Ending, LastUse
<1>5. \A u \in Threads : TemporaryOK(u)'
  BY <1>1, ConstantsAssumption DEF IInv, TypeOK, TemporaryOK, OperationOK, SharedSlots, WeakSlots, Releasing
<1>6. SlotsOK' /\ PolicyOK'
  BY <1>1, Targets, ConstantsAssumption DEF IInv, TypeOK, SlotsOK, CanRead, CanWrite, Locking, PolicyOK
<1>7. MutexOK'
  BY <1>1 DEF IInv, TypeOK, MutexOK, Owned
<1>8. OwnersSeeLiveObject' /\ NoUseAfterFree'
  BY <1>1 DEF IInv, TypeOK, OwnersSeeLiveObject, NoUseAfterFree
<1>9. FastPathIsUnique'
  BY <1>1 DEF IInv, TypeOK, FastPathIsUnique, Owned, Observed, CanRead, CanWrite, OperationOK, Releasing, Locking
<1> QED BY <1>2, <1>3, <1>4, <1>5, <1>6, <1>7, <1>8, <1>9 DEF IInv, Ledger

LEMMA DecUseLastStep ==
  ASSUME IInv, NEW t \in Threads, NEW p, p = tgt[t], DecUse(t), use[blk[t]] = 1
  PROVE  IInv'
<1> DEFINE b == blk[t]
<1>1. /\ pc[t] = "dec_use" /\ b \in Blocks /\ NoBlock \notin Blocks /\ p \in SharedSlots /\ sref[p] = b
      /\ t # NoSlot /\ t \notin SharedPtrs /\ t \notin WeakPtrs /\ p # NoSlot /\ p \in SharedPtrs \cup {t}
      /\ life[b] = "alive" /\ Owned(b)
      /\ use[b] = 1 /\ use' = [use EXCEPT ![b] = @ - 1] /\ sref' = [sref EXCEPT ![p] = NoBlock]
      /\ p = t => wref[t] = NoBlock
      /\ pc' = [pc EXCEPT ![t] = "dispose"]
      /\ UNCHANGED <<weak, mutex, life, wref, blk, tgt, src, cnt>>
  BY ConstantsAssumption DEF DecUse, Goto, IInv, TypeOK, OperationOK, TemporaryOK, Releasing, SharedSlots, WeakSlots, OwnersSeeLiveObject, Owned
<1>2. TypeOK'
  <2>1. use[b] # 0
    BY <1>1, CountsArePositive DEF Owned
  <2> QED BY <1>1, <2>1 DEF IInv, TypeOK, Pcs, Slots, Locking, SharedSlots, WeakSlots
<1>3. Ledger'
  <2>1. SameExcept(SharedSlots, sref, sref', {p}) /\ sref'[p] = NoBlock
    BY <1>1 DEF SameExcept, IInv, TypeOK
  <2>2. \A c : NS(c)' = NS(c) + Is(sref'[p], c) - Is(sref[p], c)
    BY <1>1, <2>1, SharedWrite
  <2>3. \A c \in Blocks : NS(c)' = NS(c) - Is(b, c) /\ NW(c)' = NW(c)
    BY <1>1, <2>1, <2>2, NumbersOfReferences DEF Is, NW
  <2>4. OnlyBlock(t, b)
    BY <1>1, <2>3, NumbersOfReferences DEF OnlyBlock, Is, IInv, TypeOK, Phases, Ending, LastUse
  <2>5. BlockOK(b)
    BY <1>1, LedgerOfBlock DEF IInv, Ledger
  <2>6. NS(b) = 1 /\ Resetting(b) = 0 /\ OwnersWeakCount(b) = 1
    <3>1. Resetting(b) \in Nat /\ NS(b) # 0
      BY <1>1, NumbersOfReferences DEF Resetting
    <3> QED BY <1>1, <2>5, <3>1, NumbersOfReferences DEF BlockOK, OwnersWeakCount
  <2>7. ~Owned(b)' /\ Resetting(b)' = 0
    BY <1>1, <2>3, <2>6, NumbersOfReferencesNext DEF Is, Resetting, SomeAt, IInv, TypeOK
  <2>8. SomeAt(LastUse, b)' /\ SomeAt({"dispose", "fast_dispose"}, b)' /\ SomeAt(Ending, b)'
    BY <1>1 DEF SomeAt, LastUse, Ending, IInv, TypeOK
  <2>9. \A u \in Threads \ {t} : pc'[u] \in Ending => blk'[u] # b
    BY <1>1 DEF IInv, LastUserIsAlone, TypeOK
  <2>10. BlockOK(b)'
    BY <1>1, <2>3, <2>5, <2>6, <2>7, <2>8, <2>9, NumbersOfReferences DEF BlockOK, EndingOK, OwnersWeakCount, Is, IInv, TypeOK
  <2> QED BY <1>1, <2>4, <2>10, LedgerAtBlock DEF IInv, Ledger
<1>4. \A u \in Threads : OperationOK(u)'
  BY <1>1, ConstantsAssumption DEF IInv, TypeOK, OperationOK, CanRead, CanWrite, SlotsOK, SharedSlots, WeakSlots, Locking, Releasing, Ending, LastUse
<1>5. \A u \in Threads : TemporaryOK(u)'
  BY <1>1, ConstantsAssumption DEF IInv, TypeOK, TemporaryOK, OperationOK, SharedSlots, WeakSlots, Releasing
<1>6. SlotsOK' /\ PolicyOK'
  BY <1>1, Targets, ConstantsAssumption DEF IInv, TypeOK, SlotsOK, CanRead, CanWrite, Locking, PolicyOK
<1>7. MutexOK'
  BY <1>1 DEF IInv, TypeOK, MutexOK, Owned
<1>8. OwnersSeeLiveObject' /\ NoUseAfterFree'
  BY <1>1 DEF IInv, TypeOK, OwnersSeeLiveObject, NoUseAfterFree
<1>9. FastPathIsUnique'
  BY <1>1 DEF IInv, TypeOK, FastPathIsUnique, Owned, Observed, CanRead, CanWrite, OperationOK, Releasing, Locking
<1> QED BY <1>2, <1>3, <1>4, <1>5, <1>6, <1>7, <1>8, <1>9 DEF IInv, Ledger

LEMMA FastStoreStep ==
  ASSUME IInv, NEW t \in Threads, NEW p, p = tgt[t], FastStore(t)
  PROVE  IInv'
<1> DEFINE b == blk[t]
<1>1. /\ pc[t] = "fast_store" /\ b \in Blocks /\ NoBlock \notin Blocks /\ p \in SharedSlots /\ sref[p] = b
      /\ t # NoSlot /\ t \notin SharedPtrs /\ t \notin WeakPtrs /\ p # NoSlot /\ p \in SharedPtrs \cup {t}
      /\ life[b] = "alive" /\ ~Observed(b)
      /\ \A s \in SharedSlots : sref[s] = b => s = p
      /\ \A u \in Threads \ {t} : pc[u] # "store" => blk[u] # b
      /\ use' = [use EXCEPT ![b] = 0] /\ weak' = [weak EXCEPT ![b] = 0]
      /\ sref' = [sref EXCEPT ![p] = NoBlock]
      /\ p = t => wref[t] = NoBlock
      /\ pc' = [pc EXCEPT ![t] = "fast_dispose"]
      /\ UNCHANGED <<mutex, life, wref, blk, tgt, src, cnt>>
  BY ConstantsAssumption DEF FastStore, Goto, IInv, TypeOK, OperationOK, TemporaryOK, Releasing, SharedSlots, WeakSlots, OwnersSeeLiveObject, FastPathIsUnique
<1>2. TypeOK'
  BY <1>1 DEF IInv, TypeOK, Pcs, Slots, Locking, SharedSlots, WeakSlots
<1>3. Ledger'
  <2>1. SameExcept(SharedSlots, sref, sref', {p}) /\ sref'[p] = NoBlock
    BY <1>1 DEF SameExcept, IInv, TypeOK
  <2>2. \A c : NS(c)' = NS(c) + Is(sref'[p], c) - Is(sref[p], c)
    BY <1>1, <2>1, SharedWrite
  <2>3. \A c \in Blocks : NS(c)' = NS(c) - Is(b, c) /\ NW(c)' = NW(c)
    BY <1>1, <2>1, <2>2, NumbersOfReferences DEF Is, NW
  <2>4. OnlyBlock(t, b)
    BY <1>1, <2>3, NumbersOfReferences DEF OnlyBlock, Is, IInv, TypeOK, Phases, Ending, LastUse
  <2>5. BlockOK(b)
    BY <1>1, LedgerOfBlock DEF IInv, Ledger
  <2>6. ~Owned(b)' /\ NS(b)' = 0 /\ ~Observed(b)' /\ NW(b)' = 0
    BY <1>1, <2>3, NumbersOfReferences, NumbersOfReferencesNext DEF Owned, Observed, IInv, TypeOK
  <2>7. \A u \in Threads : pc'[u] \in Phases /\ blk'[u] = b => u = t
    BY <1>1 DEF IInv, TypeOK, Phases, Ending, LastUse
  <2>8. Resetting(b)' = 0 /\ OwnersWeakCount(b)' = 0
    BY <1>1, <2>6, <2>7 DEF Resetting, OwnersWeakCount, SomeAt, LastUse, Phases, Ending, IInv, TypeOK
  <2>9. SomeAt({"dispose", "fast_dispose"}, b)' /\ SomeAt(Ending, b)'
    BY <1>1 DEF SomeAt, Ending, IInv, TypeOK
  <2>10. BlockOK(b)'
    BY <1>1, <2>6, <2>7, <2>8, <2>9 DEF BlockOK, EndingOK, Phases, IInv, TypeOK
  <2> QED BY <1>1, <2>4, <2>10, LedgerAtBlock DEF IInv, Ledger
<1>4. \A u \in Threads : OperationOK(u)'
  BY <1>1, ConstantsAssumption DEF IInv, TypeOK, OperationOK, CanRead, CanWrite, SlotsOK, SharedSlots, WeakSlots, Locking, Releasing, Ending, LastUse
<1>5. \A u \in Threads : TemporaryOK(u)'
  BY <1>1, ConstantsAssumption DEF IInv, TypeOK, TemporaryOK, OperationOK, SharedSlots, WeakSlots, Releasing
<1>6. SlotsOK' /\ PolicyOK'
  BY <1>1, Targets, ConstantsAssumption DEF IInv, TypeOK, SlotsOK, CanRead, CanWrite, Locking, PolicyOK
<1>7. MutexOK'
  BY <1>1 DEF IInv, TypeOK, MutexOK, Owned
<1>8. OwnersSeeLiveObject' /\ NoUseAfterFree'
  BY <1>1 DEF IInv, TypeOK, OwnersSeeLiveObject, NoUseAfterFree
<1>9. FastPathIsUnique'
  BY <1>1 DEF IInv, TypeOK, FastPathIsUnique, Owned, Observed, CanRead, CanWrite, OperationOK, Releasing, Locking
<1> QED BY <1>2, <1>3, <1>4, <1>5, <1>6, <1>7, <1>8, <1>9 DEF IInv, Ledger

LEMMA DisposeStep ==
  ASSUME IInv, NEW t \in Threads, Dispose(t)
  PROVE  IInv'
<1> DEFINE b == blk[t]
<1>1. /\ pc[t] = "dispose" /\ b \in Blocks /\ NoBlock \notin Blocks /\ ~Owned(b)
      /\ \A u \in Threads \ {t} : pc[u] \in Ending => blk[u] # b
      /\ life' = [life EXCEPT ![b] = "disposed"]
      /\ pc' = [pc EXCEPT ![t] = "dec_weak"]
      /\ UNCHANGED <<use, weak, mutex, sref, wref, blk, tgt, src, cnt>>
  BY ConstantsAssumption DEF Dispose, Goto, refs, IInv, TypeOK, OperationOK, LastUserIsAlone, Ending, LastUse
<1>2. TypeOK'
  BY <1>1 DEF IInv, TypeOK, Pcs, Slots, Locking, SharedSlots, WeakSlots
<1>3. Ledger'
  <2>1. OnlyBlock(t, b)
    BY <1>1, NumbersOfReferences DEF OnlyBlock, Is, NS, NW, IInv, TypeOK, Phases, Ending, LastUse
  <2>2. BlockOK(b)
    BY <1>1, LedgerOfBlock DEF IInv, Ledger
  <2>3. /\ NS(b)' = NS(b) /\ NW(b)' = NW(b)
        /\ Owned(b)' <=> Owned(b)
        /\ Observed(b)' <=> Observed(b)
    BY <1>1 DEF NS, NW, Owned, Observed
  <2>4. /\ SomeAt(LastUse, b)' <=> SomeAt(LastUse, b)
        /\ SomeAt({"mutex_reset"}, b)' <=> SomeAt({"mutex_reset"}, b)
        /\ SomeAt(Ending, b)'
    BY <1>1 DEF SomeAt, LastUse, Ending, IInv, TypeOK
  <2>5. BlockOK(b)'
    BY <1>1, <2>2, <2>3, <2>4 DEF BlockOK, EndingOK, Resetting, OwnersWeakCount, Ending, IInv, TypeOK
  <2> QED BY <1>1, <2>1, <2>5, LedgerAtBlock DEF IInv, Ledger
<1>4. \A u \in Threads : OperationOK(u)'
  BY <1>1, ConstantsAssumption DEF IInv, TypeOK, OperationOK, CanRead, CanWrite, SlotsOK, SharedSlots, WeakSlots, Locking, Releasing, Ending, LastUse
<1>5. \A u \in Threads : TemporaryOK(u)'
  BY <1>1, ConstantsAssumption DEF IInv, TypeOK, TemporaryOK, OperationOK, SharedSlots, WeakSlots, Releasing
<1>6. SlotsOK' /\ PolicyOK'
  BY <1>1, Targets, ConstantsAssumption DEF IInv, TypeOK, SlotsOK, CanRead, CanWrite, Locking, PolicyOK
<1>7. MutexOK'
  BY <1>1 DEF IInv, TypeOK, MutexOK, Owned
<1>8. OwnersSeeLiveObject' /\ NoUseAfterFree'
  BY <1>1 DEF IInv, TypeOK, OwnersSeeLiveObject, NoUseAfterFree, Owned
<1>9. FastPathIsUnique'
  BY <1>1 DEF IInv, TypeOK, FastPathIsUnique, Owned, Observed, CanRead, CanWrite, OperationOK, Releasing, Locking
<1> QED BY <1>2, <1>3, <1>4, <1>5, <1>6, <1>7, <1>8, <1>9 DEF IInv, Ledger

LEMMA FastDisposeStep ==
  ASSUME IInv, NEW t \in Threads, FastDispose(t)
  PROVE  IInv'
<1> DEFINE b == blk[t]
<1>1. /\ pc[t] = "fast_dispose" /\ b \in Blocks /\ NoBlock \notin Blocks /\ ~Owned(b)
      /\ \A u \in Threads \ {t} : pc[u] \in Ending => blk[u] # b
      /\ ~Observed(b) /\ weak[b] = 0
      /\ life' = [life EXCEPT ![b] = "disposed"]
      /\ pc' = [pc EXCEPT ![t] = "destroy"]
      /\ UNCHANGED <<use, weak, mutex, sref, wref, blk, tgt, src, cnt>>
  BY ConstantsAssumption DEF FastDispose, Goto, refs, IInv, TypeOK, OperationOK, LastUserIsAlone, Ending, LastUse
<1>2. TypeOK'
  BY <1>1 DEF IInv, TypeOK, Pcs, Slots, Locking, SharedSlots, WeakSlots
<1>3. Ledger'
  <2>1. OnlyBlock(t, b)
    BY <1>1, NumbersOfReferences DEF OnlyBlock, Is, NS, NW, IInv, TypeOK, Phases, Ending, LastUse
  <2>2. BlockOK(b)
    BY <1>1, LedgerOfBlock DEF IInv, Ledger
  <2>3. /\ NS(b)' = NS(b) /\ NW(b)' = NW(b)
        /\ Owned(b)' <=> Owned(b)
        /\ Observed(b)' <=> Observed(b)
    BY <1>1 DEF NS, NW, Owned, Observed
  <2>4. /\ SomeAt(LastUse, b)' <=> SomeAt(LastUse, b)
        /\ SomeAt({"mutex_reset"}, b)' <=> SomeAt({"mutex_reset"}, b)
        /\ SomeAt(Ending, b)'
    BY <1>1 DEF SomeAt, LastUse, Ending, IInv, TypeOK
  <2>5. BlockOK(b)'
    BY <1>1, <2>2, <2>3, <2>4 DEF BlockOK, EndingOK, Resetting, OwnersWeakCount, Ending, IInv, TypeOK
  <2> QED BY <1>1, <2>1, <2>5, LedgerAtBlock DEF IInv, Ledger
<1>4. \A u \in Threads : OperationOK(u)'
  BY <1>1, ConstantsAssumption DEF IInv, TypeOK, OperationOK, CanRead, CanWrite, SlotsOK, SharedSlots, WeakSlots, Locking, Releasing, Ending, LastUse
<1>5. \A u \in Threads : TemporaryOK(u)'
  BY <1>1, ConstantsAssumption DEF IInv, TypeOK, TemporaryOK, OperationOK, SharedSlots, WeakSlots, Releasing
<1>6. SlotsOK' /\ PolicyOK'
  BY <1>1, Targets, ConstantsAssumption DEF IInv, TypeOK, SlotsOK, CanRead, CanWrite, Locking, PolicyOK
<1>7. MutexOK'
  BY <1>1 DEF IInv, TypeOK, MutexOK, Owned
<1>8. OwnersSeeLiveObject' /\ NoUseAfterFree'
  BY <1>1 DEF IInv, TypeOK, OwnersSeeLiveObject, NoUseAfterFree, Owned
<1>9. FastPathIsUnique'
  BY <1>1 DEF IInv, TypeOK, FastPathIsUnique, Owned, Observed, CanRead, CanWrite, OperationOK, Releasing, Locking
<1> QED BY <1>2, <1>3, <1>4, <1>5, <1>6, <1>7, <1>8, <1>9 DEF IInv, Ledger

LEMMA DecWeakLastStep ==
  ASSUME IInv, NEW t \in Threads, DecWeak(t), weak[blk[t]] = 1
  PROVE  IInv'
<1> DEFINE b == blk[t]
<1>1. /\ pc[t] = "dec_weak" /\ b \in Blocks /\ NoBlock \notin Blocks /\ ~Owned(b)
      /\ life[b] = "disposed"
      /\ \A u \in Threads \ {t} : pc[u] \in Ending => blk[u] # b
      /\ weak[b] = 1 /\ weak' = [weak EXCEPT ![b] = @ - 1]
      /\ pc' = [pc EXCEPT ![t] = "destroy"]
      /\ UNCHANGED <<use, mutex, life, sref, wref, blk, tgt, src, cnt>>
  BY ConstantsAssumption DEF DecWeak, Goto, refs, IInv, TypeOK, OperationOK, LastUserIsAlone, Ending, LastUse
<1>2. TypeOK'
  BY <1>1 DEF IInv, TypeOK, Pcs, Slots, Locking, SharedSlots, WeakSlots
<1>3. Ledger'
  <2>1. OnlyBlock(t, b)
    BY <1>1, NumbersOfReferences DEF OnlyBlock, Is, NS, NW, IInv, TypeOK, Phases, Ending, LastUse
  <2>2. BlockOK(b)
    BY <1>1, LedgerOfBlock DEF IInv, Ledger
  <2>3. /\ NS(b)' = NS(b) /\ NW(b)' = NW(b)
        /\ Owned(b)' <=> Owned(b)
        /\ Observed(b)' <=> Observed(b)
    BY <1>1 DEF NS, NW, Owned, Observed
  <2>4. NW(b) = 0 /\ ~Observed(b)
    <3>1. OwnersWeakCount(b) = 1
      BY <1>1 DEF OwnersWeakCount, SomeAt, LastUse
    <3> QED BY <1>1, <2>2, <3>1, NumbersOfReferences DEF BlockOK
  <2>5. ~SomeAt(LastUse, b)' /\ SomeAt(Ending, b)'
    BY <1>1 DEF SomeAt, LastUse, Ending, IInv, TypeOK
  <2>6. SomeAt({"mutex_reset"}, b)' <=> SomeAt({"mutex_reset"}, b)
    BY <1>1 DEF SomeAt, IInv, TypeOK
  <2>7. BlockOK(b)'
    BY <1>1, <2>2, <2>3, <2>4, <2>5, <2>6 DEF BlockOK, EndingOK, Resetting, OwnersWeakCount, Ending, IInv, TypeOK
  <2> QED BY <1>1, <2>1, <2>7, LedgerAtBlock DEF IInv, Ledger
<1>4. \A u \in Threads : OperationOK(u)'
  BY <1>1, ConstantsAssumption DEF IInv, TypeOK, OperationOK, CanRead, CanWrite, SlotsOK, SharedSlots, WeakSlots, Locking, Releasing, Ending, LastUse
<1>5. \A u \in Threads : TemporaryOK(u)'
  BY <1>1, ConstantsAssumption DEF IInv, TypeOK, TemporaryOK, OperationOK, SharedSlots, WeakSlots, Releasing
<1>6. SlotsOK' /\ PolicyOK'
  BY <1>1, Targets, ConstantsAssumption DEF IInv, TypeOK, SlotsOK, CanRead, CanWrite, Locking, PolicyOK
<1>7. MutexOK'
  BY <1>1 DEF IInv, TypeOK, MutexOK, Owned
<1>8. OwnersSeeLiveObject' /\ NoUseAfterFree'
  BY <1>1 DEF IInv, TypeOK, OwnersSeeLiveObject, NoUseAfterFree
<1>9. FastPathIsUnique'
  BY <1>1 DEF IInv, TypeOK, FastPathIsUnique, Owned, Observed, CanRead, CanWrite, OperationOK, Releasing, Locking
<1> QED BY <1>2, <1>3, <1>4, <1>5, <1>6, <1>7, <1>8, <1>9 DEF IInv, Ledger

LEMMA DecWeakSharedStep ==
  ASSUME IInv, NEW t \in Threads, NEW b, b = blk[t], DecWeak(t), weak[blk[t]] # 1
  PROVE  IInv'
<1>r. PICK q, k, d, s, n : ReleasedTo(t, q, k, d, s, n)
  BY ReleasedWrites DEF DecWeak, IInv
<1>1. /\ pc[t] = "dec_weak" /\ b \in Blocks /\ NoBlock \notin Blocks /\ ~Owned(b)
      /\ t # NoSlot /\ t \notin SharedPtrs /\ t \notin WeakPtrs
      /\ life[b] = "disposed"
      /\ \A u \in Threads \ {t} : pc[u] \in Ending => blk[u] # b
      /\ weak[b] # 1 /\ weak' = [weak EXCEPT ![b] = @ - 1]
      /\ pc' = [pc EXCEPT ![t] = q] /\ blk' = [blk EXCEPT ![t] = k]
      /\ tgt' = [tgt EXCEPT ![t] = d] /\ src' = [src EXCEPT ![t] = s] /\ cnt' = [cnt EXCEPT ![t] = n]
      /\ \/ tgt[t] = t /\ q = "idle" /\ k = NoBlock /\ d = NoSlot /\ s = NoSlot /\ n = 0
         \/ tgt[t] # t /\ q = "store" /\ k = blk[t] /\ d = tgt[t] /\ s = src[t] /\ n = cnt[t]
      /\ sref[t] = NoBlock \/ src[t] = t
      /\ wref[t] = NoBlock \/ src[t] = t
      /\ UNCHANGED <<use, mutex, life, sref, wref>>
  BY <1>r, ConstantsAssumption DEF ReleasedTo, DecWeak, refs, IInv, TypeOK, OperationOK, TemporaryOK, Releasing, LastUserIsAlone, Ending, LastUse
<1>2. TypeOK'
  <2>1. weak[b] # 0
    BY <1>1, CountsArePositive DEF Observed, SomeAt, LastUse
  <2>2. q \in Pcs /\ k \in Blocks \cup {NoBlock} /\ d \in Slots /\ s \in Slots /\ n \in Nat
    BY <1>1 DEF IInv, TypeOK, Pcs, Slots
  <2> QED BY <1>1, <2>1, <2>2 DEF IInv, TypeOK, SharedSlots, WeakSlots
<1>3. Ledger'
  <2>1. OnlyBlock(t, b)
    BY <1>1, NumbersOfReferences DEF OnlyBlock, Is, NS, NW, IInv, TypeOK, Phases, Ending, LastUse
  <2>2. BlockOK(b)
    BY <1>1, LedgerOfBlock DEF IInv, Ledger
  <2>3. /\ NS(b)' = NS(b) /\ NW(b)' = NW(b)
        /\ Owned(b)' <=> Owned(b)
        /\ Observed(b)' <=> Observed(b)
    <3>1. UNCHANGED <<sref, wref>>
      BY <1>1
    <3> QED BY <3>1 DEF NS, NW, Owned, Observed
  <2>4. weak[b] = NW(b) + 1 /\ NW(b) # 0 /\ Observed(b)
    <3>1. OwnersWeakCount(b) = 1
      BY <1>1 DEF OwnersWeakCount, SomeAt, LastUse
    <3> QED BY <1>1, <2>2, <3>1, NumbersOfReferences DEF BlockOK
  <2>5. /\ \A u \in Threads \ {t} : pc'[u] = pc[u] /\ blk'[u] = blk[u]
        /\ pc[t] \notin {"mutex_reset"} /\ pc'[t] \notin {"mutex_reset"} \cup Ending
    BY <1>1 DEF IInv, TypeOK, Ending, LastUse
  <2>6. \A u \in Threads : pc'[u] \in Ending => blk'[u] # b
    BY <1>1, <2>5
  <2>7. ~SomeAt(LastUse, b)' /\ (SomeAt({"mutex_reset"}, b)' <=> SomeAt({"mutex_reset"}, b))
    BY <2>5, <2>6 DEF SomeAt, Ending
  <2>8. BlockOK(b)'
    <3>1. weak'[b] = weak[b] - 1 /\ use'[b] = use[b] /\ life'[b] = "disposed" /\ ~Owned(b)
      BY <1>1 DEF IInv, TypeOK
    <3> QED BY <3>1, <2>2, <2>3, <2>4, <2>5, <2>6, <2>7, NumbersOfReferences DEF BlockOK, Resetting, OwnersWeakCount
  <2> QED BY <2>1, <2>8, <1>1, LedgerAtBlock DEF IInv, Ledger
<1>4. \A u \in Threads : OperationOK(u)'
  BY <1>1, ConstantsAssumption DEF IInv, TypeOK, OperationOK, CanRead, CanWrite, SlotsOK, SharedSlots, WeakSlots, Locking, Releasing, Ending, LastUse
<1>5. \A u \in Threads : TemporaryOK(u)'
  BY <1>1, ConstantsAssumption DEF IInv, TypeOK, TemporaryOK, OperationOK, SharedSlots, WeakSlots, Releasing
<1>6. SlotsOK' /\ PolicyOK'
  BY <1>1, Targets, ConstantsAssumption DEF IInv, TypeOK, SlotsOK, CanRead, CanWrite, Locking, PolicyOK
<1>7. MutexOK'
  BY <1>1 DEF IInv, TypeOK, MutexOK, Owned
<1>8. OwnersSeeLiveObject' /\ NoUseAfterFree'
  BY <1>1 DEF IInv, TypeOK, OwnersSeeLiveObject, NoUseAfterFree
<1>9. FastPathIsUnique'
  BY <1>1 DEF IInv, TypeOK, FastPathIsUnique, Owned, Observed, CanRead, CanWrite, OperationOK, Releasing, Locking
<1> QED BY <1>2, <1>3, <1>4, <1>5, <1>6, <1>7, <1>8, <1>9 DEF IInv, Ledger

LEMMA WeakDecLastStep ==
  ASSUME IInv, NEW t \in Threads, NEW b, b = blk[t], NEW p, p = tgt[t], WeakDec(t), weak[blk[t]] = 1
  PROVE  IInv'
<1>1. /\ pc[t] = "weak_dec" /\ b \in Blocks /\ NoBlock \notin Blocks /\ p \in WeakSlots /\ wref[p] = b /\ Observed(b) /\ life[b] # "free"
      /\ t # NoSlot /\ t \notin SharedPtrs /\ t \notin WeakPtrs /\ p # NoSlot /\ p \in WeakPtrs \cup {t}
      /\ \A u \in Threads : pc[u] = "fast_store" => blk[u] # b
      /\ weak[b] = 1 /\ weak' = [weak EXCEPT ![b] = @ - 1]
      /\ wref' = [wref EXCEPT ![p] = NoBlock]
      /\ p # t => p \notin SharedSlots
      /\ sref[t] = NoBlock
      /\ pc' = [pc EXCEPT ![t] = "destroy"]
      /\ UNCHANGED <<use, mutex, life, sref, blk, tgt, src, cnt>>
  BY ConstantsAssumption DEF WeakDec, Goto, IInv, TypeOK, OperationOK, TemporaryOK, Releasing, SharedSlots, WeakSlots, NoUseAfterFree, Observed, FastPathIsUnique
<1>2. TypeOK'
  <2>1. weak[b] # 0
    BY <1>1, CountsArePositive DEF Observed, SomeAt
  <2> QED BY <1>1, <2>1 DEF IInv, TypeOK, Pcs, Slots, Locking, SharedSlots, WeakSlots
<1>3. Ledger'
  <2>1. SameExcept(WeakSlots, wref, wref', {p}) /\ wref'[p] = NoBlock
    BY <1>1 DEF SameExcept, IInv, TypeOK
  <2>2. \A c : NW(c)' = NW(c) + Is(wref'[p], c) - Is(wref[p], c)
    BY <1>1, <2>1, WeakWrite
  <2>3. \A c \in Blocks : NW(c)' = NW(c) - Is(b, c) /\ NS(c)' = NS(c)
    BY <1>1, <2>1, <2>2, NumbersOfReferences DEF Is, NS
  <2>4. OnlyBlock(t, b)
    BY <1>1, <2>3, NumbersOfReferences DEF OnlyBlock, Is, IInv, TypeOK, Phases, Ending, LastUse
  <2>5. BlockOK(b)
    BY <1>1, LedgerOfBlock DEF IInv, Ledger
  <2>6. NW(b) = 1 /\ OwnersWeakCount(b) = 0
    <3>1. OwnersWeakCount(b) \in Nat /\ NW(b) # 0
      BY <1>1, NumbersOfReferences DEF OwnersWeakCount
    <3> QED BY <1>1, <2>5, <3>1, NumbersOfReferences DEF BlockOK
  <2>7. ~Owned(b) /\ ~SomeAt(LastUse, b)
    BY <2>6 DEF OwnersWeakCount
  <2>8. \A u \in Threads : pc[u] \in Ending => blk[u] # b
    BY <1>1, <2>7 DEF IInv, LastUserIsAlone, SomeAt, Ending, LastUse
  <2>9. life[b] = "disposed"
    BY <1>1, <2>5, <2>7, <2>8 DEF BlockOK, SomeAt, Ending, LastUse, IInv, TypeOK
  <2>10. NW(b)' = 0 /\ ~Observed(b)' /\ ~Owned(b)'
    BY <1>1, <2>3, <2>6, <2>7, NumbersOfReferences, NumbersOfReferencesNext DEF Is
  <2>11. \A u \in Threads : pc'[u] \in Ending /\ blk'[u] = b => u = t
    BY <1>1, <2>8 DEF IInv, TypeOK
  <2>12. /\ ~SomeAt(LastUse, b)' /\ SomeAt(Ending, b)'
         /\ SomeAt({"mutex_reset"}, b)' <=> SomeAt({"mutex_reset"}, b)
    BY <1>1, <2>8 DEF SomeAt, LastUse, Ending, IInv, TypeOK
  <2>13. /\ weak'[b] = 0 /\ use'[b] = use[b] /\ life'[b] = "disposed" /\ pc'[t] = "destroy"
         /\ use[b] = NS(b) + Resetting(b) /\ NS(b)' = NS(b) /\ Resetting(b)' = Resetting(b)
         /\ OwnersWeakCount(b)' = 0
    BY <1>1, <2>3, <2>5, <2>9, <2>10, <2>12 DEF IInv, TypeOK, BlockOK, Resetting, OwnersWeakCount
  <2>14. BlockOK(b)'
    BY <2>10, <2>11, <2>12, <2>13, <1>1 DEF BlockOK, EndingOK
  <2> QED BY <1>1, <2>4, <2>14, LedgerAtBlock DEF IInv, Ledger
<1>4. \A u \in Threads : OperationOK(u)'
  BY <1>1, ConstantsAssumption DEF IInv, TypeOK, OperationOK, CanRead, CanWrite, SlotsOK, SharedSlots, WeakSlots, Locking, Releasing, Ending, LastUse
<1>5. \A u \in Threads : TemporaryOK(u)'
  BY <1>1, ConstantsAssumption DEF IInv, TypeOK, TemporaryOK, OperationOK, SharedSlots, WeakSlots, Releasing
<1>6. SlotsOK' /\ PolicyOK'
  BY <1>1, Targets, ConstantsAssumption DEF IInv, TypeOK, SlotsOK, CanRead, CanWrite, Locking, PolicyOK
<1>7. MutexOK'
  BY <1>1 DEF IInv, TypeOK, MutexOK, Owned
<1>8. OwnersSeeLiveObject' /\ NoUseAfterFree'
  BY <1>1 DEF IInv, TypeOK, OwnersSeeLiveObject, NoUseAfterFree
<1>9. FastPathIsUnique'
  BY <1>1 DEF IInv, TypeOK, FastPathIsUnique, Owned, Observed, CanRead, CanWrite, OperationOK, Releasing, Locking
<1> QED BY <1>2, <1>3, <1>4, <1>5, <1>6, <1>7, <1>8, <1>9 DEF IInv, Ledger

LEMMA WeakDecSharedStep ==
  ASSUME IInv, NEW t \in Threads, NEW b, b = blk[t], NEW p, p = tgt[t], WeakDec(t), weak[blk[t]] # 1
  PROVE  IInv'
<1>r. PICK q, k, d, s, n : ReleasedTo(t, q, k, d, s, n)
  BY ReleasedWrites DEF WeakDec, IInv
<1>1. /\ pc[t] = "weak_dec" /\ b \in Blocks /\ NoBlock \notin Blocks /\ p \in WeakSlots /\ wref[p] = b /\ Observed(b) /\ life[b] # "free"
      /\ t # NoSlot /\ t \notin SharedPtrs /\ t \notin WeakPtrs /\ p # NoSlot /\ p \in WeakPtrs \cup {t}
      /\ \A u \in Threads : pc[u] = "fast_store" => blk[u] # b
      /\ weak[b] # 1 /\ weak' = [weak EXCEPT ![b] = @ - 1]
      /\ wref' = [wref EXCEPT ![p] = NoBlock]
      /\ p # t => p \notin SharedSlots
      /\ sref[t] = NoBlock
      /\ pc' = [pc EXCEPT ![t] = q] /\ blk' = [blk EXCEPT ![t] = k]
      /\ tgt' = [tgt EXCEPT ![t] = d] /\ src' = [src EXCEPT ![t] = s] /\ cnt' = [cnt EXCEPT ![t] = n]
      /\ \/ tgt[t] = t /\ q = "idle" /\ k = NoBlock /\ d = NoSlot /\ s = NoSlot /\ n = 0
         \/ tgt[t] # t /\ q = "store" /\ k = blk[t] /\ d = tgt[t] /\ s = src[t] /\ n = cnt[t]
      /\ UNCHANGED <<use, mutex, life, sref>>
  BY <1>r, ConstantsAssumption DEF ReleasedTo, WeakDec, Goto, IInv, TypeOK, OperationOK, TemporaryOK, Releasing, SharedSlots, WeakSlots, NoUseAfterFree, Observed, FastPathIsUnique
<1>2. TypeOK'
  <2>1. weak[b] # 0
    BY <1>1, CountsArePositive DEF Observed, SomeAt
  <2>2. q \in Pcs /\ k \in Blocks \cup {NoBlock} /\ d \in Slots /\ s \in Slots /\ n \in Nat
    BY <1>1 DEF IInv, TypeOK, Pcs, Slots
  <2> QED BY <1>1, <2>1, <2>2 DEF IInv, TypeOK, SharedSlots, WeakSlots
<1>3. Ledger'
  <2>1. SameExcept(WeakSlots, wref, wref', {p}) /\ wref'[p] = NoBlock
    BY <1>1 DEF SameExcept, IInv, TypeOK
  <2>2. \A c : NW(c)' = NW(c) + Is(wref'[p], c) - Is(wref[p], c)
    BY <1>1, <2>1, WeakWrite
  <2>3. \A c \in Blocks : NW(c)' = NW(c) - Is(b, c) /\ NS(c)' = NS(c)
    BY <1>1, <2>1, <2>2, NumbersOfReferences DEF Is, NS
  <2>4. /\ \A u \in Threads \ {t} : pc'[u] = pc[u] /\ blk'[u] = blk[u]
        /\ pc[t] \notin Phases /\ pc'[t] \notin Phases
        /\ blk'[t] \in {b, NoBlock}
    BY <1>1 DEF IInv, TypeOK, Phases, Ending, LastUse
  <2>5. OnlyBlock(t, b) /\ BlockOK(b)
    BY <1>1, <2>3, <2>4, NumbersOfReferences, LedgerOfBlock DEF OnlyBlock, Is, IInv, Ledger, TypeOK
  <2>6. /\ SomeAt(LastUse, b)' <=> SomeAt(LastUse, b)
        /\ SomeAt({"dispose", "fast_dispose"}, b)' <=> SomeAt({"dispose", "fast_dispose"}, b)
        /\ SomeAt(Ending, b)' <=> SomeAt(Ending, b)
        /\ SomeAt({"mutex_reset"}, b)' <=> SomeAt({"mutex_reset"}, b)
    BY <2>4 DEF SomeAt, LastUse, Ending, Phases
  <2>7. NW(b)' = NW(b) - 1 /\ NS(b)' = NS(b) /\ (Owned(b)' <=> Owned(b))
    BY <1>1, <2>3, NumbersOfReferences, NumbersOfReferencesNext DEF Is
  <2>8. OwnersWeakCount(b) = 0 => Observed(b)'
    BY <1>1, <2>5, <2>7, NumbersOfReferences, NumbersOfReferencesNext DEF BlockOK
  <2>9. /\ weak'[b] = weak[b] - 1 /\ use'[b] = use[b] /\ life'[b] = life[b]
        /\ Resetting(b)' = Resetting(b) /\ OwnersWeakCount(b)' = OwnersWeakCount(b)
    BY <1>1, <2>6, <2>7 DEF IInv, TypeOK, Resetting, OwnersWeakCount
  <2>10. weak'[b] = NW(b)' + OwnersWeakCount(b)' /\ use'[b] = NS(b)' + Resetting(b)'
    BY <2>5, <2>7, <2>9, NumbersOfReferences DEF BlockOK, OwnersWeakCount
  <2>11. \A u \in Threads : pc'[u] \in Ending /\ blk'[u] = b => EndingOK(u, b)'
    BY <1>1, <2>4, <2>5, <2>7, <2>9 DEF BlockOK, EndingOK, Phases, Ending
  <2>12. life'[b] # "free" => Owned(b)' \/ Observed(b)' \/ SomeAt(Ending, b)'
    BY <2>5, <2>6, <2>7, <2>8 DEF BlockOK, OwnersWeakCount, SomeAt, Ending, LastUse
  <2>13. BlockOK(b)'
    BY <2>5, <2>6, <2>7, <2>9, <2>10, <2>11, <2>12 DEF BlockOK
  <2> QED BY <1>1, <2>5, <2>13, LedgerAtBlock DEF IInv, Ledger
<1>4. \A u \in Threads : OperationOK(u)'
  BY <1>1, ConstantsAssumption DEF IInv, TypeOK, OperationOK, CanRead, CanWrite, SlotsOK, SharedSlots, WeakSlots, Locking, Releasing, Ending, LastUse
<1>5. \A u \in Threads : TemporaryOK(u)'
  BY <1>1, ConstantsAssumption DEF IInv, TypeOK, TemporaryOK, OperationOK, SharedSlots, WeakSlots, Releasing
<1>6. SlotsOK' /\ PolicyOK'
  BY <1>1, Targets, ConstantsAssumption DEF IInv, TypeOK, SlotsOK, CanRead, CanWrite, Locking, PolicyOK
<1>7. MutexOK'
  BY <1>1 DEF IInv, TypeOK, MutexOK, Owned
<1>8. OwnersSeeLiveObject' /\ NoUseAfterFree'
  BY <1>1 DEF IInv, TypeOK, OwnersSeeLiveObject, NoUseAfterFree
<1>9. FastPathIsUnique'
  BY <1>1 DEF IInv, TypeOK, FastPathIsUnique, Owned, Observed, CanRead, CanWrite, OperationOK, Releasing, Locking
<1> QED BY <1>2, <1>3, <1>4, <1>5, <1>6, <1>7, <1>8, <1>9 DEF IInv, Ledger

LEMMA DestroyStep ==
  ASSUME IInv, NEW t \in Threads, NEW b, b = blk[t], Destroy(t)
  PROVE  IInv'
<1>r. PICK q, k, d, s, n : ReleasedTo(t, q, k, d, s, n)
  BY ReleasedWrites DEF Destroy, IInv
<1>1. /\ pc[t] = "destroy" /\ b \in Blocks /\ NoBlock \notin Blocks
      /\ t # NoSlot /\ t \notin SharedPtrs /\ t \notin WeakPtrs
      /\ ~Owned(b) /\ ~Observed(b) /\ weak[b] = 0
      /\ \A u \in Threads \ {t} : pc[u] # "store" => blk[u] # b
      /\ life' = [life EXCEPT ![b] = "free"]
      /\ pc' = [pc EXCEPT ![t] = q] /\ blk' = [blk EXCEPT ![t] = k]
      /\ tgt' = [tgt EXCEPT ![t] = d] /\ src' = [src EXCEPT ![t] = s] /\ cnt' = [cnt EXCEPT ![t] = n]
      /\ \/ tgt[t] = t /\ q = "idle" /\ k = NoBlock /\ d = NoSlot /\ s = NoSlot /\ n = 0
         \/ tgt[t] # t /\ q = "store" /\ k = blk[t] /\ d = tgt[t] /\ s = src[t] /\ n = cnt[t]
      /\ sref[t] = NoBlock \/ src[t] = t
      /\ wref[t] = NoBlock \/ src[t] = t
      /\ UNCHANGED <<use, weak, mutex, sref, wref>>
  <2>1. pc[t] = "destroy" /\ b \in Blocks /\ ~Owned(b) /\ ~Observed(b) /\ weak[b] = 0
    BY DEF Destroy, IInv, TypeOK, OperationOK, LastUserIsAlone, Ending
  <2>2. ASSUME NEW u \in Threads \ {t}, pc[u] # "store"
        PROVE  blk[u] # b
    <3>1. CASE pc[u] \in Releasing
      BY <2>1, <3>1 DEF IInv, OperationOK, Owned
    <3>2. CASE pc[u] \in Ending
      BY <2>1, <3>2 DEF IInv, LastUserIsAlone, Ending
    <3>3. CASE pc[u] \in Locking \cup {"weak_dec"}
      BY <2>1, <3>3, ConstantsAssumption DEF IInv, OperationOK, Observed, WeakSlots
    <3>4. CASE pc[u] = "idle"
      BY <2>1, <3>4, ConstantsAssumption DEF IInv, OperationOK
    <3> QED BY <2>2, <3>1, <3>2, <3>3, <3>4 DEF IInv, TypeOK, Pcs, Releasing, Ending, LastUse, Locking
  <2> QED BY <1>r, <2>1, <2>2, ConstantsAssumption DEF ReleasedTo, Destroy, refs, IInv, TypeOK, OperationOK, TemporaryOK, Releasing, Ending, LastUse
<1>2. TypeOK'
  BY <1>1 DEF IInv, TypeOK, Pcs, Slots, Locking, SharedSlots, WeakSlots
<1>3. Ledger'
  <2>1. /\ \A u \in Threads \ {t} : pc'[u] = pc[u] /\ blk'[u] = blk[u]
        /\ pc'[t] \notin Phases /\ blk'[t] \in {b, NoBlock}
    BY <1>1 DEF IInv, TypeOK, Phases, Ending, LastUse
  <2>2. OnlyBlock(t, b) /\ BlockOK(b)
    BY <1>1, <2>1, NumbersOfReferences, LedgerOfBlock DEF OnlyBlock, NS, NW, IInv, Ledger, TypeOK
  <2>3. NW(b)' = NW(b) /\ NS(b)' = NS(b) /\ ~Owned(b)' /\ ~Observed(b)'
    BY <1>1 DEF NS, NW, Owned, Observed
  <2>4. \A u \in Threads : pc'[u] \in Phases => blk'[u] # b
    BY <1>1, <2>1 DEF Phases, Ending, LastUse
  <2>5. \A P \in SUBSET Phases : ~SomeAt(P, b)'
    BY <2>4 DEF SomeAt
  <2>6. Resetting(b) = 0 /\ Resetting(b)' = 0 /\ OwnersWeakCount(b)' = 0
    <3>1. ~SomeAt({"mutex_reset"}, b)
      BY <1>1 DEF SomeAt
    <3> QED BY <2>3, <2>5, <3>1 DEF Resetting, OwnersWeakCount, Phases, Ending, LastUse
  <2>7. NW(b) = 0
    BY <1>1, NumbersOfReferences
  <2>8. BlockOK(b)'
    BY <1>1, <2>2, <2>3, <2>4, <2>6, <2>7 DEF BlockOK, Phases, IInv, TypeOK
  <2> QED BY <1>1, <2>2, <2>8, LedgerAtBlock DEF IInv, Ledger
<1>4. \A u \in Threads : OperationOK(u)'
  BY <1>1, ConstantsAssumption DEF IInv, TypeOK, OperationOK, CanRead, CanWrite, SlotsOK, SharedSlots, WeakSlots, Locking, Releasing, Ending, LastUse
<1>5. \A u \in Threads : TemporaryOK(u)'
  BY <1>1, ConstantsAssumption DEF IInv, TypeOK, TemporaryOK, OperationOK, SharedSlots, WeakSlots, Releasing
<1>6. SlotsOK' /\ PolicyOK'
  BY <1>1, Targets, ConstantsAssumption DEF IInv, TypeOK, SlotsOK, CanRead, CanWrite, Locking, PolicyOK
<1>7. MutexOK'
  BY <1>1 DEF IInv, TypeOK, MutexOK, Owned
<1>8. OwnersSeeLiveObject' /\ NoUseAfterFree'
  BY <1>1 DEF IInv, TypeOK, OwnersSeeLiveObject, NoUseAfterFree, Owned, Observed
<1>9. FastPathIsUnique'
  BY <1>1 DEF IInv, TypeOK, FastPathIsUnique, Owned, Observed, CanRead, CanWrite, OperationOK, Releasing, Locking
<1> QED BY <1>2, <1>3, <1>4, <1>5, <1>6, <1>7, <1>8, <1>9 DEF IInv, Ledger

LEMMA MutexAddEmptyStep ==
  ASSUME IInv, NEW t \in Threads, NEW b, b = blk[t], MutexAdd(t), use[blk[t]] = 0
  PROVE  IInv'
<1>1. /\ pc[t] = "mutex_add" /\ b \in Blocks /\ NoBlock \notin Blocks /\ b \in mutex /\ ~Owned(b)
      /\ use' = [use EXCEPT ![b] = 1]
      /\ pc' = [pc EXCEPT ![t] = "mutex_reset"]
      /\ UNCHANGED <<weak, mutex, life, sref, wref, blk, tgt, src, cnt>>
  BY ConstantsAssumption, CountsArePositive DEF MutexAdd, Goto, IInv, TypeOK, OperationOK, MutexOK
<1>2. TypeOK'
  BY <1>1 DEF IInv, TypeOK, Pcs, Slots, Locking, SharedSlots, WeakSlots
<1>3. Ledger'
  <2>1. /\ \A u \in Threads \ {t} : pc'[u] = pc[u] /\ blk'[u] = blk[u]
        /\ pc[t] \notin Ending /\ pc'[t] \notin Ending /\ blk'[t] \in {b, NoBlock}
    BY <1>1 DEF IInv, TypeOK, Ending, LastUse
  <2>2. OnlyBlock(t, b) /\ BlockOK(b)
    BY <1>1, <2>1, NumbersOfReferences, LedgerOfBlock DEF OnlyBlock, NS, NW, IInv, Ledger, TypeOK, Phases
  <2>3. /\ NW(b)' = NW(b) /\ NS(b)' = NS(b)
        /\ Owned(b)' <=> Owned(b)
        /\ Observed(b)' <=> Observed(b)
    BY <1>1 DEF NS, NW, Owned, Observed
  <2>4. /\ SomeAt(LastUse, b)' <=> SomeAt(LastUse, b)
        /\ SomeAt({"dispose", "fast_dispose"}, b)' <=> SomeAt({"dispose", "fast_dispose"}, b)
        /\ SomeAt(Ending, b)' <=> SomeAt(Ending, b)
    BY <2>1 DEF SomeAt, Ending, LastUse
  <2>5. NS(b) = 0
    BY <1>1, NumbersOfReferences
  <2>6. Resetting(b)' = 1
    BY <1>1, <2>1 DEF Resetting, SomeAt, IInv, TypeOK
  <2>7. OwnersWeakCount(b)' = OwnersWeakCount(b)
    BY <2>3, <2>4 DEF OwnersWeakCount, Ending, LastUse
  <2>8. \A u \in Threads : pc'[u] \in Ending /\ blk'[u] = b => EndingOK(u, b)'
    BY <1>1, <2>1, <2>2, <2>3 DEF BlockOK, EndingOK
  <2>9. BlockOK(b)'
    <3>1. weak'[b] = weak[b] /\ life'[b] = life[b] /\ use'[b] = Resetting(b)'
      BY <1>1, <2>6 DEF IInv, TypeOK
    <3> QED BY <2>2, <2>3, <2>4, <2>5, <2>6, <2>7, <2>8, <3>1 DEF BlockOK
  <2> QED BY <1>1, <2>2, <2>9, LedgerAtBlock DEF IInv, Ledger
<1>4. \A u \in Threads : OperationOK(u)'
  BY <1>1, ConstantsAssumption DEF IInv, TypeOK, OperationOK, CanRead, CanWrite, SlotsOK, SharedSlots, WeakSlots, Locking, Releasing, Ending, LastUse
<1>5. \A u \in Threads : TemporaryOK(u)'
  BY <1>1, ConstantsAssumption DEF IInv, TypeOK, TemporaryOK, OperationOK, SharedSlots, WeakSlots, Releasing
<1>6. SlotsOK' /\ PolicyOK'
  BY <1>1, Targets, ConstantsAssumption DEF IInv, TypeOK, SlotsOK, CanRead, CanWrite, Locking, PolicyOK
<1>7. MutexOK'
  BY <1>1 DEF IInv, TypeOK, MutexOK, Owned
<1>8. OwnersSeeLiveObject' /\ NoUseAfterFree'
  BY <1>1 DEF IInv, TypeOK, OwnersSeeLiveObject, NoUseAfterFree
<1>9. FastPathIsUnique'
  BY <1>1 DEF IInv, TypeOK, FastPathIsUnique, Owned, Observed, CanRead, CanWrite, OperationOK, Releasing, Locking
<1> QED BY <1>2, <1>3, <1>4, <1>5, <1>6, <1>7, <1>8, <1>9 DEF IInv, Ledger

LEMMA MutexResetStep ==
  ASSUME IInv, NEW t \in Threads, NEW b, b = blk[t], MutexReset(t)
  PROVE  IInv'
<1>1. /\ pc[t] = "mutex_reset" /\ b \in Blocks /\ NoBlock \notin Blocks /\ b \in mutex /\ ~Owned(b)
      /\ \A u \in Threads \ {t} : pc[u] \in {"mutex_add", "mutex_reset"} => blk[u] # b
      /\ use' = [use EXCEPT ![b] = 0] /\ mutex' = mutex \ {b}
      /\ pc' = [pc EXCEPT ![t] = "idle"] /\ blk' = [blk EXCEPT ![t] = NoBlock]
      /\ tgt' = [tgt EXCEPT ![t] = NoSlot] /\ src' = [src EXCEPT ![t] = NoSlot]
      /\ cnt' = [cnt EXCEPT ![t] = 0]
      /\ sref[t] = NoBlock /\ wref[t] = NoBlock
      /\ UNCHANGED <<weak, life, sref, wref>>
  BY ConstantsAssumption DEF MutexReset, Return, refs, IInv, TypeOK, OperationOK, TemporaryOK, Releasing, Locking, MutexOK
<1>2. TypeOK'
  BY <1>1 DEF IInv, TypeOK, Pcs, Slots, Locking, SharedSlots, WeakSlots
<1>3. Ledger'
  <2>1. /\ \A u \in Threads \ {t} : pc'[u] = pc[u] /\ blk'[u] = blk[u]
        /\ pc[t] \notin Ending /\ pc'[t] \notin Ending /\ blk'[t] \in {b, NoBlock}
    BY <1>1 DEF IInv, TypeOK, Ending, LastUse
  <2>2. OnlyBlock(t, b) /\ BlockOK(b)
    BY <1>1, <2>1, NumbersOfReferences, LedgerOfBlock DEF OnlyBlock, NS, NW, IInv, Ledger, TypeOK, Phases
  <2>3. /\ NW(b)' = NW(b) /\ NS(b)' = NS(b)
        /\ Owned(b)' <=> Owned(b)
        /\ Observed(b)' <=> Observed(b)
    BY <1>1 DEF NS, NW, Owned, Observed
  <2>4. /\ SomeAt(LastUse, b)' <=> SomeAt(LastUse, b)
        /\ SomeAt({"dispose", "fast_dispose"}, b)' <=> SomeAt({"dispose", "fast_dispose"}, b)
        /\ SomeAt(Ending, b)' <=> SomeAt(Ending, b)
    BY <2>1 DEF SomeAt, Ending, LastUse
  <2>5. NS(b) = 0
    BY <1>1, NumbersOfReferences
  <2>6. Resetting(b)' = 0
    BY <1>1, <2>1 DEF Resetting, SomeAt, IInv, TypeOK
  <2>7. OwnersWeakCount(b)' = OwnersWeakCount(b)
    BY <2>3, <2>4 DEF OwnersWeakCount, Ending, LastUse
  <2>8. \A u \in Threads : pc'[u] \in Ending /\ blk'[u] = b => EndingOK(u, b)'
    BY <1>1, <2>1, <2>2, <2>3 DEF BlockOK, EndingOK
  <2>9. BlockOK(b)'
    <3>1. weak'[b] = weak[b] /\ life'[b] = life[b] /\ use'[b] = Resetting(b)'
      BY <1>1, <2>6 DEF IInv, TypeOK
    <3> QED BY <2>2, <2>3, <2>4, <2>5, <2>6, <2>7, <2>8, <3>1 DEF BlockOK
  <2> QED BY <1>1, <2>2, <2>9, LedgerAtBlock DEF IInv, Ledger
<1>4. \A u \in Threads : OperationOK(u)'
  BY <1>1, ConstantsAssumption DEF IInv, TypeOK, OperationOK, CanRead, CanWrite, SlotsOK, SharedSlots, WeakSlots, Locking, Releasing, Ending, LastUse
<1>5. \A u \in Threads : TemporaryOK(u)'
  BY <1>1, ConstantsAssumption DEF IInv, TypeOK, TemporaryOK, OperationOK, SharedSlots, WeakSlots, Releasing
<1>6. SlotsOK' /\ PolicyOK'
  BY <1>1, Targets, ConstantsAssumption DEF IInv, TypeOK, SlotsOK, CanRead, CanWrite, Locking, PolicyOK
<1>7. MutexOK'
  BY <1>1 DEF IInv, TypeOK, MutexOK, Owned
<1>8. OwnersSeeLiveObject' /\ NoUseAfterFree'
  BY <1>1 DEF IInv, TypeOK, OwnersSeeLiveObject, NoUseAfterFree
<1>9. FastPathIsUnique'
  BY <1>1 DEF IInv, TypeOK, FastPathIsUnique, Owned, Observed, CanRead, CanWrite, OperationOK, Releasing, Locking
<1> QED BY <1>2, <1>3, <1>4, <1>5, <1>6, <1>7, <1>8, <1>9 DEF IInv, Ledger

-----------------------------------------------------------------------------
(* The inductive invariant.                                                *)

LEMMA InitIInv == Init => IInv
<1> SUFFICES ASSUME Init PROVE IInv
  OBVIOUS
<1> USE DEF Init
<1>1. \A b \in Blocks : ~Owned(b) /\ ~Observed(b) /\ NS(b) = 0 /\ NW(b) = 0
  BY NumbersOfReferences, ConstantsAssumption DEF Owned, Observed
<1>2. \A P, b : b \in Blocks => ~SomeAt(P, b)
  BY ConstantsAssumption DEF SomeAt
<1>3. CountsAreReferences
  BY <1>1, <1>2, CountsAsNumbers DEF Resetting, OwnersWeakCount
<1>4. TypeOK
  BY DEF TypeOK, Pcs, Slots
<1>5. \A t \in Threads : OperationOK(t) /\ TemporaryOK(t)
  BY ConstantsAssumption
     DEF OperationOK, TemporaryOK, SharedSlots, WeakSlots, Releasing, Ending, LastUse, Locking
<1>6. SlotsOK /\ MutexOK /\ PolicyOK /\ FastPathIsUnique
  BY DEF SlotsOK, MutexOK, PolicyOK, FastPathIsUnique, Locking
<1>7. OwnersSeeLiveObject /\ NoUseAfterFree /\ LastUserIsAlone /\ NoLeak
  BY DEF OwnersSeeLiveObject, NoUseAfterFree, LastUserIsAlone, NoLeak, Ending, LastUse
<1> QED BY <1>3, <1>4, <1>5, <1>6, <1>7 DEF IInv

LEMMA StutterIInv == IInv /\ UNCHANGED vars => IInv'
<1> SUFFICES ASSUME IInv, UNCHANGED vars PROVE IInv'
  OBVIOUS
<1>1. UNCHANGED <<use, weak, mutex, life, sref, wref, pc, blk, tgt, src, cnt>>
  BY DEF vars
<1>2. Ledger'
  <2>1. InStep /\ SamePhases
    BY <1>1, NumbersOfReferences DEF InStep, SamePhases, NS, NW, IInv, TypeOK
  <2> QED BY <1>1, <2>1, LedgerStep DEF IInv, Ledger
<1>3. /\ TypeOK' /\ SlotsOK' /\ PolicyOK' /\ OwnersSeeLiveObject' /\ NoUseAfterFree'
      /\ \A t \in Threads : OperationOK(t)' /\ TemporaryOK(t)'
  BY <1>1 DEF IInv, TypeOK, SlotsOK, PolicyOK, OwnersSeeLiveObject, NoUseAfterFree,
     OperationOK, TemporaryOK
<1>4. MutexOK' /\ FastPathIsUnique'
  BY <1>1 DEF IInv, MutexOK, FastPathIsUnique, Owned, Observed
<1> QED BY <1>2, <1>3, <1>4 DEF IInv, Ledger

LEMMA NextIInv == IInv /\ [Next]_vars => IInv'
<1> SUFFICES ASSUME IInv, Next PROVE IInv'
  BY StutterIInv
<1>1. PICK t \in Threads : \/ ClientShared(t) \/ ClientWeak(t) \/ ClientLock(t)
                           \/ Release(t) \/ LockStep(t)
  BY DEF Next
<1>2. CASE ClientShared(t)
  BY <1>2, NewStep, CopySharedStep, AssignSharedStep, ResetSharedStep, SwapSharedStep,
     MoveAssignSharedStep DEF ClientShared
<1>3. CASE ClientWeak(t)
  BY <1>3, CopyWeakStep, AssignWeakStep, ResetWeakStep, SwapWeakStep, MoveAssignWeakStep,
     ConvertMoveWeakStep DEF ClientWeak
<1>4. CASE ClientLock(t)
  BY <1>4, LockLoadStep, LockMutexStep DEF ClientLock
<1>5. CASE Release(t)
  <2>1. CASE LoadBoth(t) \/ FastStore(t) \/ FastDispose(t) \/ Dispose(t) \/ Destroy(t)
    BY <2>1, LoadBothStep, FastStoreStep, FastDisposeStep, DisposeStep, DestroyStep
  <2>2. CASE DecUse(t)
    BY <2>2, DecUseLastStep, DecUseSharedStep
  <2>3. CASE DecWeak(t)
    BY <2>3, DecWeakLastStep, DecWeakSharedStep
  <2>4. CASE WeakDec(t)
    BY <2>4, WeakDecLastStep, WeakDecSharedStep
  <2>5. CASE Store(t)
    <3>1. tgt[t] \in SharedPtrs \/ tgt[t] \in WeakPtrs
      BY <2>5 DEF Store
    <3> QED BY <2>5, <3>1, StoreSharedStep, StoreWeakStep
  <2> QED BY <1>5, <2>1, <2>2, <2>3, <2>4, <2>5 DEF Release
<1>6. CASE LockStep(t)
  BY <1>6, CasSucceedsStep, CasFailsRetryStep, CasFailsEmptyStep, MutexAcquireStep,
     MutexAddOwnedStep, MutexAddEmptyStep, MutexResetStep DEF LockStep
<1> QED BY <1>1, <1>2, <1>3, <1>4, <1>5, <1>6

(* Every reachable state satisfies the inductive invariant.                *)
THEOREM InductiveInvariant == Spec => []IInv
BY InitIInv, NextIInv, PTL DEF Spec

(* The type invariant: in particular no counter is ever decremented below  *)
(* zero, whatever the policy and however many threads release at once.     *)
THEOREM TypeCorrect == Spec => []TypeOK
<1>1. IInv => TypeOK
  BY DEF IInv
<1> QED BY <1>1, InductiveInvariant, PTL

(* _M_use_count is "#shared" and _M_weak_count is "#weak + (#shared != 0)" *)
(* in every state.                                                         *)
THEOREM CountsCorrect == Spec => []CountsAreReferences
<1>1. IInv => CountsAreReferences
  BY DEF IInv
<1> QED BY <1>1, InductiveInvariant, PTL

(* No shared_ptr owns a dead object.                                       *)
THEOREM OwnersAlive == Spec => []OwnersSeeLiveObject
<1>1. IInv => OwnersSeeLiveObject
  BY DEF IInv
<1> QED BY <1>1, InductiveInvariant, PTL

(* No thread and no weak_ptr reaches a freed control block.                *)
THEOREM NoBlockUsedAfterFree == Spec => []NoUseAfterFree
<1>1. IInv => NoUseAfterFree
  BY DEF IInv
<1> QED BY <1>1, InductiveInvariant, PTL

(* _M_dispose and _M_destroy run once and in that order.                   *)
THEOREM EndsOnce == Spec => []LastUserIsAlone
<1>1. IInv => LastUserIsAlone
  BY DEF IInv
<1> QED BY <1>1, InductiveInvariant, PTL

(* No object and no control block is lost.                                 *)
THEOREM NothingLeaks == Spec => []NoLeak
<1>1. IInv => NoLeak
  BY DEF IInv
<1> QED BY <1>1, InductiveInvariant, PTL

(* The plain stores of the unique-owner path race with nobody.             *)
THEOREM FastPathSound == Spec => []FastPathIsUnique
<1>1. IInv => FastPathIsUnique
  BY DEF IInv
<1> QED BY <1>1, InductiveInvariant, PTL

(* One step never makes an expired weak_ptr unexpired, but for the         *)
(* temporary increment of the mutex policy.                                *)
StillExpired ==
  \A b \in Blocks : life[b] # "free" /\ life'[b] # "free" /\ use[b] = 0 => use'[b] = 0

LEMMA NextStillExpired ==
  ASSUME Policy # "mutex", IInv, Next
  PROVE  StillExpired
<1> SUFFICES ASSUME NEW b \in Blocks, life[b] # "free", use[b] = 0
             PROVE  use'[b] = 0
  BY DEF StillExpired
<1> USE ConstantsAssumption DEF IInv, TypeOK
<1>1. /\ \A s \in SharedSlots : sref[s] # b
      /\ \A t \in Threads : pc[t] = "cas" => cnt[t] # 0
      /\ \A t \in Threads : pc[t] \notin Locking \ {"cas"}
  BY CountsArePositive DEF Owned, PolicyOK
<1>2. PICK t \in Threads : \/ ClientShared(t) \/ ClientWeak(t) \/ ClientLock(t)
                           \/ Release(t) \/ LockStep(t)
  BY DEF Next
<1>3. CASE ClientShared(t)
  <2>1. ASSUME NEW p \in SharedPtrs, NEW c \in Blocks, New(t, p, c) PROVE use'[b] = 0
    BY <2>1 DEF New
  <2>2. ASSUME NEW q \in SharedPtrs, NEW p \in SharedPtrs, CopyShared(t, q, p) PROVE use'[b] = 0
    BY <1>1, <2>2 DEF CopyShared, SharedSlots
  <2>3. ASSUME NEW q \in SharedPtrs, NEW p \in SharedPtrs, AssignShared(t, q, p) PROVE use'[b] = 0
    BY <1>1, <2>3 DEF AssignShared, SharedSlots
  <2>4. ASSUME NEW q \in SharedPtrs, NEW p \in SharedPtrs,
               ResetShared(t, p) \/ SwapShared(t, q, p) \/ MoveAssignShared(t, q, p)
        PROVE use'[b] = 0
    BY <2>4 DEF ResetShared, SwapShared, MoveAssignShared, counts
  <2> QED BY <1>3, <2>1, <2>2, <2>3, <2>4 DEF ClientShared
<1>4. CASE ClientWeak(t)
  BY <1>4 DEF ClientWeak, CopyWeak, AssignWeak, ResetWeak, SwapWeak, MoveAssignWeak, ConvertMoveWeak, counts
<1>5. CASE ClientLock(t)
  BY <1>5 DEF ClientLock, LockLoad, LockMutex, AddRef, counts, CanLock
<1>6. CASE Release(t)
  <2>1. CASE DecUse(t)
    <3>1. blk[t] # b
      BY <1>1, <2>1 DEF DecUse, OperationOK, Releasing
    <3> QED BY <2>1, <3>1 DEF DecUse
  <2>2. CASE FastStore(t)
    BY <2>2 DEF FastStore
  <2> QED BY <1>6, <2>1, <2>2 DEF Release, LoadBoth, FastDispose, Dispose, DecWeak, WeakDec, Destroy, Store, counts
<1>7. CASE LockStep(t)
  BY <1>1, <1>7 DEF LockStep, CasSucceeds, CasFails, MutexAcquire, MutexAdd, MutexReset, AddRef, Locking, counts
<1> QED BY <1>2, <1>3, <1>4, <1>5, <1>6, <1>7

(* With the atomic policy expired() never flips back.                      *)
THEOREM ExpiredStaysExpired ==
  ASSUME Policy # "mutex"
  PROVE  Spec => ExpiredIsForever
<1>1. IInv /\ [Next]_vars => [StillExpired]_vars
  BY NextStillExpired
<1>2. ExpiredIsForever <=> [][StillExpired]_vars
  BY PTL DEF ExpiredIsForever, StillExpired
<1> QED BY <1>1, <1>2, InductiveInvariant, PTL DEF Spec
=============================================================================
