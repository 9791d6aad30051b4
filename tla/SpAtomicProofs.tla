--------------------------- MODULE SpAtomicProofs ---------------------------
(***************************************************************************)
(* SpAtomic for any number of threads, any blocks and parts, and both code *)
(* paths: the lock excludes, the counts are exact, no dead value is read,  *)
(* and the two words implement the one register of AtomicValue.            *)
(***************************************************************************)
EXTENDS SpAtomic, FiniteSetTheorems, TLAPS

(* In which operations a thread is at each place.                          *)
OpOK(t) ==
  /\ pc[t] \in {"idle", "notify"} => op[t] = "none"
  /\ pc[t] \in {"lock", "lock_cas", "held"} => op[t] \in {"load", "swap", "cas", "wait", "recheck"}
  /\ pc[t] \in {"unlock", "unlock_cas"} => op[t] \in {"load", "cas", "wait", "woken", "same"}
  /\ pc[t] = "swap_unlock" => op[t] \in {"swap", "cas"}
  /\ pc[t] = "add_ref" => op[t] \in {"load", "cas"}
  /\ pc[t] \in {"set_ptr", "take_current", "drop_snk"} => op[t] = "cas"
  /\ pc[t] = "drop_arg" => op[t] \in {"none", "cas", "exchanged", "woken"}
  /\ pc[t] \in {"wait_read", "sleep", "asleep"} => op[t] = "wait"

ControlOK == \A t \in Threads : OpOK(t)

(* A value has a pointer if and only if it has a block.                    *)
Whole(v) == v.ptr = NoPtr <=> v.pi = NoBlock

(* What a thread holds in its hands at each place, and which of its values *)
(* are whole there.                                                        *)
HandsOK(t) ==
  /\ snk[t] # NoValue => op[t] = "cas" /\ pc[t] \in {"add_ref", "unlock", "unlock_cas", "drop_snk"}
  /\ Whole(snk[t])
  /\ op[t] = "load" /\ pc[t] \in {"lock", "lock_cas", "held"} => arg[t] = NoValue
  /\ At(t, "load", "add_ref") => arg[t] = [ptr |-> ptr, pi |-> NoBlock]
  /\ IF At(t, "cas", "add_ref") THEN exp[t] = [ptr |-> ptr, pi |-> NoBlock] ELSE Whole(exp[t])
  /\ At(t, "load", "add_ref") \/ At(t, "swap", "swap_unlock") \/ op[t] = "exchanged" \/ Whole(arg[t])
  /\ At(t, "cas", "set_ptr") => ptr = exp[t].ptr /\ word.pi = exp[t].pi
  /\ At(t, "cas", "take_current") => ~(ptr = exp[t].ptr /\ word.pi = exp[t].pi)
  /\ At(t, "cas", "add_ref") => ~(ptr = snk[t].ptr /\ word.pi = snk[t].pi)
  /\ At(t, "swap", "swap_unlock") =>
       /\ ptr = NoPtr <=> arg[t].pi = NoBlock
       /\ arg[t].ptr = NoPtr <=> word.pi = NoBlock
  /\ At(t, "cas", "swap_unlock") => ptr = arg[t].ptr /\ word.pi = exp[t].pi
  /\ Holding(t) /\ pc[t] # "swap_unlock" => Whole([ptr |-> ptr, pi |-> word.pi])

ValuesOK ==
  /\ \A t \in Threads : HandsOK(t)
  /\ ~word.locked => Whole([ptr |-> ptr, pi |-> word.pi])

IInv == TypeOK /\ LockIsExclusive /\ ControlOK /\ ValuesOK /\ CountsAreHolders

-----------------------------------------------------------------------------
(* Counting.                                                               *)

Is(a, b) == IF a = b THEN 1 ELSE 0

Holders(f, b) == Cardinality({t \in Threads : f[t].pi = b})

LEMMA HoldersType ==
  ASSUME NEW f, NEW b
  PROVE  /\ Holders(f, b) \in Nat
         /\ \A t \in Threads : f[t].pi = b => Holders(f, b) > 0
<1> DEFINE F == {t \in Threads : f[t].pi = b}
<1>1. IsFiniteSet(F)
  BY AtomicAssumption, FS_Subset
<1>2. Cardinality(F) \in Nat /\ (Cardinality(F) = 0 <=> F = {})
  BY <1>1, FS_CardinalityType, FS_EmptySet
<1>3. Holders(f, b) = Cardinality(F)
  BY DEF Holders
<1>4. \A t \in Threads : f[t].pi = b => F # {}
  OBVIOUS
<1> HIDE DEF F
<1> QED
  BY <1>2, <1>3, <1>4

(* A thread exchanges one of its values for another.                       *)
Written(f, t, v, g) == f \in [Threads -> Values] /\ g = [f EXCEPT ![t] = v]

LEMMA HoldersWrite ==
  ASSUME NEW f, NEW t \in Threads, NEW v \in Values, NEW b, NEW g, Written(f, t, v, g)
  PROVE  Holders(g, b) = Holders(f, b) + Is(v.pi, b) - Is(f[t].pi, b)
<1> DEFINE F == {u \in Threads : f[u].pi = b}
           G == {u \in Threads : g[u].pi = b}
<1>1. IsFiniteSet(F) /\ IsFiniteSet(G) /\ Cardinality(F) \in Nat /\ Cardinality(G) \in Nat
  BY AtomicAssumption, FS_Subset, FS_CardinalityType
<1>2. Holders(f, b) = Cardinality(F) /\ Holders(g, b) = Cardinality(G)
  BY DEF Holders
<1>3. /\ f[t].pi = b /\ v.pi = b => G = F
      /\ f[t].pi # b /\ v.pi # b => G = F
      /\ f[t].pi # b /\ v.pi = b => G = F \cup {t} /\ t \notin F
      /\ f[t].pi = b /\ v.pi # b => G = F \ {t} /\ t \in F
  BY DEF Written
<1> HIDE DEF F, G
<1>4. /\ f[t].pi # b /\ v.pi = b => Cardinality(G) = Cardinality(F) + 1
      /\ f[t].pi = b /\ v.pi # b => Cardinality(G) = Cardinality(F) - 1
  BY <1>1, <1>3, FS_AddElement, FS_RemoveElement
<1> QED
  BY <1>1, <1>2, <1>3, <1>4 DEF Is

LEMMA RefsAreHolders ==
  \A b : Refs(b) = Is(word.pi, b) + Holders(arg, b) + Holders(exp, b) + Holders(snk, b)
BY DEF Refs, Is, Holders

(* What is held is counted, and alive.                                     *)
LEMMA HeldIsAlive ==
  ASSUME CountsAreHolders, TypeOK, NEW b \in Blocks,
         \/ word.pi = b
         \/ \E t \in Threads : arg[t].pi = b \/ exp[t].pi = b \/ snk[t].pi = b
  PROVE  use[b] > 0 /\ b \in alive
<1>1. /\ Holders(arg, b) \in Nat /\ Holders(exp, b) \in Nat /\ Holders(snk, b) \in Nat
      /\ \A t \in Threads : /\ arg[t].pi = b => Holders(arg, b) > 0
                            /\ exp[t].pi = b => Holders(exp, b) > 0
                            /\ snk[t].pi = b => Holders(snk, b) > 0
  BY HoldersType
<1>2. use[b] = Is(word.pi, b) + Holders(arg, b) + Holders(exp, b) + Holders(snk, b)
  BY RefsAreHolders DEF CountsAreHolders
<1>3. use[b] > 0
  BY <1>1, <1>2 DEF Is
<1> QED
  BY <1>3 DEF CountsAreHolders

(* The ledger: thread t is left with the values a, e and s, and the counts *)
(* change by what the word and these values give and take.                 *)
Balanced(t, a, e, s) ==
  /\ Written(arg, t, a, arg') /\ Written(exp, t, e, exp') /\ Written(snk, t, s, snk')
  /\ use' \in [Blocks -> Int]
  /\ \A b \in Blocks :
       use'[b] = use[b] + Is(word'.pi, b) - Is(word.pi, b) + Is(a.pi, b) - Is(arg[t].pi, b)
                        + Is(e.pi, b) - Is(exp[t].pi, b) + Is(s.pi, b) - Is(snk[t].pi, b)
  /\ \A b \in Blocks : b \in alive' <=> use'[b] > 0

LEMMA Ledger ==
  ASSUME CountsAreHolders, TypeOK, NEW t \in Threads,
         NEW a \in Values, NEW e \in Values, NEW s \in Values, Balanced(t, a, e, s)
  PROVE  CountsAreHolders' /\ use' \in [Blocks -> Nat]
<1> SUFFICES ASSUME NEW b \in Blocks
             PROVE  use'[b] = Refs(b)' /\ use'[b] \in Nat
  BY DEF CountsAreHolders, Balanced
<1>1. /\ Holders(arg', b) = Holders(arg, b) + Is(a.pi, b) - Is(arg[t].pi, b)
      /\ Holders(exp', b) = Holders(exp, b) + Is(e.pi, b) - Is(exp[t].pi, b)
      /\ Holders(snk', b) = Holders(snk, b) + Is(s.pi, b) - Is(snk[t].pi, b)
  BY HoldersWrite DEF Balanced
<1>2. /\ Holders(arg, b) \in Nat /\ Holders(exp, b) \in Nat /\ Holders(snk, b) \in Nat
      /\ Holders(arg', b) \in Nat /\ Holders(exp', b) \in Nat /\ Holders(snk', b) \in Nat
  BY HoldersType
<1>3. use[b] = Is(word.pi, b) + Holders(arg, b) + Holders(exp, b) + Holders(snk, b)
  BY RefsAreHolders DEF CountsAreHolders
<1>4. Refs(b)' = Is(word'.pi, b) + Holders(arg', b) + Holders(exp', b) + Holders(snk', b)
  BY DEF Refs, Is, Holders
<1>5. use'[b] = use[b] + Is(word'.pi, b) - Is(word.pi, b) + Is(a.pi, b) - Is(arg[t].pi, b)
                  + Is(e.pi, b) - Is(exp[t].pi, b) + Is(s.pi, b) - Is(snk[t].pi, b)
  BY DEF Balanced
<1> QED
  BY <1>1, <1>2, <1>3, <1>4, <1>5 DEF Is

-----------------------------------------------------------------------------
(* Steps that touch no value: they move the lock, or decide where to go.   *)

LEMMA SameCounts ==
  ASSUME CountsAreHolders, UNCHANGED <<objects, values>>, word'.pi = word.pi
  PROVE  CountsAreHolders'
BY DEF CountsAreHolders, Refs, objects, values

(* A step of t leaves the other threads where they are.                    *)
OthersStay(t) ==
  \A u \in Threads \ {t} :
    /\ pc'[u] = pc[u] /\ op'[u] = op[u] /\ cur'[u] = cur[u] /\ seen'[u] = seen[u]
    /\ arg'[u] = arg[u] /\ exp'[u] = exp[u] /\ snk'[u] = snk[u]

(* What is left to show of such a step.                                    *)
LEMMA StepOfOne ==
  ASSUME IInv, NEW t \in Threads, TypeOK', OthersStay(t), LockIsExclusive', CountsAreHolders',
         OpOK(t)', HandsOK(t)',
         \/ ptr' = ptr /\ word'.pi = word.pi
         \/ Holding(t)
         \/ \A u \in Threads : ~Holding(u),
         ~word'.locked => Whole([ptr |-> ptr', pi |-> word'.pi])
  PROVE  IInv'
<1> SUFFICES ASSUME NEW u \in Threads, u # t
             PROVE  OpOK(u)' /\ HandsOK(u)'
  BY DEF IInv, ControlOK, ValuesOK, Whole
<1>1. /\ pc'[u] = pc[u] /\ op'[u] = op[u]
      /\ arg'[u] = arg[u] /\ exp'[u] = exp[u] /\ snk'[u] = snk[u]
  BY DEF OthersStay
<1>2. Holding(u) => ptr' = ptr /\ word'.pi = word.pi
  BY DEF IInv, LockIsExclusive
<1>3. OpOK(u) /\ HandsOK(u)
  BY DEF IInv, ControlOK, ValuesOK
<1>4. OpOK(u)'
  BY <1>1, <1>3 DEF OpOK
<1>5. HandsOK(u)'
  BY <1>1, <1>2, <1>3 DEF HandsOK, Whole, At, Holding, HoldingPcs
<1> QED BY <1>4, <1>5

(* The lock stays where it is,                                             *)
LEMMA LockStays ==
  ASSUME IInv, NEW t \in Threads, OthersStay(t), word' = word,
         pc[t] \in HoldingPcs <=> pc'[t] \in HoldingPcs,
         pc'[t] \in HoldingPcs => cur'[t] = cur[t],
         pc'[t] = "unlock_cas" => seen'[t] = word
  PROVE  LockIsExclusive'
<1>1. \A u \in Threads : Holding(u)' <=> Holding(u)
  BY DEF Holding, OthersStay
<1>2. \A u \in Threads : Holding(u)' => cur'[u] = cur[u]
  BY DEF Holding, OthersStay
<1>3. \A u \in Threads : pc'[u] = "unlock_cas" => seen'[u] = word
  BY DEF OthersStay, IInv, LockIsExclusive
<1> QED BY <1>1, <1>2, <1>3 DEF IInv, LockIsExclusive

(* is taken,                                                               *)
LEMMA LockTaken ==
  ASSUME IInv, NEW t \in Threads, OthersStay(t), ~word.locked, word'.locked, word'.pi = word.pi,
         Holding(t)', cur'[t] = word.pi, pc'[t] # "unlock_cas"
  PROVE  LockIsExclusive'
<1>1. \A u \in Threads : ~Holding(u) /\ pc[u] # "unlock_cas"
  BY DEF IInv, LockIsExclusive, Holding, HoldingPcs
<1>2. \A u \in Threads : Holding(u)' <=> u = t
  BY <1>1 DEF OthersStay, Holding
<1>3. \A u \in Threads : pc'[u] # "unlock_cas"
  BY <1>1 DEF OthersStay
<1>4. word'.locked = TRUE
  BY DEF IInv, TypeOK, Words
<1> QED BY <1>2, <1>3 DEF LockIsExclusive

(* or is given back.                                                       *)
LEMMA LockReleased ==
  ASSUME IInv, NEW t \in Threads, OthersStay(t), Holding(t), ~Holding(t)', word'.locked = FALSE
  PROVE  LockIsExclusive'
<1>1. \A u \in Threads : u # t => ~Holding(u) /\ pc[u] # "unlock_cas"
  BY DEF IInv, LockIsExclusive, Holding, HoldingPcs
<1>2. \A u \in Threads : ~Holding(u)'
  BY <1>1 DEF OthersStay, Holding
<1>3. \A u \in Threads : pc'[u] # "unlock_cas"
  BY <1>2 DEF Holding, HoldingPcs
<1> QED BY <1>2, <1>3 DEF LockIsExclusive

LEMMA ResetStep ==
  ASSUME IInv, NEW t \in Threads, Reset(t)
  PROVE  IInv'
<1>1. /\ pc[t] = "idle" /\ pc' = [pc EXCEPT ![t] = "drop_arg"] /\ UNCHANGED <<word, ptr, use, alive, arg, exp, snk, seen, stale, cur, op>>
  BY DEF Reset, shared, objects, values, sleep, control, Goto, Idle
<1>2. OthersStay(t)
  BY <1>1 DEF IInv, TypeOK, OthersStay
<1>3. TypeOK'
  BY <1>1 DEF IInv, TypeOK, Pcs
<1>4. LockIsExclusive'
  BY <1>1, <1>2, LockStays DEF IInv, TypeOK, Pcs, HoldingPcs
<1>5. CountsAreHolders'
  BY <1>1, SameCounts DEF IInv, objects, values
<1>6. OpOK(t) /\ HandsOK(t) /\ (~word.locked => Whole([ptr |-> ptr, pi |-> word.pi]))
  BY DEF IInv, ControlOK, ValuesOK
<1>7. OpOK(t)' /\ HandsOK(t)'
  BY <1>1, <1>6 DEF IInv, TypeOK, OpOK, HandsOK, Whole, At, Holding, HoldingPcs
<1> QED BY <1>1, <1>2, <1>3, <1>4, <1>5, <1>6, <1>7, StepOfOne

LEMMA CallStep ==
  ASSUME IInv, NEW t \in Threads, NEW o \in Ops, Call(t, o)
  PROVE  IInv'
<1>1. /\ pc[t] = "idle" /\ pc' = [pc EXCEPT ![t] = "lock"] /\ op' = [op EXCEPT ![t] = o]
      /\ (o = "load" => arg[t] = NoValue) /\ UNCHANGED <<word, ptr, use, alive, arg, exp, snk, seen, stale, cur>>
  BY DEF Call, shared, objects, values, sleep, control, GotoIn, Idle
<1>2. OthersStay(t)
  BY <1>1 DEF IInv, TypeOK, OthersStay
<1>3. TypeOK'
  BY <1>1, AtomicAssumption DEF IInv, TypeOK, Pcs
<1>4. LockIsExclusive'
  BY <1>1, <1>2, LockStays DEF IInv, TypeOK, Pcs, HoldingPcs
<1>5. CountsAreHolders'
  BY <1>1, SameCounts DEF IInv, objects, values
<1>6. OpOK(t) /\ HandsOK(t) /\ (~word.locked => Whole([ptr |-> ptr, pi |-> word.pi]))
  BY DEF IInv, ControlOK, ValuesOK
<1>7. OpOK(t)' /\ HandsOK(t)'
  BY <1>1, <1>6, AtomicAssumption DEF IInv, TypeOK, OpOK, HandsOK, Whole, At, Holding, HoldingPcs
<1> QED BY <1>1, <1>2, <1>3, <1>4, <1>5, <1>6, <1>7, StepOfOne

LEMMA SpinStep ==
  ASSUME IInv, NEW t \in Threads, Spin(t)
  PROVE  IInv'
<1>1. /\ pc[t] = "lock" /\ pc' = [pc EXCEPT ![t] = "lock_cas"]
      /\ cur' = [cur EXCEPT ![t] = word.pi] /\ UNCHANGED <<word, ptr, use, alive, arg, exp, snk, seen, stale, op>>
  BY DEF Spin, shared, objects, values, sleep, control
<1>2. OthersStay(t)
  BY <1>1 DEF IInv, TypeOK, OthersStay
<1>3. TypeOK'
  BY <1>1, AtomicAssumption DEF IInv, TypeOK, Pcs, Words
<1>4. LockIsExclusive'
  BY <1>1, <1>2, LockStays DEF IInv, TypeOK, Pcs, HoldingPcs
<1>5. CountsAreHolders'
  BY <1>1, SameCounts DEF IInv, objects, values
<1>6. OpOK(t) /\ HandsOK(t) /\ (~word.locked => Whole([ptr |-> ptr, pi |-> word.pi]))
  BY DEF IInv, ControlOK, ValuesOK
<1>7. OpOK(t)' /\ HandsOK(t)'
  BY <1>1, <1>6 DEF IInv, TypeOK, OpOK, HandsOK, Whole, At, Holding, HoldingPcs
<1> QED BY <1>1, <1>2, <1>3, <1>4, <1>5, <1>6, <1>7, StepOfOne

LEMMA LockCasStep ==
  ASSUME IInv, NEW t \in Threads, LockCas(t)
  PROVE  IInv'
<1>1. /\ pc[t] = "lock_cas" /\ UNCHANGED <<ptr, use, alive, arg, exp, snk, seen, stale, op>>
      /\ \/ /\ word = Unlocked(cur[t]) /\ word' = [word EXCEPT !.locked = TRUE]
            /\ pc' = [pc EXCEPT ![t] = "held"] /\ cur' = cur
         \/ word' = word /\ pc' = pc /\ cur' = [cur EXCEPT ![t] = word.pi]
  BY DEF LockCas, Goto, objects, values, sleep
<1>2. /\ OthersStay(t)
      /\ word'.pi = word.pi
  BY <1>1 DEF IInv, TypeOK, OthersStay, Words
<1>3. TypeOK'
  BY <1>1 DEF IInv, TypeOK, Pcs, Words
<1>4. LockIsExclusive'
  <2>1. CASE word = Unlocked(cur[t]) /\ word' = [word EXCEPT !.locked = TRUE]
              /\ pc' = [pc EXCEPT ![t] = "held"] /\ cur' = cur
    <3>1. ~word.locked /\ word'.locked /\ cur'[t] = word.pi /\ pc'[t] = "held"
      BY <2>1 DEF Unlocked, IInv, TypeOK, Words
    <3> QED BY <1>2, <3>1, LockTaken DEF Holding, HoldingPcs
  <2>2. CASE word' = word /\ pc' = pc /\ cur' = [cur EXCEPT ![t] = word.pi]
    BY <1>1, <1>2, <2>2, LockStays DEF IInv, TypeOK, HoldingPcs
  <2> QED BY <1>1, <2>1, <2>2
<1>5. CountsAreHolders'
  BY <1>1, <1>2, SameCounts DEF IInv, objects, values
<1>6. /\ OpOK(t) /\ HandsOK(t) /\ (~word.locked => Whole([ptr |-> ptr, pi |-> word.pi]))
      /\ ~word'.locked => ~word.locked
      /\ pc'[t] # "lock_cas" => ~word.locked
  BY <1>1 DEF IInv, ControlOK, ValuesOK, TypeOK, Words, Unlocked
<1>7. OpOK(t)' /\ HandsOK(t)'
  BY <1>1, <1>2, <1>6 DEF IInv, TypeOK, OpOK, HandsOK, Whole, At, Holding, HoldingPcs
<1> QED BY <1>1, <1>2, <1>3, <1>4, <1>5, <1>6, <1>7, StepOfOne

LEMMA UnlockLoadStep ==
  ASSUME IInv, NEW t \in Threads, UnlockLoad(t)
  PROVE  IInv'
<1>1. /\ pc[t] = "unlock" /\ pc' = [pc EXCEPT ![t] = "unlock_cas"]
      /\ seen' = [seen EXCEPT ![t] = word] /\ UNCHANGED <<word, ptr, use, alive, arg, exp, snk, cur, stale, op>>
  BY DEF UnlockLoad, shared, objects, values, sleep, control, Goto
<1>2. OthersStay(t)
  BY <1>1 DEF IInv, TypeOK, OthersStay
<1>3. TypeOK'
  BY <1>1 DEF IInv, TypeOK, Pcs
<1>4. LockIsExclusive'
  BY <1>1, <1>2, LockStays DEF IInv, TypeOK, Pcs, HoldingPcs
<1>5. CountsAreHolders'
  BY <1>1, SameCounts DEF IInv, objects, values
<1>6. OpOK(t) /\ HandsOK(t) /\ (~word.locked => Whole([ptr |-> ptr, pi |-> word.pi]))
  BY DEF IInv, ControlOK, ValuesOK
<1>7. OpOK(t)' /\ HandsOK(t)'
  BY <1>1, <1>6 DEF IInv, TypeOK, OpOK, HandsOK, Whole, At, Holding, HoldingPcs
<1> QED BY <1>1, <1>2, <1>3, <1>4, <1>5, <1>6, <1>7, StepOfOne

(* Where unlock() returns to, with the lock given back.                    *)
LEMMA AfterUnlockStep ==
  ASSUME IInv, NEW t \in Threads, pc[t] \in {"unlock", "unlock_cas"},
         word' = Unlocked(word.pi), AfterUnlock(t), UNCHANGED <<ptr, objects, values>>
  PROVE  IInv'
<1>1. /\ UNCHANGED <<ptr, use, alive, arg, exp, snk>> /\ word'.pi = word.pi /\ word'.locked = FALSE
      /\ Holding(t)
  BY DEF objects, values, Unlocked, Holding, HoldingPcs
<1>2. /\ \/ /\ op[t] = "load" /\ pc' = [pc EXCEPT ![t] = "idle"] /\ op' = [op EXCEPT ![t] = "none"]
            /\ cur' = [cur EXCEPT ![t] = NoBlock] /\ seen' = [seen EXCEPT ![t] = Unlocked(NoBlock)]
            /\ stale' = stale \ {t}
         \/ /\ op[t] = "cas" /\ pc' = [pc EXCEPT ![t] = "drop_snk"]
            /\ UNCHANGED <<op, cur, seen, stale>>
         \/ /\ op[t] = "wait" /\ pc' = [pc EXCEPT ![t] = "wait_read"]
            /\ UNCHANGED <<op, cur, seen, stale>>
         \/ /\ op[t] = "woken" /\ pc' = [pc EXCEPT ![t] = "drop_arg"]
            /\ UNCHANGED <<op, cur, seen, stale>>
         \/ /\ op[t] = "same" /\ pc' = [pc EXCEPT ![t] = "sleep"] /\ op' = [op EXCEPT ![t] = "wait"]
            /\ UNCHANGED <<cur, seen, stale>>
  BY DEF AfterUnlock, Return, Goto, GotoIn, sleep
<1>3. OthersStay(t)
  BY <1>1, <1>2 DEF IInv, TypeOK, OthersStay
<1>4. TypeOK'
  <2>1. word' \in Words /\ Unlocked(NoBlock) \in Words /\ NoBlock \in BlocksOrNo
    BY DEF IInv, TypeOK, Words, BlocksOrNo, Unlocked
  <2>2. pc' \in [Threads -> Pcs] /\ cur' \in [Threads -> BlocksOrNo]
    BY <1>2, <2>1 DEF IInv, TypeOK, Pcs
  <2>3. seen' \in [Threads -> Words] /\ stale' \subseteq Threads
    BY <1>2, <2>1 DEF IInv, TypeOK
  <2> QED BY <1>1, <1>2, <2>1, <2>2, <2>3 DEF IInv, TypeOK
<1>5. ~Holding(t)'
  BY <1>2 DEF IInv, TypeOK, Holding, HoldingPcs
<1>6. LockIsExclusive'
  BY <1>1, <1>3, <1>5, LockReleased
<1>7. CountsAreHolders'
  BY <1>1, SameCounts DEF IInv
<1>8. OpOK(t) /\ HandsOK(t) /\ Whole([ptr |-> ptr, pi |-> word.pi])
  BY <1>1 DEF IInv, ControlOK, ValuesOK, HandsOK
<1>9. OpOK(t)' /\ HandsOK(t)'
  BY <1>1, <1>2, <1>8 DEF IInv, TypeOK, OpOK, HandsOK, Whole, At, Holding, HoldingPcs
<1> QED BY <1>1, <1>3, <1>4, <1>6, <1>7, <1>8, <1>9, StepOfOne DEF Whole

LEMMA UnlockSubStep ==
  ASSUME IInv, NEW t \in Threads, UnlockSub(t)
  PROVE  IInv'
BY AfterUnlockStep DEF UnlockSub

(* A second try of the compare-exchange would find the word that it had    *)
(* seen: the first one succeeds.                                           *)
LEMMA UnlockCasStep ==
  ASSUME IInv, NEW t \in Threads, UnlockCas(t)
  PROVE  IInv'
<1>1. pc[t] = "unlock_cas" /\ word = seen[t]
  BY DEF IInv, LockIsExclusive, UnlockCas
<1> QED BY <1>1, AfterUnlockStep DEF UnlockCas

LEMMA CompareStep ==
  ASSUME IInv, NEW t \in Threads, Compare(t)
  PROVE  IInv'
<1>1. /\ op[t] = "cas" /\ pc[t] = "held" /\ UNCHANGED <<word, ptr, use, alive, arg, exp, snk, seen, stale, cur, op>>
      /\ \/ Matches(t, exp[t]) /\ pc' = [pc EXCEPT ![t] = "set_ptr"]
         \/ ~Matches(t, exp[t]) /\ pc' = [pc EXCEPT ![t] = "take_current"]
  BY DEF Compare, shared, objects, values, sleep, control, Goto, At
<1>2. OthersStay(t)
  BY <1>1 DEF IInv, TypeOK, OthersStay
<1>3. TypeOK'
  BY <1>1 DEF IInv, TypeOK, Pcs
<1>4. LockIsExclusive'
  BY <1>1, <1>2, LockStays DEF IInv, TypeOK, Pcs, HoldingPcs
<1>5. CountsAreHolders'
  BY <1>1, SameCounts DEF IInv, objects, values
<1>6. OpOK(t) /\ HandsOK(t) /\ (~word.locked => Whole([ptr |-> ptr, pi |-> word.pi]))
  BY DEF IInv, ControlOK, ValuesOK
<1>7. OpOK(t)' /\ HandsOK(t)'
  BY <1>1, <1>6 DEF IInv, TypeOK, OpOK, HandsOK, Whole, At, Holding, HoldingPcs, Matches, LockIsExclusive
<1> QED BY <1>1, <1>2, <1>3, <1>4, <1>5, <1>6, <1>7, StepOfOne

LEMMA CompareOldStep ==
  ASSUME IInv, NEW t \in Threads, CompareOld(t)
  PROVE  IInv'
<1>1. /\ op[t] = "wait" /\ pc[t] = "held" /\ pc' = [pc EXCEPT ![t] = "unlock"]
      /\ \/ op' = op
         \/ op' = [op EXCEPT ![t] = "woken"]
      /\ UNCHANGED <<word, ptr, use, alive, arg, exp, snk, seen, stale, cur>>
  BY DEF CompareOld, shared, objects, values, sleep, control, Goto, GotoIn, At
<1>2. OthersStay(t)
  BY <1>1 DEF IInv, TypeOK, OthersStay
<1>3. TypeOK'
  BY <1>1 DEF IInv, TypeOK, Pcs
<1>4. LockIsExclusive'
  BY <1>1, <1>2, LockStays DEF IInv, TypeOK, Pcs, HoldingPcs
<1>5. CountsAreHolders'
  BY <1>1, SameCounts DEF IInv, objects, values
<1>6. OpOK(t) /\ HandsOK(t) /\ (~word.locked => Whole([ptr |-> ptr, pi |-> word.pi]))
  BY DEF IInv, ControlOK, ValuesOK
<1>7. OpOK(t)' /\ HandsOK(t)'
  BY <1>1, <1>6 DEF IInv, TypeOK, OpOK, HandsOK, Whole, At, Holding, HoldingPcs
<1> QED BY <1>1, <1>2, <1>3, <1>4, <1>5, <1>6, <1>7, StepOfOne

LEMMA RecheckStep ==
  ASSUME IInv, NEW t \in Threads, Recheck(t)
  PROVE  IInv'
<1>1. /\ op[t] = "recheck" /\ pc[t] = "held" /\ pc' = [pc EXCEPT ![t] = "unlock"]
      /\ op' = [op EXCEPT ![t] = "same"] \/ op' = [op EXCEPT ![t] = "woken"]
      /\ UNCHANGED <<word, ptr, use, alive, arg, exp, snk, seen, stale, cur>>
  BY DEF Recheck, shared, objects, values, sleep, control, GotoIn, At
<1>2. OthersStay(t)
  BY <1>1 DEF IInv, TypeOK, OthersStay
<1>3. TypeOK'
  BY <1>1 DEF IInv, TypeOK, Pcs
<1>4. LockIsExclusive'
  BY <1>1, <1>2, LockStays DEF IInv, TypeOK, Pcs, HoldingPcs
<1>5. CountsAreHolders'
  BY <1>1, SameCounts DEF IInv, objects, values
<1>6. OpOK(t) /\ HandsOK(t) /\ (~word.locked => Whole([ptr |-> ptr, pi |-> word.pi]))
  BY DEF IInv, ControlOK, ValuesOK
<1>7. OpOK(t)' /\ HandsOK(t)'
  BY <1>1, <1>6 DEF IInv, TypeOK, OpOK, HandsOK, Whole, At, Holding, HoldingPcs
<1> QED BY <1>1, <1>2, <1>3, <1>4, <1>5, <1>6, <1>7, StepOfOne

LEMMA WaitReadStep ==
  ASSUME IInv, NEW t \in Threads, WaitRead(t)
  PROVE  IInv'
<1>1. /\ pc[t] = "wait_read" /\ seen' = [seen EXCEPT ![t] = word] /\ stale' = stale \ {t}
      /\ \/ op' = [op EXCEPT ![t] = "woken"] /\ pc' = [pc EXCEPT ![t] = "drop_arg"]
         \/ op' = op /\ pc' = [pc EXCEPT ![t] = "sleep"]
         \/ op' = [op EXCEPT ![t] = "recheck"] /\ pc' = [pc EXCEPT ![t] = "lock"]
      /\ UNCHANGED <<word, ptr, use, alive, arg, exp, snk, cur>>
  BY DEF WaitRead, shared, objects, values, sleep, control, Goto, GotoIn
<1>2. OthersStay(t)
  BY <1>1 DEF IInv, TypeOK, OthersStay
<1>3. TypeOK'
  BY <1>1 DEF IInv, TypeOK, Pcs
<1>4. LockIsExclusive'
  BY <1>1, <1>2, LockStays DEF IInv, TypeOK, Pcs, HoldingPcs
<1>5. CountsAreHolders'
  BY <1>1, SameCounts DEF IInv, objects, values
<1>6. OpOK(t) /\ HandsOK(t) /\ (~word.locked => Whole([ptr |-> ptr, pi |-> word.pi]))
  BY DEF IInv, ControlOK, ValuesOK
<1>7. OpOK(t)' /\ HandsOK(t)'
  BY <1>1, <1>6 DEF IInv, TypeOK, OpOK, HandsOK, Whole, At, Holding, HoldingPcs
<1> QED BY <1>1, <1>2, <1>3, <1>4, <1>5, <1>6, <1>7, StepOfOne

LEMMA SleepStep ==
  ASSUME IInv, NEW t \in Threads, Sleep(t)
  PROVE  IInv'
<1>1. /\ pc[t] = "sleep" /\ UNCHANGED <<word, ptr, use, alive, arg, exp, snk, seen, stale, cur, op>>
      /\ pc' = [pc EXCEPT ![t] = "wait_read"] \/ pc' = [pc EXCEPT ![t] = "asleep"]
  BY DEF Sleep, shared, objects, values, sleep, control, Goto
<1>2. OthersStay(t)
  BY <1>1 DEF IInv, TypeOK, OthersStay
<1>3. TypeOK'
  BY <1>1 DEF IInv, TypeOK, Pcs
<1>4. LockIsExclusive'
  BY <1>1, <1>2, LockStays DEF IInv, TypeOK, Pcs, HoldingPcs
<1>5. CountsAreHolders'
  BY <1>1, SameCounts DEF IInv, objects, values
<1>6. OpOK(t) /\ HandsOK(t) /\ (~word.locked => Whole([ptr |-> ptr, pi |-> word.pi]))
  BY DEF IInv, ControlOK, ValuesOK
<1>7. OpOK(t)' /\ HandsOK(t)'
  BY <1>1, <1>6 DEF IInv, TypeOK, OpOK, HandsOK, Whole, At, Holding, HoldingPcs
<1> QED BY <1>1, <1>2, <1>3, <1>4, <1>5, <1>6, <1>7, StepOfOne

(* A notification moves its thread, and threads that are asleep.           *)
LEMMA WakeStep ==
  ASSUME IInv, NEW t \in Threads, pc[t] \in {"idle", "notify"}, NEW W \in SUBSET Asleep, Wake(t, W)
  PROVE  IInv'
<1>1. /\ UNCHANGED <<word, ptr, use, alive, arg, exp, snk, seen, cur, op>>
      /\ pc' = [u \in Threads |->
                  IF u \in W THEN "wait_read" ELSE IF u = t THEN "idle" ELSE pc[u]]
      /\ stale' \subseteq Threads
  BY DEF Wake, Waiters, IInv, TypeOK, shared, objects, values
<1>2. \A u \in Threads :
        /\ pc'[u] = pc[u] \/ (pc[u] = "asleep" /\ pc'[u] = "wait_read")
                         \/ (pc[u] \in {"idle", "notify"} /\ pc'[u] = "idle")
        /\ Holding(u)' <=> Holding(u)
        /\ pc'[u] = "unlock_cas" <=> pc[u] = "unlock_cas"
  BY <1>1 DEF Asleep, Holding, HoldingPcs
<1>3. TypeOK'
  <2>1. pc' \in [Threads -> Pcs]
    BY <1>1 DEF IInv, TypeOK, Pcs
  <2> QED BY <1>1, <2>1 DEF IInv, TypeOK
<1>4. LockIsExclusive'
  BY <1>1, <1>2 DEF IInv, LockIsExclusive
<1>5. ControlOK'
  <2> SUFFICES ASSUME NEW u \in Threads PROVE OpOK(u)'
    BY DEF ControlOK
  <2> QED BY <1>1, <1>2 DEF IInv, ControlOK, OpOK
<1>6. ValuesOK'
  <2>1. SUFFICES ASSUME NEW u \in Threads PROVE HandsOK(u)'
    BY <1>1 DEF IInv, ValuesOK, Whole
  <2>2. HandsOK(u) /\ OpOK(u)
    BY DEF IInv, ValuesOK, ControlOK
  <2> QED BY <1>1, <1>2, <2>2 DEF HandsOK, OpOK, Whole, At
<1>7. CountsAreHolders'
  BY <1>1, SameCounts DEF IInv, objects, values
<1> QED BY <1>3, <1>4, <1>5, <1>6, <1>7 DEF IInv

LEMMA NotifyStep ==
  ASSUME IInv, NEW t \in Threads, NotifyAll(t) \/ NotifyOne(t)
  PROVE  IInv'
<1>1. pc[t] \in {"idle", "notify"} /\ \E W \in SUBSET Asleep : Wake(t, W)
  BY DEF NotifyAll, NotifyOne, Idle
<1> QED BY <1>1, WakeStep

-----------------------------------------------------------------------------
(* Steps that count, move or drop values.                                  *)

LEMMA ValueType ==
  ASSUME NEW p \in Ptrs, NEW b \in BlocksOrNo
  PROVE  [ptr |-> p, pi |-> b] \in Values
BY DEF Values

LEMMA PartWrite ==
  ASSUME NEW v \in Values
  PROVE  /\ v = [ptr |-> v.ptr, pi |-> v.pi] /\ v.ptr \in Ptrs /\ v.pi \in BlocksOrNo
         /\ \A p \in Ptrs : [v EXCEPT !.ptr = p] = [ptr |-> p, pi |-> v.pi]
         /\ \A b \in BlocksOrNo : [v EXCEPT !.pi = b] = [ptr |-> v.ptr, pi |-> b]
<1>1. v = [ptr |-> v.ptr, pi |-> v.pi] /\ v.ptr \in Ptrs /\ v.pi \in BlocksOrNo
  BY DEF Values
<1> QED BY <1>1

LEMMA NoValueType ==
  /\ NoValue \in Values /\ NoValue.pi = NoBlock /\ NoValue.ptr = NoPtr /\ Whole(NoValue)
  /\ \A b \in Blocks : Is(NoBlock, b) = 0
BY AtomicAssumption DEF NoValue, Values, Ptrs, BlocksOrNo, Whole, Is

LEMMA AddRefCounts ==
  ASSUME IInv, NEW b \in BlocksOrNo, b # NoBlock => b \in alive, AddRef(b)
  PROVE  /\ use' \in [Blocks -> Int] /\ \A c \in Blocks : use'[c] = use[c] + Is(b, c)
         /\ alive' \subseteq Blocks
         /\ \A c \in Blocks : c \in alive' <=> use'[c] > 0
<1>1. use \in [Blocks -> Nat] /\ alive \subseteq Blocks /\ alive' = alive /\ NoBlock \notin Blocks
      /\ \A c \in Blocks : c \in alive <=> use[c] > 0
  BY AtomicAssumption DEF IInv, TypeOK, CountsAreHolders, AddRef
<1>2. use' \in [Blocks -> Int] /\ \A c \in Blocks : use'[c] = use[c] + Is(b, c)
  BY <1>1 DEF AddRef, Is, BlocksOrNo
<1>3. \A c \in Blocks : use'[c] > 0 <=> use[c] > 0
  BY <1>1, <1>2 DEF Is, BlocksOrNo
<1> QED BY <1>1, <1>2, <1>3

LEMMA UnrefCounts ==
  ASSUME IInv, NEW b \in BlocksOrNo, b # NoBlock => use[b] > 0, Unref(b)
  PROVE  /\ use' \in [Blocks -> Int] /\ \A c \in Blocks : use'[c] = use[c] - Is(b, c)
         /\ alive' \subseteq Blocks
         /\ \A c \in Blocks : c \in alive' <=> use'[c] > 0
<1>1. use \in [Blocks -> Nat] /\ alive \subseteq Blocks /\ NoBlock \notin Blocks
      /\ \A c \in Blocks : c \in alive <=> use[c] > 0
  BY AtomicAssumption DEF IInv, TypeOK, CountsAreHolders
<1>2. use' \in [Blocks -> Int] /\ \A c \in Blocks : use'[c] = use[c] - Is(b, c)
  BY <1>1 DEF Unref, Is, BlocksOrNo
<1>3. \A c \in Blocks : c \in alive' <=> use'[c] > 0
  BY <1>1, <1>2 DEF Unref, Is, BlocksOrNo
<1> QED BY <1>1, <1>2, <1>3 DEF Unref

LEMMA SameUse ==
  ASSUME IInv, UNCHANGED objects
  PROVE  /\ use' \in [Blocks -> Int] /\ (\A c \in Blocks : use'[c] = use[c])
         /\ alive' \subseteq Blocks
         /\ \A c \in Blocks : c \in alive' <=> use'[c] > 0
BY DEF IInv, TypeOK, CountsAreHolders, objects

LEMMA ReadPtrStep ==
  ASSUME IInv, NEW t \in Threads, ReadPtr(t)
  PROVE  IInv'
<1> DEFINE a == [ptr |-> ptr, pi |-> arg[t].pi]
           e == exp[t]
           s == snk[t]
<1>1. /\ op[t] = "load" /\ pc[t] = "held" /\ pc' = [pc EXCEPT ![t] = "add_ref"]
      /\ arg' = [arg EXCEPT ![t].ptr = ptr]
      /\ UNCHANGED <<word, ptr, use, alive, exp, snk, cur, seen, stale, op>>
  BY DEF ReadPtr, At, Goto, GotoIn, Return, Idle, Unlocked, shared, objects, values, sleep, control
<1>2. /\ arg[t] \in Values /\ exp[t] \in Values /\ snk[t] \in Values /\ cur[t] \in BlocksOrNo
      /\ word.pi \in BlocksOrNo /\ ptr \in Ptrs /\ word \in Words
      /\ OpOK(t) /\ HandsOK(t) /\ (~word.locked => Whole([ptr |-> ptr, pi |-> word.pi]))
      /\ Holding(t) => cur[t] = word.pi /\ word.locked
  BY DEF IInv, TypeOK, Words, ControlOK, ValuesOK, LockIsExclusive
<1>0. arg[t].pi = NoBlock
  BY <1>1, <1>2, NoValueType DEF HandsOK, At, Holding, HoldingPcs, Whole, NoValue
<1>3. /\ a \in Values /\ e \in Values /\ s \in Values
      /\ arg' = [arg EXCEPT ![t] = a] /\ exp' = [exp EXCEPT ![t] = e] /\ snk' = [snk EXCEPT ![t] = s]
  <2>1. arg \in [Threads -> Values] /\ exp \in [Threads -> Values] /\ snk \in [Threads -> Values]
    BY DEF IInv, TypeOK
  <2>2. a \in Values /\ e \in Values /\ s \in Values
    BY <1>2, <1>0, <2>1, NoValueType, ValueType, PartWrite
  <2>3. arg' = [arg EXCEPT ![t] = a]
    BY <1>1, <1>2, <1>0, <2>1, PartWrite
  <2>4. exp' = [exp EXCEPT ![t] = e] /\ snk' = [snk EXCEPT ![t] = s]
    BY <1>1, <1>2, <1>0, <2>1, PartWrite
  <2> QED BY <2>2, <2>3, <2>4
<1>4. use' \in [Blocks -> Int] /\ (\A c \in Blocks : use'[c] = use[c]) /\ alive' \subseteq Blocks
      /\ \A c \in Blocks : c \in alive' <=> use'[c] > 0
  BY <1>1, SameUse DEF objects
<1>5. Balanced(t, a, e, s)
  <2>1. Written(arg, t, a, arg') /\ Written(exp, t, e, exp') /\ Written(snk, t, s, snk')
    BY <1>3 DEF IInv, TypeOK, Written
  <2>2. ASSUME NEW c \in Blocks
        PROVE  use'[c] = use[c] + Is(word'.pi, c) - Is(word.pi, c) + Is(a.pi, c) - Is(arg[t].pi, c)
                                + Is(e.pi, c) - Is(exp[t].pi, c) + Is(s.pi, c) - Is(snk[t].pi, c)
    <3>1. use[c] \in Nat /\ \A x : Is(x, c) \in {0, 1}
      BY DEF IInv, TypeOK, Is
    <3> QED BY <1>1, <1>2, <1>3, <1>4, <1>0, <3>1, NoValueType
  <2> QED BY <1>4, <2>1, <2>2 DEF Balanced
<1> HIDE DEF a, e, s
<1>6. OthersStay(t)
  BY <1>1, <1>3 DEF IInv, TypeOK, OthersStay
<1>7. CountsAreHolders' /\ use' \in [Blocks -> Nat]
  BY <1>3, <1>5, Ledger DEF IInv
<1>8. TypeOK'
  BY <1>1, <1>2, <1>3, <1>4, <1>7, <1>0 DEF IInv, TypeOK, Pcs
<1>9. LockIsExclusive'
  BY <1>1, <1>6, LockStays DEF IInv, TypeOK, HoldingPcs
<1>10. OpOK(t)' /\ HandsOK(t)'
  BY <1>1, <1>2, <1>3, <1>0, NoValueType DEF a, e, s, IInv, TypeOK, OpOK, HandsOK, Whole, At, Holding, HoldingPcs
<1>11. ~word'.locked => Whole([ptr |-> ptr', pi |-> word'.pi])
  BY <1>1, <1>2 DEF HandsOK, Whole, At, Holding, HoldingPcs
<1> QED BY <1>1, <1>2, <1>6, <1>7, <1>8, <1>9, <1>10, <1>11, StepOfOne DEF Holding, HoldingPcs

LEMMA LoadAddRefStep ==
  ASSUME IInv, NEW t \in Threads, LoadAddRef(t)
  PROVE  IInv'
<1> DEFINE a == [ptr |-> arg[t].ptr, pi |-> cur[t]]
           e == exp[t]
           s == snk[t]
<1>1. /\ op[t] = "load" /\ pc[t] = "add_ref" /\ pc' = [pc EXCEPT ![t] = "unlock"]
      /\ arg' = [arg EXCEPT ![t].pi = cur[t]] /\ AddRef(cur[t]) /\ alive' = alive
      /\ UNCHANGED <<word, ptr, exp, snk, cur, seen, stale, op>>
  BY DEF LoadAddRef, AddRef, At, Goto, GotoIn, Return, Idle, Unlocked, shared, objects, values, sleep, control
<1>2. /\ arg[t] \in Values /\ exp[t] \in Values /\ snk[t] \in Values /\ cur[t] \in BlocksOrNo
      /\ word.pi \in BlocksOrNo /\ ptr \in Ptrs /\ word \in Words
      /\ OpOK(t) /\ HandsOK(t) /\ (~word.locked => Whole([ptr |-> ptr, pi |-> word.pi]))
      /\ Holding(t) => cur[t] = word.pi /\ word.locked
  BY DEF IInv, TypeOK, Words, ControlOK, ValuesOK, LockIsExclusive
<1>0. arg[t].pi = NoBlock /\ arg[t].ptr = ptr /\ cur[t] = word.pi
  BY <1>1, <1>2, NoValueType DEF HandsOK, At, Holding, HoldingPcs, Whole, NoValue
<1>3. /\ a \in Values /\ e \in Values /\ s \in Values
      /\ arg' = [arg EXCEPT ![t] = a] /\ exp' = [exp EXCEPT ![t] = e] /\ snk' = [snk EXCEPT ![t] = s]
  <2>1. arg \in [Threads -> Values] /\ exp \in [Threads -> Values] /\ snk \in [Threads -> Values]
    BY DEF IInv, TypeOK
  <2>2. a \in Values /\ e \in Values /\ s \in Values
    BY <1>2, <1>0, <2>1, NoValueType, ValueType, PartWrite
  <2>3. arg' = [arg EXCEPT ![t] = a]
    BY <1>1, <1>2, <1>0, <2>1, PartWrite
  <2>4. exp' = [exp EXCEPT ![t] = e] /\ snk' = [snk EXCEPT ![t] = s]
    BY <1>1, <1>2, <1>0, <2>1, PartWrite
  <2> QED BY <2>2, <2>3, <2>4
<1>4. /\ use' \in [Blocks -> Int] /\ \A c \in Blocks : use'[c] = use[c] + Is(cur[t], c)
      /\ \A c \in Blocks : c \in alive' <=> use'[c] > 0
  <2>1. cur[t] \in BlocksOrNo
    BY <1>2, PartWrite
  <2>2. cur[t] # NoBlock => cur[t] \in alive
    BY <1>1, <1>2, <2>1, HeldIsAlive DEF IInv, BlocksOrNo, Holding, HoldingPcs
  <2> QED BY <1>1, <2>1, <2>2, AddRefCounts
<1>5. Balanced(t, a, e, s)
  <2>1. Written(arg, t, a, arg') /\ Written(exp, t, e, exp') /\ Written(snk, t, s, snk')
    BY <1>3 DEF IInv, TypeOK, Written
  <2>2. ASSUME NEW c \in Blocks
        PROVE  use'[c] = use[c] + Is(word'.pi, c) - Is(word.pi, c) + Is(a.pi, c) - Is(arg[t].pi, c)
                                + Is(e.pi, c) - Is(exp[t].pi, c) + Is(s.pi, c) - Is(snk[t].pi, c)
    <3>1. use[c] \in Nat /\ \A x : Is(x, c) \in {0, 1}
      BY DEF IInv, TypeOK, Is
    <3> QED BY <1>1, <1>2, <1>3, <1>4, <1>0, <3>1, NoValueType
  <2> QED BY <1>4, <2>1, <2>2 DEF Balanced
<1> HIDE DEF a, e, s
<1>6. OthersStay(t)
  BY <1>1, <1>3 DEF IInv, TypeOK, OthersStay
<1>7. CountsAreHolders' /\ use' \in [Blocks -> Nat]
  BY <1>3, <1>5, Ledger DEF IInv
<1>8. TypeOK'
  BY <1>1, <1>2, <1>3, <1>4, <1>7, <1>0 DEF IInv, TypeOK, Pcs
<1>9. LockIsExclusive'
  BY <1>1, <1>6, LockStays DEF IInv, TypeOK, HoldingPcs
<1>10. OpOK(t)' /\ HandsOK(t)'
  BY <1>1, <1>2, <1>3, <1>0, NoValueType DEF a, e, s, IInv, TypeOK, OpOK, HandsOK, Whole, At, Holding, HoldingPcs
<1>11. ~word'.locked => Whole([ptr |-> ptr', pi |-> word'.pi])
  BY <1>1, <1>2 DEF HandsOK, Whole, At, Holding, HoldingPcs
<1> QED BY <1>1, <1>2, <1>6, <1>7, <1>8, <1>9, <1>10, <1>11, StepOfOne DEF Holding, HoldingPcs

LEMMA SwapPtrStep ==
  ASSUME IInv, NEW t \in Threads, SwapPtr(t)
  PROVE  IInv'
<1> DEFINE a == [ptr |-> ptr, pi |-> arg[t].pi]
           e == exp[t]
           s == snk[t]
<1>1. /\ op[t] = "swap" /\ pc[t] = "held" /\ pc' = [pc EXCEPT ![t] = "swap_unlock"]
      /\ ptr' = arg[t].ptr /\ arg' = [arg EXCEPT ![t].ptr = ptr]
      /\ UNCHANGED <<word, use, alive, exp, snk, cur, seen, stale, op>>
  BY DEF SwapPtr, At, Goto, GotoIn, Return, Idle, Unlocked, shared, objects, values, sleep, control
<1>2. /\ arg[t] \in Values /\ exp[t] \in Values /\ snk[t] \in Values /\ cur[t] \in BlocksOrNo
      /\ word.pi \in BlocksOrNo /\ ptr \in Ptrs /\ word \in Words
      /\ OpOK(t) /\ HandsOK(t) /\ (~word.locked => Whole([ptr |-> ptr, pi |-> word.pi]))
      /\ Holding(t) => cur[t] = word.pi /\ word.locked
  BY DEF IInv, TypeOK, Words, ControlOK, ValuesOK, LockIsExclusive
<1>3. /\ a \in Values /\ e \in Values /\ s \in Values
      /\ arg' = [arg EXCEPT ![t] = a] /\ exp' = [exp EXCEPT ![t] = e] /\ snk' = [snk EXCEPT ![t] = s]
  <2>1. arg \in [Threads -> Values] /\ exp \in [Threads -> Values] /\ snk \in [Threads -> Values]
    BY DEF IInv, TypeOK
  <2>2. a \in Values /\ e \in Values /\ s \in Values
    BY <1>2, <2>1, NoValueType, ValueType, PartWrite
  <2>3. arg' = [arg EXCEPT ![t] = a]
    BY <1>1, <1>2, <2>1, PartWrite
  <2>4. exp' = [exp EXCEPT ![t] = e] /\ snk' = [snk EXCEPT ![t] = s]
    BY <1>1, <1>2, <2>1, PartWrite
  <2> QED BY <2>2, <2>3, <2>4
<1>4. use' \in [Blocks -> Int] /\ (\A c \in Blocks : use'[c] = use[c]) /\ alive' \subseteq Blocks
      /\ \A c \in Blocks : c \in alive' <=> use'[c] > 0
  BY <1>1, SameUse DEF objects
<1>5. Balanced(t, a, e, s)
  <2>1. Written(arg, t, a, arg') /\ Written(exp, t, e, exp') /\ Written(snk, t, s, snk')
    BY <1>3 DEF IInv, TypeOK, Written
  <2>2. ASSUME NEW c \in Blocks
        PROVE  use'[c] = use[c] + Is(word'.pi, c) - Is(word.pi, c) + Is(a.pi, c) - Is(arg[t].pi, c)
                                + Is(e.pi, c) - Is(exp[t].pi, c) + Is(s.pi, c) - Is(snk[t].pi, c)
    <3>1. use[c] \in Nat /\ \A x : Is(x, c) \in {0, 1}
      BY DEF IInv, TypeOK, Is
    <3> QED BY <1>1, <1>2, <1>3, <1>4, <3>1, NoValueType
  <2> QED BY <1>4, <2>1, <2>2 DEF Balanced
<1> HIDE DEF a, e, s
<1>6. OthersStay(t)
  BY <1>1, <1>3 DEF IInv, TypeOK, OthersStay
<1>7. CountsAreHolders' /\ use' \in [Blocks -> Nat]
  BY <1>3, <1>5, Ledger DEF IInv
<1>8. TypeOK'
  BY <1>1, <1>2, <1>3, <1>4, <1>7, PartWrite DEF IInv, TypeOK, Pcs
<1>9. LockIsExclusive'
  BY <1>1, <1>6, LockStays DEF IInv, TypeOK, HoldingPcs
<1>10. OpOK(t)' /\ HandsOK(t)'
  BY <1>1, <1>2, <1>3, NoValueType DEF a, e, s, IInv, TypeOK, OpOK, HandsOK, Whole, At, Holding, HoldingPcs
<1>11. ~word'.locked => Whole([ptr |-> ptr', pi |-> word'.pi])
  BY <1>1, <1>2 DEF HandsOK, Whole, At, Holding, HoldingPcs
<1> QED BY <1>1, <1>2, <1>6, <1>7, <1>8, <1>9, <1>10, <1>11, StepOfOne DEF Holding, HoldingPcs

LEMMA SetPtrStep ==
  ASSUME IInv, NEW t \in Threads, SetPtr(t)
  PROVE  IInv'
<1> DEFINE a == arg[t]
           e == exp[t]
           s == snk[t]
<1>1. /\ op[t] = "cas" /\ pc[t] = "set_ptr" /\ pc' = [pc EXCEPT ![t] = "swap_unlock"]
      /\ ptr' = arg[t].ptr
      /\ UNCHANGED <<word, use, alive, arg, exp, snk, cur, seen, stale, op>>
  BY DEF SetPtr, At, Goto, GotoIn, Return, Idle, Unlocked, shared, objects, values, sleep, control
<1>2. /\ arg[t] \in Values /\ exp[t] \in Values /\ snk[t] \in Values /\ cur[t] \in BlocksOrNo
      /\ word.pi \in BlocksOrNo /\ ptr \in Ptrs /\ word \in Words
      /\ OpOK(t) /\ HandsOK(t) /\ (~word.locked => Whole([ptr |-> ptr, pi |-> word.pi]))
      /\ Holding(t) => cur[t] = word.pi /\ word.locked
  BY DEF IInv, TypeOK, Words, ControlOK, ValuesOK, LockIsExclusive
<1>3. /\ a \in Values /\ e \in Values /\ s \in Values
      /\ arg' = [arg EXCEPT ![t] = a] /\ exp' = [exp EXCEPT ![t] = e] /\ snk' = [snk EXCEPT ![t] = s]
  <2>1. arg \in [Threads -> Values] /\ exp \in [Threads -> Values] /\ snk \in [Threads -> Values]
    BY DEF IInv, TypeOK
  <2>2. a \in Values /\ e \in Values /\ s \in Values
    BY <1>2, <2>1, NoValueType, ValueType, PartWrite
  <2>3. arg' = [arg EXCEPT ![t] = a]
    BY <1>1, <1>2, <2>1, PartWrite
  <2>4. exp' = [exp EXCEPT ![t] = e] /\ snk' = [snk EXCEPT ![t] = s]
    BY <1>1, <1>2, <2>1, PartWrite
  <2> QED BY <2>2, <2>3, <2>4
<1>4. use' \in [Blocks -> Int] /\ (\A c \in Blocks : use'[c] = use[c]) /\ alive' \subseteq Blocks
      /\ \A c \in Blocks : c \in alive' <=> use'[c] > 0
  BY <1>1, SameUse DEF objects
<1>5. Balanced(t, a, e, s)
  <2>1. Written(arg, t, a, arg') /\ Written(exp, t, e, exp') /\ Written(snk, t, s, snk')
    BY <1>3 DEF IInv, TypeOK, Written
  <2>2. ASSUME NEW c \in Blocks
        PROVE  use'[c] = use[c] + Is(word'.pi, c) - Is(word.pi, c) + Is(a.pi, c) - Is(arg[t].pi, c)
                                + Is(e.pi, c) - Is(exp[t].pi, c) + Is(s.pi, c) - Is(snk[t].pi, c)
    <3>1. use[c] \in Nat /\ \A x : Is(x, c) \in {0, 1}
      BY DEF IInv, TypeOK, Is
    <3> QED BY <1>1, <1>2, <1>3, <1>4, <3>1, NoValueType
  <2> QED BY <1>4, <2>1, <2>2 DEF Balanced
<1> HIDE DEF a, e, s
<1>6. OthersStay(t)
  BY <1>1, <1>3 DEF IInv, TypeOK, OthersStay
<1>7. CountsAreHolders' /\ use' \in [Blocks -> Nat]
  BY <1>3, <1>5, Ledger DEF IInv
<1>8. TypeOK'
  BY <1>1, <1>2, <1>3, <1>4, <1>7, PartWrite DEF IInv, TypeOK, Pcs
<1>9. LockIsExclusive'
  BY <1>1, <1>6, LockStays DEF IInv, TypeOK, HoldingPcs
<1>10. OpOK(t)' /\ HandsOK(t)'
  BY <1>1, <1>2, <1>3, NoValueType DEF a, e, s, IInv, TypeOK, OpOK, HandsOK, Whole, At, Holding, HoldingPcs
<1>11. ~word'.locked => Whole([ptr |-> ptr', pi |-> word'.pi])
  BY <1>1, <1>2 DEF HandsOK, Whole, At, Holding, HoldingPcs
<1> QED BY <1>1, <1>2, <1>6, <1>7, <1>8, <1>9, <1>10, <1>11, StepOfOne DEF Holding, HoldingPcs

LEMMA SwapUnlockStep ==
  ASSUME IInv, NEW t \in Threads, SwapUnlock(t)
  PROVE  IInv'
<1> DEFINE a == [ptr |-> arg[t].ptr, pi |-> word.pi]
           e == exp[t]
           s == snk[t]
<1>1. /\ pc[t] = "swap_unlock"
      /\ word'.pi = arg[t].pi /\ word'.locked = FALSE /\ word' = [pi |-> arg[t].pi, locked |-> FALSE]
      /\ arg' = [arg EXCEPT ![t].pi = word.pi]
      /\ \/ /\ op[t] = "swap" /\ pc' = [pc EXCEPT ![t] = "notify"] /\ op' = [op EXCEPT ![t] = "none"]
            /\ cur' = [cur EXCEPT ![t] = NoBlock] /\ seen' = [seen EXCEPT ![t] = Unlocked(NoBlock)]
            /\ stale' = stale \ {t}
         \/ /\ op[t] = "cas" /\ pc' = [pc EXCEPT ![t] = "drop_arg"]
            /\ op' = [op EXCEPT ![t] = "exchanged"] /\ UNCHANGED <<cur, seen, stale>>
      /\ UNCHANGED <<ptr, use, alive, exp, snk>>
  BY DEF SwapUnlock, At, Goto, GotoIn, Return, Idle, Unlocked, shared, objects, values, sleep, control
<1>2. /\ arg[t] \in Values /\ exp[t] \in Values /\ snk[t] \in Values /\ cur[t] \in BlocksOrNo
      /\ word.pi \in BlocksOrNo /\ ptr \in Ptrs /\ word \in Words
      /\ OpOK(t) /\ HandsOK(t) /\ (~word.locked => Whole([ptr |-> ptr, pi |-> word.pi]))
      /\ Holding(t) => cur[t] = word.pi /\ word.locked
  BY DEF IInv, TypeOK, Words, ControlOK, ValuesOK, LockIsExclusive
<1>3. /\ a \in Values /\ e \in Values /\ s \in Values
      /\ arg' = [arg EXCEPT ![t] = a] /\ exp' = [exp EXCEPT ![t] = e] /\ snk' = [snk EXCEPT ![t] = s]
  <2>1. arg \in [Threads -> Values] /\ exp \in [Threads -> Values] /\ snk \in [Threads -> Values]
    BY DEF IInv, TypeOK
  <2>2. a \in Values /\ e \in Values /\ s \in Values
    BY <1>2, <2>1, NoValueType, ValueType, PartWrite
  <2>3. arg' = [arg EXCEPT ![t] = a]
    BY <1>1, <1>2, <2>1, PartWrite
  <2>4. exp' = [exp EXCEPT ![t] = e] /\ snk' = [snk EXCEPT ![t] = s]
    BY <1>1, <1>2, <2>1, PartWrite
  <2> QED BY <2>2, <2>3, <2>4
<1>4. use' \in [Blocks -> Int] /\ (\A c \in Blocks : use'[c] = use[c]) /\ alive' \subseteq Blocks
      /\ \A c \in Blocks : c \in alive' <=> use'[c] > 0
  BY <1>1, SameUse DEF objects
<1>5. Balanced(t, a, e, s)
  <2>1. Written(arg, t, a, arg') /\ Written(exp, t, e, exp') /\ Written(snk, t, s, snk')
    BY <1>3 DEF IInv, TypeOK, Written
  <2>2. ASSUME NEW c \in Blocks
        PROVE  use'[c] = use[c] + Is(word'.pi, c) - Is(word.pi, c) + Is(a.pi, c) - Is(arg[t].pi, c)
                                + Is(e.pi, c) - Is(exp[t].pi, c) + Is(s.pi, c) - Is(snk[t].pi, c)
    <3>1. use[c] \in Nat /\ \A x : Is(x, c) \in {0, 1}
      BY DEF IInv, TypeOK, Is
    <3> QED BY <1>1, <1>2, <1>3, <1>4, <3>1, NoValueType
  <2> QED BY <1>4, <2>1, <2>2 DEF Balanced
<1> HIDE DEF a, e, s
<1>6. OthersStay(t)
  BY <1>1, <1>3 DEF IInv, TypeOK, OthersStay
<1>7. CountsAreHolders' /\ use' \in [Blocks -> Nat]
  BY <1>3, <1>5, Ledger DEF IInv
<1>8. TypeOK'
  <2>1. Unlocked(NoBlock) \in Words /\ NoBlock \in BlocksOrNo
    BY DEF Unlocked, Words, BlocksOrNo
  <2>2. word' \in Words
    BY <1>1, <1>2, <2>1, PartWrite DEF Words
  <2>3. cur' \in [Threads -> BlocksOrNo] /\ seen' \in [Threads -> Words] /\ stale' \subseteq Threads
    BY <1>1, <2>1 DEF IInv, TypeOK
  <2>4. pc' \in [Threads -> Pcs]
    BY <1>1 DEF IInv, TypeOK, Pcs
  <2> QED BY <1>1, <1>3, <1>4, <1>7, <2>2, <2>3, <2>4 DEF IInv, TypeOK
<1>9. LockIsExclusive'
  BY <1>1, <1>6, LockReleased DEF IInv, TypeOK, HoldingPcs, Holding
<1>10. OpOK(t)' /\ HandsOK(t)'
  BY <1>1, <1>2, <1>3, NoValueType DEF a, e, s, IInv, TypeOK, OpOK, HandsOK, Whole, At, Holding, HoldingPcs
<1>11. ~word'.locked => Whole([ptr |-> ptr', pi |-> word'.pi])
  BY <1>1, <1>2 DEF HandsOK, Whole, At, Holding, HoldingPcs
<1> QED BY <1>1, <1>2, <1>6, <1>7, <1>8, <1>9, <1>10, <1>11, StepOfOne DEF Holding, HoldingPcs

LEMMA TakeCurrentStep ==
  ASSUME IInv, NEW t \in Threads, TakeCurrent(t)
  PROVE  IInv'
<1> DEFINE a == arg[t]
           e == [ptr |-> ptr, pi |-> NoBlock]
           s == exp[t]
<1>1. /\ op[t] = "cas" /\ pc[t] = "take_current" /\ pc' = [pc EXCEPT ![t] = "add_ref"]
      /\ snk' = [snk EXCEPT ![t] = exp[t]] /\ exp' = [exp EXCEPT ![t] = [ptr |-> ptr, pi |-> NoBlock]]
      /\ UNCHANGED <<word, ptr, use, alive, arg, cur, seen, stale, op>>
  BY DEF TakeCurrent, At, Goto, GotoIn, Return, Idle, Unlocked, shared, objects, values, sleep, control
<1>2. /\ arg[t] \in Values /\ exp[t] \in Values /\ snk[t] \in Values /\ cur[t] \in BlocksOrNo
      /\ word.pi \in BlocksOrNo /\ ptr \in Ptrs /\ word \in Words
      /\ OpOK(t) /\ HandsOK(t) /\ (~word.locked => Whole([ptr |-> ptr, pi |-> word.pi]))
      /\ Holding(t) => cur[t] = word.pi /\ word.locked
  BY DEF IInv, TypeOK, Words, ControlOK, ValuesOK, LockIsExclusive
<1>0. snk[t] = NoValue /\ NoBlock \in BlocksOrNo
  BY <1>1, <1>2, NoValueType DEF HandsOK, At, Holding, HoldingPcs, Whole, NoValue, BlocksOrNo
<1>3. /\ a \in Values /\ e \in Values /\ s \in Values
      /\ arg' = [arg EXCEPT ![t] = a] /\ exp' = [exp EXCEPT ![t] = e] /\ snk' = [snk EXCEPT ![t] = s]
  <2>1. arg \in [Threads -> Values] /\ exp \in [Threads -> Values] /\ snk \in [Threads -> Values]
    BY DEF IInv, TypeOK
  <2>2. a \in Values /\ e \in Values /\ s \in Values
    BY <1>2, <1>0, <2>1, NoValueType, ValueType, PartWrite
  <2>3. arg' = [arg EXCEPT ![t] = a]
    BY <1>1, <1>2, <1>0, <2>1, PartWrite
  <2>4. exp' = [exp EXCEPT ![t] = e] /\ snk' = [snk EXCEPT ![t] = s]
    BY <1>1, <1>2, <1>0, <2>1, PartWrite
  <2> QED BY <2>2, <2>3, <2>4
<1>4. use' \in [Blocks -> Int] /\ (\A c \in Blocks : use'[c] = use[c]) /\ alive' \subseteq Blocks
      /\ \A c \in Blocks : c \in alive' <=> use'[c] > 0
  BY <1>1, SameUse DEF objects
<1>5. Balanced(t, a, e, s)
  <2>1. Written(arg, t, a, arg') /\ Written(exp, t, e, exp') /\ Written(snk, t, s, snk')
    BY <1>3 DEF IInv, TypeOK, Written
  <2>2. ASSUME NEW c \in Blocks
        PROVE  use'[c] = use[c] + Is(word'.pi, c) - Is(word.pi, c) + Is(a.pi, c) - Is(arg[t].pi, c)
                                + Is(e.pi, c) - Is(exp[t].pi, c) + Is(s.pi, c) - Is(snk[t].pi, c)
    <3>1. use[c] \in Nat /\ \A x : Is(x, c) \in {0, 1}
      BY DEF IInv, TypeOK, Is
    <3> QED BY <1>1, <1>2, <1>3, <1>4, <1>0, <3>1, NoValueType
  <2> QED BY <1>4, <2>1, <2>2 DEF Balanced
<1> HIDE DEF a, e, s
<1>6. OthersStay(t)
  BY <1>1, <1>3 DEF IInv, TypeOK, OthersStay
<1>7. CountsAreHolders' /\ use' \in [Blocks -> Nat]
  BY <1>3, <1>5, Ledger DEF IInv
<1>8. TypeOK'
  BY <1>1, <1>2, <1>3, <1>4, <1>7, <1>0 DEF IInv, TypeOK, Pcs
<1>9. LockIsExclusive'
  BY <1>1, <1>6, LockStays DEF IInv, TypeOK, HoldingPcs
<1>10. OpOK(t)' /\ HandsOK(t)'
  BY <1>1, <1>2, <1>3, <1>0, NoValueType DEF a, e, s, IInv, TypeOK, OpOK, HandsOK, Whole, At, Holding, HoldingPcs
<1>11. ~word'.locked => Whole([ptr |-> ptr', pi |-> word'.pi])
  BY <1>1, <1>2 DEF HandsOK, Whole, At, Holding, HoldingPcs
<1> QED BY <1>1, <1>2, <1>6, <1>7, <1>8, <1>9, <1>10, <1>11, StepOfOne DEF Holding, HoldingPcs

LEMMA ExpectedAddRefStep ==
  ASSUME IInv, NEW t \in Threads, ExpectedAddRef(t)
  PROVE  IInv'
<1> DEFINE a == arg[t]
           e == [ptr |-> exp[t].ptr, pi |-> cur[t]]
           s == snk[t]
<1>1. /\ op[t] = "cas" /\ pc[t] = "add_ref" /\ pc' = [pc EXCEPT ![t] = "unlock"]
      /\ exp' = [exp EXCEPT ![t].pi = cur[t]] /\ AddRef(cur[t]) /\ alive' = alive
      /\ UNCHANGED <<word, ptr, arg, snk, cur, seen, stale, op>>
  BY DEF ExpectedAddRef, AddRef, At, Goto, GotoIn, Return, Idle, Unlocked, shared, objects, values, sleep, control
<1>2. /\ arg[t] \in Values /\ exp[t] \in Values /\ snk[t] \in Values /\ cur[t] \in BlocksOrNo
      /\ word.pi \in BlocksOrNo /\ ptr \in Ptrs /\ word \in Words
      /\ OpOK(t) /\ HandsOK(t) /\ (~word.locked => Whole([ptr |-> ptr, pi |-> word.pi]))
      /\ Holding(t) => cur[t] = word.pi /\ word.locked
  BY DEF IInv, TypeOK, Words, ControlOK, ValuesOK, LockIsExclusive
<1>0. exp[t].pi = NoBlock /\ exp[t].ptr = ptr /\ cur[t] = word.pi
  BY <1>1, <1>2, NoValueType DEF HandsOK, At, Holding, HoldingPcs, Whole, NoValue
<1>3. /\ a \in Values /\ e \in Values /\ s \in Values
      /\ arg' = [arg EXCEPT ![t] = a] /\ exp' = [exp EXCEPT ![t] = e] /\ snk' = [snk EXCEPT ![t] = s]
  <2>1. arg \in [Threads -> Values] /\ exp \in [Threads -> Values] /\ snk \in [Threads -> Values]
    BY DEF IInv, TypeOK
  <2>2. a \in Values /\ e \in Values /\ s \in Values
    BY <1>2, <1>0, <2>1, NoValueType, ValueType, PartWrite
  <2>3. arg' = [arg EXCEPT ![t] = a]
    BY <1>1, <1>2, <1>0, <2>1, PartWrite
  <2>4. exp' = [exp EXCEPT ![t] = e] /\ snk' = [snk EXCEPT ![t] = s]
    BY <1>1, <1>2, <1>0, <2>1, PartWrite
  <2> QED BY <2>2, <2>3, <2>4
<1>4. /\ use' \in [Blocks -> Int] /\ \A c \in Blocks : use'[c] = use[c] + Is(cur[t], c)
      /\ \A c \in Blocks : c \in alive' <=> use'[c] > 0
  <2>1. cur[t] \in BlocksOrNo
    BY <1>2, PartWrite
  <2>2. cur[t] # NoBlock => cur[t] \in alive
    BY <1>1, <1>2, <2>1, HeldIsAlive DEF IInv, BlocksOrNo, Holding, HoldingPcs
  <2> QED BY <1>1, <2>1, <2>2, AddRefCounts
<1>5. Balanced(t, a, e, s)
  <2>1. Written(arg, t, a, arg') /\ Written(exp, t, e, exp') /\ Written(snk, t, s, snk')
    BY <1>3 DEF IInv, TypeOK, Written
  <2>2. ASSUME NEW c \in Blocks
        PROVE  use'[c] = use[c] + Is(word'.pi, c) - Is(word.pi, c) + Is(a.pi, c) - Is(arg[t].pi, c)
                                + Is(e.pi, c) - Is(exp[t].pi, c) + Is(s.pi, c) - Is(snk[t].pi, c)
    <3>1. use[c] \in Nat /\ \A x : Is(x, c) \in {0, 1}
      BY DEF IInv, TypeOK, Is
    <3> QED BY <1>1, <1>2, <1>3, <1>4, <1>0, <3>1, NoValueType
  <2> QED BY <1>4, <2>1, <2>2 DEF Balanced
<1> HIDE DEF a, e, s
<1>6. OthersStay(t)
  BY <1>1, <1>3 DEF IInv, TypeOK, OthersStay
<1>7. CountsAreHolders' /\ use' \in [Blocks -> Nat]
  BY <1>3, <1>5, Ledger DEF IInv
<1>8. TypeOK'
  BY <1>1, <1>2, <1>3, <1>4, <1>7, <1>0 DEF IInv, TypeOK, Pcs
<1>9. LockIsExclusive'
  BY <1>1, <1>6, LockStays DEF IInv, TypeOK, HoldingPcs
<1>10. OpOK(t)' /\ HandsOK(t)'
  BY <1>1, <1>2, <1>3, <1>0, NoValueType DEF a, e, s, IInv, TypeOK, OpOK, HandsOK, Whole, At, Holding, HoldingPcs
<1>11. ~word'.locked => Whole([ptr |-> ptr', pi |-> word'.pi])
  BY <1>1, <1>2 DEF HandsOK, Whole, At, Holding, HoldingPcs
<1> QED BY <1>1, <1>2, <1>6, <1>7, <1>8, <1>9, <1>10, <1>11, StepOfOne DEF Holding, HoldingPcs

LEMMA DropSinkStep ==
  ASSUME IInv, NEW t \in Threads, DropSink(t)
  PROVE  IInv'
<1> DEFINE a == arg[t]
           e == exp[t]
           s == NoValue
<1>1. /\ pc[t] = "drop_snk" /\ pc' = [pc EXCEPT ![t] = "drop_arg"]
      /\ snk' = [snk EXCEPT ![t] = NoValue] /\ Unref(snk[t].pi)
      /\ UNCHANGED <<word, ptr, arg, exp, cur, seen, stale, op>>
  BY DEF DropSink, At, Goto, GotoIn, Return, Idle, Unlocked, shared, objects, values, sleep, control
<1>2. /\ arg[t] \in Values /\ exp[t] \in Values /\ snk[t] \in Values /\ cur[t] \in BlocksOrNo
      /\ word.pi \in BlocksOrNo /\ ptr \in Ptrs /\ word \in Words
      /\ OpOK(t) /\ HandsOK(t) /\ (~word.locked => Whole([ptr |-> ptr, pi |-> word.pi]))
      /\ Holding(t) => cur[t] = word.pi /\ word.locked
  BY DEF IInv, TypeOK, Words, ControlOK, ValuesOK, LockIsExclusive
<1>3. /\ a \in Values /\ e \in Values /\ s \in Values
      /\ arg' = [arg EXCEPT ![t] = a] /\ exp' = [exp EXCEPT ![t] = e] /\ snk' = [snk EXCEPT ![t] = s]
  <2>1. arg \in [Threads -> Values] /\ exp \in [Threads -> Values] /\ snk \in [Threads -> Values]
    BY DEF IInv, TypeOK
  <2>2. a \in Values /\ e \in Values /\ s \in Values
    BY <1>2, <2>1, NoValueType, ValueType, PartWrite
  <2>3. arg' = [arg EXCEPT ![t] = a]
    BY <1>1, <1>2, <2>1, PartWrite
  <2>4. exp' = [exp EXCEPT ![t] = e] /\ snk' = [snk EXCEPT ![t] = s]
    BY <1>1, <1>2, <2>1, PartWrite
  <2> QED BY <2>2, <2>3, <2>4
<1>4. /\ use' \in [Blocks -> Int] /\ \A c \in Blocks : use'[c] = use[c] - Is(snk[t].pi, c)
      /\ \A c \in Blocks : c \in alive' <=> use'[c] > 0
      /\ alive' \subseteq Blocks
  <2>1. snk[t].pi \in BlocksOrNo
    BY <1>2, PartWrite
  <2>2. snk[t].pi # NoBlock => use[snk[t].pi] > 0
    BY <2>1, HeldIsAlive DEF IInv, BlocksOrNo
  <2> QED BY <1>1, <2>1, <2>2, UnrefCounts
<1>5. Balanced(t, a, e, s)
  <2>1. Written(arg, t, a, arg') /\ Written(exp, t, e, exp') /\ Written(snk, t, s, snk')
    BY <1>3 DEF IInv, TypeOK, Written
  <2>2. ASSUME NEW c \in Blocks
        PROVE  use'[c] = use[c] + Is(word'.pi, c) - Is(word.pi, c) + Is(a.pi, c) - Is(arg[t].pi, c)
                                + Is(e.pi, c) - Is(exp[t].pi, c) + Is(s.pi, c) - Is(snk[t].pi, c)
    <3>1. use[c] \in Nat /\ \A x : Is(x, c) \in {0, 1}
      BY DEF IInv, TypeOK, Is
    <3> QED BY <1>1, <1>2, <1>3, <1>4, <3>1, NoValueType
  <2> QED BY <1>4, <2>1, <2>2 DEF Balanced
<1> HIDE DEF a, e, s
<1>6. OthersStay(t)
  BY <1>1, <1>3 DEF IInv, TypeOK, OthersStay
<1>7. CountsAreHolders' /\ use' \in [Blocks -> Nat]
  BY <1>3, <1>5, Ledger DEF IInv
<1>8. TypeOK'
  BY <1>1, <1>2, <1>3, <1>4, <1>7 DEF IInv, TypeOK, Pcs
<1>9. LockIsExclusive'
  BY <1>1, <1>6, LockStays DEF IInv, TypeOK, HoldingPcs
<1>10. OpOK(t)' /\ HandsOK(t)'
  BY <1>1, <1>2, <1>3, NoValueType DEF a, e, s, IInv, TypeOK, OpOK, HandsOK, Whole, At, Holding, HoldingPcs
<1>11. ~word'.locked => Whole([ptr |-> ptr', pi |-> word'.pi])
  BY <1>1, <1>2 DEF HandsOK, Whole, At, Holding, HoldingPcs
<1> QED BY <1>1, <1>2, <1>6, <1>7, <1>8, <1>9, <1>10, <1>11, StepOfOne DEF Holding, HoldingPcs

LEMMA DropArgStep ==
  ASSUME IInv, NEW t \in Threads, DropArg(t)
  PROVE  IInv'
<1> DEFINE a == NoValue
           e == exp[t]
           s == snk[t]
<1>1. /\ pc[t] = "drop_arg" /\ op' = [op EXCEPT ![t] = "none"]
      /\ pc' = [pc EXCEPT ![t] = "notify"] \/ pc' = [pc EXCEPT ![t] = "idle"]
      /\ cur' = [cur EXCEPT ![t] = NoBlock] /\ seen' = [seen EXCEPT ![t] = Unlocked(NoBlock)]
      /\ stale' = stale \ {t} /\ arg' = [arg EXCEPT ![t] = NoValue] /\ Unref(arg[t].pi)
      /\ UNCHANGED <<word, ptr, exp, snk>>
  BY DEF DropArg, At, Goto, GotoIn, Return, Idle, Unlocked, shared, objects, values, sleep, control
<1>2. /\ arg[t] \in Values /\ exp[t] \in Values /\ snk[t] \in Values /\ cur[t] \in BlocksOrNo
      /\ word.pi \in BlocksOrNo /\ ptr \in Ptrs /\ word \in Words
      /\ OpOK(t) /\ HandsOK(t) /\ (~word.locked => Whole([ptr |-> ptr, pi |-> word.pi]))
      /\ Holding(t) => cur[t] = word.pi /\ word.locked
  BY DEF IInv, TypeOK, Words, ControlOK, ValuesOK, LockIsExclusive
<1>3. /\ a \in Values /\ e \in Values /\ s \in Values
      /\ arg' = [arg EXCEPT ![t] = a] /\ exp' = [exp EXCEPT ![t] = e] /\ snk' = [snk EXCEPT ![t] = s]
  <2>1. arg \in [Threads -> Values] /\ exp \in [Threads -> Values] /\ snk \in [Threads -> Values]
    BY DEF IInv, TypeOK
  <2>2. a \in Values /\ e \in Values /\ s \in Values
    BY <1>2, <2>1, NoValueType, ValueType, PartWrite
  <2>3. arg' = [arg EXCEPT ![t] = a]
    BY <1>1, <1>2, <2>1, PartWrite
  <2>4. exp' = [exp EXCEPT ![t] = e] /\ snk' = [snk EXCEPT ![t] = s]
    BY <1>1, <1>2, <2>1, PartWrite
  <2> QED BY <2>2, <2>3, <2>4
<1>4. /\ use' \in [Blocks -> Int] /\ \A c \in Blocks : use'[c] = use[c] - Is(arg[t].pi, c)
      /\ \A c \in Blocks : c \in alive' <=> use'[c] > 0
      /\ alive' \subseteq Blocks
  <2>1. arg[t].pi \in BlocksOrNo
    BY <1>2, PartWrite
  <2>2. arg[t].pi # NoBlock => use[arg[t].pi] > 0
    BY <2>1, HeldIsAlive DEF IInv, BlocksOrNo
  <2> QED BY <1>1, <2>1, <2>2, UnrefCounts
<1>5. Balanced(t, a, e, s)
  <2>1. Written(arg, t, a, arg') /\ Written(exp, t, e, exp') /\ Written(snk, t, s, snk')
    BY <1>3 DEF IInv, TypeOK, Written
  <2>2. ASSUME NEW c \in Blocks
        PROVE  use'[c] = use[c] + Is(word'.pi, c) - Is(word.pi, c) + Is(a.pi, c) - Is(arg[t].pi, c)
                                + Is(e.pi, c) - Is(exp[t].pi, c) + Is(s.pi, c) - Is(snk[t].pi, c)
    <3>1. use[c] \in Nat /\ \A x : Is(x, c) \in {0, 1}
      BY DEF IInv, TypeOK, Is
    <3> QED BY <1>1, <1>2, <1>3, <1>4, <3>1, NoValueType
  <2> QED BY <1>4, <2>1, <2>2 DEF Balanced
<1> HIDE DEF a, e, s
<1>6. OthersStay(t)
  BY <1>1, <1>3 DEF IInv, TypeOK, OthersStay
<1>7. CountsAreHolders' /\ use' \in [Blocks -> Nat]
  BY <1>3, <1>5, Ledger DEF IInv
<1>8. TypeOK'
  <2>1. Unlocked(NoBlock) \in Words /\ NoBlock \in BlocksOrNo
    BY DEF Unlocked, Words, BlocksOrNo
  <2>2. word' \in Words
    BY <1>1, <1>2, <2>1, PartWrite DEF Words
  <2>3. cur' \in [Threads -> BlocksOrNo] /\ seen' \in [Threads -> Words] /\ stale' \subseteq Threads
    BY <1>1, <2>1 DEF IInv, TypeOK
  <2>4. pc' \in [Threads -> Pcs]
    BY <1>1 DEF IInv, TypeOK, Pcs
  <2> QED BY <1>1, <1>3, <1>4, <1>7, <2>2, <2>3, <2>4 DEF IInv, TypeOK
<1>9. LockIsExclusive'
  BY <1>1, <1>6, LockStays DEF IInv, TypeOK, HoldingPcs
<1>10. OpOK(t)' /\ HandsOK(t)'
  BY <1>1, <1>2, <1>3, NoValueType DEF a, e, s, IInv, TypeOK, OpOK, HandsOK, Whole, At, Holding, HoldingPcs
<1>11. ~word'.locked => Whole([ptr |-> ptr', pi |-> word'.pi])
  BY <1>1, <1>2 DEF HandsOK, Whole, At, Holding, HoldingPcs
<1> QED BY <1>1, <1>2, <1>6, <1>7, <1>8, <1>9, <1>10, <1>11, StepOfOne DEF Holding, HoldingPcs

LEMMA AliasStep ==
  ASSUME IInv, NEW t \in Threads, NEW i \in Parts, Alias(t, i)
  PROVE  IInv'
<1> DEFINE a == [ptr |-> <<arg[t].pi, i>>, pi |-> arg[t].pi]
           e == exp[t]
           s == snk[t]
<1>1. /\ pc[t] = "idle" /\ arg[t] # NoValue /\ arg' = [arg EXCEPT ![t].ptr = <<arg[t].pi, i>>]
      /\ UNCHANGED <<word, ptr, use, alive, exp, snk, pc, cur, seen, stale, op>>
  BY DEF Alias, At, Goto, GotoIn, Return, Idle, Unlocked, shared, objects, values, sleep, control
<1>2. /\ arg[t] \in Values /\ exp[t] \in Values /\ snk[t] \in Values /\ cur[t] \in BlocksOrNo
      /\ word.pi \in BlocksOrNo /\ ptr \in Ptrs /\ word \in Words
      /\ OpOK(t) /\ HandsOK(t) /\ (~word.locked => Whole([ptr |-> ptr, pi |-> word.pi]))
      /\ Holding(t) => cur[t] = word.pi /\ word.locked
  BY DEF IInv, TypeOK, Words, ControlOK, ValuesOK, LockIsExclusive
<1>0. /\ arg[t].pi # NoBlock /\ <<arg[t].pi, i>> \in Ptrs /\ <<arg[t].pi, i>> # NoPtr
  BY <1>1, <1>2, NoValueType, PartWrite, AtomicAssumption DEF HandsOK, At, Holding, HoldingPcs, Whole, NoValue, BlocksOrNo, Ptrs, OpOK
<1>3. /\ a \in Values /\ e \in Values /\ s \in Values
      /\ arg' = [arg EXCEPT ![t] = a] /\ exp' = [exp EXCEPT ![t] = e] /\ snk' = [snk EXCEPT ![t] = s]
  <2>1. arg \in [Threads -> Values] /\ exp \in [Threads -> Values] /\ snk \in [Threads -> Values]
    BY DEF IInv, TypeOK
  <2>2. a \in Values /\ e \in Values /\ s \in Values
    BY <1>2, <1>0, <2>1, NoValueType, ValueType, PartWrite
  <2>3. arg' = [arg EXCEPT ![t] = a]
    BY <1>1, <1>2, <1>0, <2>1, PartWrite
  <2>4. exp' = [exp EXCEPT ![t] = e] /\ snk' = [snk EXCEPT ![t] = s]
    BY <1>1, <1>2, <1>0, <2>1, PartWrite
  <2> QED BY <2>2, <2>3, <2>4
<1>4. use' \in [Blocks -> Int] /\ (\A c \in Blocks : use'[c] = use[c]) /\ alive' \subseteq Blocks
      /\ \A c \in Blocks : c \in alive' <=> use'[c] > 0
  BY <1>1, SameUse DEF objects
<1>5. Balanced(t, a, e, s)
  <2>1. Written(arg, t, a, arg') /\ Written(exp, t, e, exp') /\ Written(snk, t, s, snk')
    BY <1>3 DEF IInv, TypeOK, Written
  <2>2. ASSUME NEW c \in Blocks
        PROVE  use'[c] = use[c] + Is(word'.pi, c) - Is(word.pi, c) + Is(a.pi, c) - Is(arg[t].pi, c)
                                + Is(e.pi, c) - Is(exp[t].pi, c) + Is(s.pi, c) - Is(snk[t].pi, c)
    <3>1. use[c] \in Nat /\ \A x : Is(x, c) \in {0, 1}
      BY DEF IInv, TypeOK, Is
    <3> QED BY <1>1, <1>2, <1>3, <1>4, <1>0, <3>1, NoValueType
  <2> QED BY <1>4, <2>1, <2>2 DEF Balanced
<1> HIDE DEF a, e, s
<1>6. OthersStay(t)
  BY <1>1, <1>3 DEF IInv, TypeOK, OthersStay
<1>7. CountsAreHolders' /\ use' \in [Blocks -> Nat]
  BY <1>3, <1>5, Ledger DEF IInv
<1>8. TypeOK'
  BY <1>1, <1>2, <1>3, <1>4, <1>7, <1>0 DEF IInv, TypeOK, Pcs
<1>9. LockIsExclusive'
  BY <1>1, <1>6, LockStays DEF IInv, TypeOK, HoldingPcs
<1>10. OpOK(t)' /\ HandsOK(t)'
  BY <1>1, <1>2, <1>3, <1>0, NoValueType DEF a, e, s, IInv, TypeOK, OpOK, HandsOK, Whole, At, Holding, HoldingPcs
<1>11. ~word'.locked => Whole([ptr |-> ptr', pi |-> word'.pi])
  BY <1>1, <1>2 DEF HandsOK, Whole, At, Holding, HoldingPcs
<1> QED BY <1>1, <1>2, <1>6, <1>7, <1>8, <1>9, <1>10, <1>11, StepOfOne DEF Holding, HoldingPcs

LEMMA CopyToExpectedStep ==
  ASSUME IInv, NEW t \in Threads, CopyToExpected(t)
  PROVE  IInv'
<1> DEFINE a == arg[t]
           e == arg[t]
           s == snk[t]
<1>1. /\ pc[t] = "idle" /\ exp[t] = NoValue /\ exp' = [exp EXCEPT ![t] = arg[t]]
      /\ AddRef(arg[t].pi) /\ alive' = alive
      /\ UNCHANGED <<word, ptr, arg, snk, pc, cur, seen, stale, op>>
  BY DEF CopyToExpected, AddRef, At, Goto, GotoIn, Return, Idle, Unlocked, shared, objects, values, sleep, control
<1>2. /\ arg[t] \in Values /\ exp[t] \in Values /\ snk[t] \in Values /\ cur[t] \in BlocksOrNo
      /\ word.pi \in BlocksOrNo /\ ptr \in Ptrs /\ word \in Words
      /\ OpOK(t) /\ HandsOK(t) /\ (~word.locked => Whole([ptr |-> ptr, pi |-> word.pi]))
      /\ Holding(t) => cur[t] = word.pi /\ word.locked
  BY DEF IInv, TypeOK, Words, ControlOK, ValuesOK, LockIsExclusive
<1>3. /\ a \in Values /\ e \in Values /\ s \in Values
      /\ arg' = [arg EXCEPT ![t] = a] /\ exp' = [exp EXCEPT ![t] = e] /\ snk' = [snk EXCEPT ![t] = s]
  <2>1. arg \in [Threads -> Values] /\ exp \in [Threads -> Values] /\ snk \in [Threads -> Values]
    BY DEF IInv, TypeOK
  <2>2. a \in Values /\ e \in Values /\ s \in Values
    BY <1>2, <2>1, NoValueType, ValueType, PartWrite
  <2>3. arg' = [arg EXCEPT ![t] = a]
    BY <1>1, <1>2, <2>1, PartWrite
  <2>4. exp' = [exp EXCEPT ![t] = e] /\ snk' = [snk EXCEPT ![t] = s]
    BY <1>1, <1>2, <2>1, PartWrite
  <2> QED BY <2>2, <2>3, <2>4
<1>4. /\ use' \in [Blocks -> Int] /\ \A c \in Blocks : use'[c] = use[c] + Is(arg[t].pi, c)
      /\ \A c \in Blocks : c \in alive' <=> use'[c] > 0
  <2>1. arg[t].pi \in BlocksOrNo
    BY <1>2, PartWrite
  <2>2. arg[t].pi # NoBlock => arg[t].pi \in alive
    BY <1>1, <1>2, <2>1, HeldIsAlive DEF IInv, BlocksOrNo, Holding, HoldingPcs
  <2> QED BY <1>1, <2>1, <2>2, AddRefCounts
<1>5. Balanced(t, a, e, s)
  <2>1. Written(arg, t, a, arg') /\ Written(exp, t, e, exp') /\ Written(snk, t, s, snk')
    BY <1>3 DEF IInv, TypeOK, Written
  <2>2. ASSUME NEW c \in Blocks
        PROVE  use'[c] = use[c] + Is(word'.pi, c) - Is(word.pi, c) + Is(a.pi, c) - Is(arg[t].pi, c)
                                + Is(e.pi, c) - Is(exp[t].pi, c) + Is(s.pi, c) - Is(snk[t].pi, c)
    <3>1. use[c] \in Nat /\ \A x : Is(x, c) \in {0, 1}
      BY DEF IInv, TypeOK, Is
    <3> QED BY <1>1, <1>2, <1>3, <1>4, <3>1, NoValueType
  <2> QED BY <1>4, <2>1, <2>2 DEF Balanced
<1> HIDE DEF a, e, s
<1>6. OthersStay(t)
  BY <1>1, <1>3 DEF IInv, TypeOK, OthersStay
<1>7. CountsAreHolders' /\ use' \in [Blocks -> Nat]
  BY <1>3, <1>5, Ledger DEF IInv
<1>8. TypeOK'
  BY <1>1, <1>2, <1>3, <1>4, <1>7 DEF IInv, TypeOK, Pcs
<1>9. LockIsExclusive'
  BY <1>1, <1>6, LockStays DEF IInv, TypeOK, HoldingPcs
<1>10. OpOK(t)' /\ HandsOK(t)'
  BY <1>1, <1>2, <1>3, NoValueType DEF a, e, s, IInv, TypeOK, OpOK, HandsOK, Whole, At, Holding, HoldingPcs
<1>11. ~word'.locked => Whole([ptr |-> ptr', pi |-> word'.pi])
  BY <1>1, <1>2 DEF HandsOK, Whole, At, Holding, HoldingPcs
<1> QED BY <1>1, <1>2, <1>6, <1>7, <1>8, <1>9, <1>10, <1>11, StepOfOne DEF Holding, HoldingPcs

LEMMA MoveFromExpectedStep ==
  ASSUME IInv, NEW t \in Threads, MoveFromExpected(t)
  PROVE  IInv'
<1> DEFINE a == exp[t]
           e == NoValue
           s == snk[t]
<1>1. /\ pc[t] = "idle" /\ arg[t] = NoValue /\ arg' = [arg EXCEPT ![t] = exp[t]]
      /\ exp' = [exp EXCEPT ![t] = NoValue]
      /\ UNCHANGED <<word, ptr, use, alive, snk, pc, cur, seen, stale, op>>
  BY DEF MoveFromExpected, At, Goto, GotoIn, Return, Idle, Unlocked, shared, objects, values, sleep, control
<1>2. /\ arg[t] \in Values /\ exp[t] \in Values /\ snk[t] \in Values /\ cur[t] \in BlocksOrNo
      /\ word.pi \in BlocksOrNo /\ ptr \in Ptrs /\ word \in Words
      /\ OpOK(t) /\ HandsOK(t) /\ (~word.locked => Whole([ptr |-> ptr, pi |-> word.pi]))
      /\ Holding(t) => cur[t] = word.pi /\ word.locked
  BY DEF IInv, TypeOK, Words, ControlOK, ValuesOK, LockIsExclusive
<1>3. /\ a \in Values /\ e \in Values /\ s \in Values
      /\ arg' = [arg EXCEPT ![t] = a] /\ exp' = [exp EXCEPT ![t] = e] /\ snk' = [snk EXCEPT ![t] = s]
  <2>1. arg \in [Threads -> Values] /\ exp \in [Threads -> Values] /\ snk \in [Threads -> Values]
    BY DEF IInv, TypeOK
  <2>2. a \in Values /\ e \in Values /\ s \in Values
    BY <1>2, <2>1, NoValueType, ValueType, PartWrite
  <2>3. arg' = [arg EXCEPT ![t] = a]
    BY <1>1, <1>2, <2>1, PartWrite
  <2>4. exp' = [exp EXCEPT ![t] = e] /\ snk' = [snk EXCEPT ![t] = s]
    BY <1>1, <1>2, <2>1, PartWrite
  <2> QED BY <2>2, <2>3, <2>4
<1>4. use' \in [Blocks -> Int] /\ (\A c \in Blocks : use'[c] = use[c]) /\ alive' \subseteq Blocks
      /\ \A c \in Blocks : c \in alive' <=> use'[c] > 0
  BY <1>1, SameUse DEF objects
<1>5. Balanced(t, a, e, s)
  <2>1. Written(arg, t, a, arg') /\ Written(exp, t, e, exp') /\ Written(snk, t, s, snk')
    BY <1>3 DEF IInv, TypeOK, Written
  <2>2. ASSUME NEW c \in Blocks
        PROVE  use'[c] = use[c] + Is(word'.pi, c) - Is(word.pi, c) + Is(a.pi, c) - Is(arg[t].pi, c)
                                + Is(e.pi, c) - Is(exp[t].pi, c) + Is(s.pi, c) - Is(snk[t].pi, c)
    <3>1. use[c] \in Nat /\ \A x : Is(x, c) \in {0, 1}
      BY DEF IInv, TypeOK, Is
    <3> QED BY <1>1, <1>2, <1>3, <1>4, <3>1, NoValueType
  <2> QED BY <1>4, <2>1, <2>2 DEF Balanced
<1> HIDE DEF a, e, s
<1>6. OthersStay(t)
  BY <1>1, <1>3 DEF IInv, TypeOK, OthersStay
<1>7. CountsAreHolders' /\ use' \in [Blocks -> Nat]
  BY <1>3, <1>5, Ledger DEF IInv
<1>8. TypeOK'
  BY <1>1, <1>2, <1>3, <1>4, <1>7 DEF IInv, TypeOK, Pcs
<1>9. LockIsExclusive'
  BY <1>1, <1>6, LockStays DEF IInv, TypeOK, HoldingPcs
<1>10. OpOK(t)' /\ HandsOK(t)'
  BY <1>1, <1>2, <1>3, NoValueType DEF a, e, s, IInv, TypeOK, OpOK, HandsOK, Whole, At, Holding, HoldingPcs
<1>11. ~word'.locked => Whole([ptr |-> ptr', pi |-> word'.pi])
  BY <1>1, <1>2 DEF HandsOK, Whole, At, Holding, HoldingPcs
<1> QED BY <1>1, <1>2, <1>6, <1>7, <1>8, <1>9, <1>10, <1>11, StepOfOne DEF Holding, HoldingPcs

LEMMA MakeStep ==
  ASSUME IInv, NEW t \in Threads, NEW b \in Blocks, NEW i \in Parts, Make(t, b, i)
  PROVE  IInv'
<1> DEFINE a == [ptr |-> <<b, i>>, pi |-> b]
           e == exp[t]
           s == snk[t]
<1>1. /\ pc[t] = "idle" /\ arg[t] = NoValue /\ b \notin alive /\ alive' = alive \cup {b}
      /\ use' = [use EXCEPT ![b] = 1] /\ arg' = [arg EXCEPT ![t] = [ptr |-> <<b, i>>, pi |-> b]]
      /\ UNCHANGED <<word, ptr, exp, snk, pc, cur, seen, stale, op>>
  BY DEF Make, At, Goto, GotoIn, Return, Idle, Unlocked, shared, objects, values, sleep, control
<1>2. /\ arg[t] \in Values /\ exp[t] \in Values /\ snk[t] \in Values /\ cur[t] \in BlocksOrNo
      /\ word.pi \in BlocksOrNo /\ ptr \in Ptrs /\ word \in Words
      /\ OpOK(t) /\ HandsOK(t) /\ (~word.locked => Whole([ptr |-> ptr, pi |-> word.pi]))
      /\ Holding(t) => cur[t] = word.pi /\ word.locked
  BY DEF IInv, TypeOK, Words, ControlOK, ValuesOK, LockIsExclusive
<1>0. /\ <<b, i>> \in Ptrs /\ <<b, i>> # NoPtr /\ b # NoBlock /\ b \in BlocksOrNo
  BY <1>1, <1>2, NoValueType, AtomicAssumption DEF HandsOK, At, Holding, HoldingPcs, Whole, NoValue, BlocksOrNo, Ptrs
<1>3. /\ a \in Values /\ e \in Values /\ s \in Values
      /\ arg' = [arg EXCEPT ![t] = a] /\ exp' = [exp EXCEPT ![t] = e] /\ snk' = [snk EXCEPT ![t] = s]
  <2>1. arg \in [Threads -> Values] /\ exp \in [Threads -> Values] /\ snk \in [Threads -> Values]
    BY DEF IInv, TypeOK
  <2>2. a \in Values /\ e \in Values /\ s \in Values
    BY <1>2, <1>0, <2>1, NoValueType, ValueType, PartWrite
  <2>3. arg' = [arg EXCEPT ![t] = a]
    BY <1>1, <1>2, <1>0, <2>1, PartWrite
  <2>4. exp' = [exp EXCEPT ![t] = e] /\ snk' = [snk EXCEPT ![t] = s]
    BY <1>1, <1>2, <1>0, <2>1, PartWrite
  <2> QED BY <2>2, <2>3, <2>4
<1>4. /\ use' \in [Blocks -> Int] /\ \A c \in Blocks : use'[c] = use[c] + Is(b, c)
      /\ \A c \in Blocks : c \in alive' <=> use'[c] > 0
      /\ alive' \subseteq Blocks
  <2>1. use \in [Blocks -> Nat] /\ \A c \in Blocks : c \in alive <=> use[c] > 0
    BY DEF IInv, TypeOK, CountsAreHolders
  <2>2. \A c \in Blocks : use'[c] = use[c] + Is(b, c)
    BY <1>1, <2>1 DEF Is
  <2> QED BY <1>1, <2>1, <2>2 DEF IInv, TypeOK
<1>5. Balanced(t, a, e, s)
  <2>1. Written(arg, t, a, arg') /\ Written(exp, t, e, exp') /\ Written(snk, t, s, snk')
    BY <1>3 DEF IInv, TypeOK, Written
  <2>2. ASSUME NEW c \in Blocks
        PROVE  use'[c] = use[c] + Is(word'.pi, c) - Is(word.pi, c) + Is(a.pi, c) - Is(arg[t].pi, c)
                                + Is(e.pi, c) - Is(exp[t].pi, c) + Is(s.pi, c) - Is(snk[t].pi, c)
    <3>1. use[c] \in Nat /\ \A x : Is(x, c) \in {0, 1}
      BY DEF IInv, TypeOK, Is
    <3> QED BY <1>1, <1>2, <1>3, <1>4, <1>0, <3>1, NoValueType
  <2> QED BY <1>4, <2>1, <2>2 DEF Balanced
<1> HIDE DEF a, e, s
<1>6. OthersStay(t)
  BY <1>1, <1>3 DEF IInv, TypeOK, OthersStay
<1>7. CountsAreHolders' /\ use' \in [Blocks -> Nat]
  BY <1>3, <1>5, Ledger DEF IInv
<1>8. TypeOK'
  BY <1>1, <1>2, <1>3, <1>4, <1>7, <1>0 DEF IInv, TypeOK, Pcs
<1>9. LockIsExclusive'
  BY <1>1, <1>6, LockStays DEF IInv, TypeOK, HoldingPcs
<1>10. OpOK(t)' /\ HandsOK(t)'
  BY <1>1, <1>2, <1>3, <1>0, NoValueType DEF a, e, s, IInv, TypeOK, OpOK, HandsOK, Whole, At, Holding, HoldingPcs
<1>11. ~word'.locked => Whole([ptr |-> ptr', pi |-> word'.pi])
  BY <1>1, <1>2 DEF HandsOK, Whole, At, Holding, HoldingPcs
<1> QED BY <1>1, <1>2, <1>6, <1>7, <1>8, <1>9, <1>10, <1>11, StepOfOne DEF Holding, HoldingPcs

LEMMA DestructStep ==
  ASSUME IInv, NEW t \in Threads, Destruct(t)
  PROVE  IInv'
<1> DEFINE a == arg[t]
           e == exp[t]
           s == snk[t]
<1>1. /\ pc[t] = "idle" /\ \A u \in Threads : pc[u] \in {"idle", "drop_arg"}
      /\ word'.pi = NoBlock /\ word'.locked = FALSE /\ word' = [pi |-> NoBlock, locked |-> FALSE]
      /\ ptr' = NoPtr /\ Unref(word.pi)
      /\ UNCHANGED <<arg, exp, snk, pc, cur, seen, stale, op>>
  BY DEF Destruct, At, Goto, GotoIn, Return, Idle, Unlocked, shared, objects, values, sleep, control
<1>2. /\ arg[t] \in Values /\ exp[t] \in Values /\ snk[t] \in Values /\ cur[t] \in BlocksOrNo
      /\ word.pi \in BlocksOrNo /\ ptr \in Ptrs /\ word \in Words
      /\ OpOK(t) /\ HandsOK(t) /\ (~word.locked => Whole([ptr |-> ptr, pi |-> word.pi]))
      /\ Holding(t) => cur[t] = word.pi /\ word.locked
  BY DEF IInv, TypeOK, Words, ControlOK, ValuesOK, LockIsExclusive
<1>0. /\ NoBlock \in BlocksOrNo /\ NoPtr \in Ptrs
      /\ \A u \in Threads : ~Holding(u)
  BY <1>1, <1>2, NoValueType DEF HandsOK, At, Holding, HoldingPcs, Whole, NoValue, BlocksOrNo, Ptrs
<1>3. /\ a \in Values /\ e \in Values /\ s \in Values
      /\ arg' = [arg EXCEPT ![t] = a] /\ exp' = [exp EXCEPT ![t] = e] /\ snk' = [snk EXCEPT ![t] = s]
  <2>1. arg \in [Threads -> Values] /\ exp \in [Threads -> Values] /\ snk \in [Threads -> Values]
    BY DEF IInv, TypeOK
  <2>2. a \in Values /\ e \in Values /\ s \in Values
    BY <1>2, <1>0, <2>1, NoValueType, ValueType, PartWrite
  <2>3. arg' = [arg EXCEPT ![t] = a]
    BY <1>1, <1>2, <1>0, <2>1, PartWrite
  <2>4. exp' = [exp EXCEPT ![t] = e] /\ snk' = [snk EXCEPT ![t] = s]
    BY <1>1, <1>2, <1>0, <2>1, PartWrite
  <2> QED BY <2>2, <2>3, <2>4
<1>4. /\ use' \in [Blocks -> Int] /\ \A c \in Blocks : use'[c] = use[c] - Is(word.pi, c)
      /\ \A c \in Blocks : c \in alive' <=> use'[c] > 0
      /\ alive' \subseteq Blocks
  <2>1. word.pi \in BlocksOrNo
    BY <1>2, PartWrite
  <2>2. word.pi # NoBlock => use[word.pi] > 0
    BY <2>1, HeldIsAlive DEF IInv, BlocksOrNo
  <2> QED BY <1>1, <2>1, <2>2, UnrefCounts
<1>5. Balanced(t, a, e, s)
  <2>1. Written(arg, t, a, arg') /\ Written(exp, t, e, exp') /\ Written(snk, t, s, snk')
    BY <1>3 DEF IInv, TypeOK, Written
  <2>2. ASSUME NEW c \in Blocks
        PROVE  use'[c] = use[c] + Is(word'.pi, c) - Is(word.pi, c) + Is(a.pi, c) - Is(arg[t].pi, c)
                                + Is(e.pi, c) - Is(exp[t].pi, c) + Is(s.pi, c) - Is(snk[t].pi, c)
    <3>1. use[c] \in Nat /\ \A x : Is(x, c) \in {0, 1}
      BY DEF IInv, TypeOK, Is
    <3> QED BY <1>1, <1>2, <1>3, <1>4, <1>0, <3>1, NoValueType
  <2> QED BY <1>4, <2>1, <2>2 DEF Balanced
<1> HIDE DEF a, e, s
<1>6. OthersStay(t)
  BY <1>1, <1>3 DEF IInv, TypeOK, OthersStay
<1>7. CountsAreHolders' /\ use' \in [Blocks -> Nat]
  BY <1>3, <1>5, Ledger DEF IInv
<1>8. TypeOK'
  <2>1. Unlocked(NoBlock) \in Words /\ NoBlock \in BlocksOrNo
    BY DEF Unlocked, Words, BlocksOrNo
  <2>2. word' \in Words
    BY <1>1, <1>2, <2>1, PartWrite DEF Words
  <2>3. cur' \in [Threads -> BlocksOrNo] /\ seen' \in [Threads -> Words] /\ stale' \subseteq Threads
    BY <1>1, <2>1 DEF IInv, TypeOK
  <2>4. pc' \in [Threads -> Pcs]
    BY <1>1 DEF IInv, TypeOK, Pcs
  <2> QED BY <1>1, <1>3, <1>4, <1>7, <2>2, <2>3, <2>4, <1>0 DEF IInv, TypeOK
<1>9. LockIsExclusive'
  <2>1. \A u \in Threads : ~Holding(u) /\ pc[u] # "unlock_cas"
    BY <1>1 DEF Holding, HoldingPcs
  <2> QED BY <1>1, <2>1 DEF LockIsExclusive, Holding
<1>10. OpOK(t)' /\ HandsOK(t)'
  BY <1>1, <1>2, <1>3, <1>0, NoValueType DEF a, e, s, IInv, TypeOK, OpOK, HandsOK, Whole, At, Holding, HoldingPcs
<1>11. ~word'.locked => Whole([ptr |-> ptr', pi |-> word'.pi])
  BY <1>1, <1>2 DEF HandsOK, Whole, At, Holding, HoldingPcs
<1> QED BY <1>1, <1>2, <1>6, <1>7, <1>8, <1>9, <1>10, <1>11, StepOfOne DEF Holding, HoldingPcs

-----------------------------------------------------------------------------
(* The invariant holds.                                                    *)

LEMMA InitIInv == Init => IInv
<1> SUFFICES ASSUME Init PROVE IInv
  OBVIOUS
<1>1. TypeOK
  BY NoValueType DEF Init, TypeOK, Words, Unlocked, BlocksOrNo, Ptrs, Pcs
<1>2. LockIsExclusive /\ ControlOK
  BY DEF Init, LockIsExclusive, Holding, HoldingPcs, Unlocked, ControlOK, OpOK
<1>3. ValuesOK
  BY NoValueType DEF Init, ValuesOK, HandsOK, Whole, At, Holding, HoldingPcs, Unlocked
<1>4. ASSUME NEW b \in Blocks
      PROVE  use[b] = Refs(b) /\ (b \in alive <=> use[b] > 0)
  <2>1. word.pi # b /\ \A t \in Threads : arg[t].pi # b /\ exp[t].pi # b /\ snk[t].pi # b
    BY NoValueType, AtomicAssumption DEF Init, Unlocked
  <2>2. ASSUME NEW f, \A t \in Threads : f[t].pi # b
        PROVE  Holders(f, b) = 0
    <3>1. {t \in Threads : f[t].pi = b} = {}
      BY <2>2
    <3> QED BY <3>1, FS_EmptySet, Zenon DEF Holders
  <2>3. Refs(b) = Is(word.pi, b) + Holders(arg, b) + Holders(exp, b) + Holders(snk, b)
    BY RefsAreHolders
  <2>4. Refs(b) = 0
    BY <2>1, <2>2, <2>3 DEF Is
  <2> QED BY <2>4 DEF Init
<1> QED BY <1>1, <1>2, <1>3, <1>4 DEF IInv, CountsAreHolders

LEMMA NextIInv == IInv /\ [Next]_vars => IInv'
<1> SUFFICES ASSUME IInv, [Next]_vars PROVE IInv'
  OBVIOUS
<1>1. CASE UNCHANGED vars
  <2>1. TypeOK' /\ LockIsExclusive'
    BY <1>1 DEF vars, IInv, TypeOK, LockIsExclusive, Holding
  <2>2. ControlOK'
    BY <1>1 DEF vars, IInv, ControlOK, OpOK
  <2>3. ValuesOK'
    <3>1. \A u \in Threads : HandsOK(u)'
      BY <1>1 DEF vars, IInv, ValuesOK, HandsOK, Whole, At, Holding
    <3> QED BY <1>1, <3>1 DEF vars, IInv, ValuesOK, Whole
  <2>4. CountsAreHolders'
    BY <1>1, SameCounts DEF vars, IInv, objects, values
  <2> QED BY <2>1, <2>2, <2>3, <2>4 DEF IInv
<1>2. CASE Next
  <2>1. PICK t \in Threads : Client(t) \/ Step(t)
    BY <1>2 DEF Next
  <2>2. CASE Client(t)
    BY <2>2, MakeStep, AliasStep, CopyToExpectedStep, MoveFromExpectedStep, ResetStep, CallStep,
       DestructStep, NotifyStep DEF Client
  <2>3. CASE Step(t)
    BY <2>3, SpinStep, LockCasStep, UnlockLoadStep, UnlockCasStep, UnlockSubStep, SwapUnlockStep,
       ReadPtrStep, LoadAddRefStep, SwapPtrStep, CompareStep, SetPtrStep, TakeCurrentStep,
       ExpectedAddRefStep, DropSinkStep, DropArgStep, CompareOldStep, WaitReadStep, RecheckStep,
       SleepStep, NotifyStep DEF Step
  <2> QED BY <2>1, <2>2, <2>3
<1> QED BY <1>1, <1>2 DEF vars

LEMMA InductiveInvariant == Spec => []IInv
<1>1. Init => IInv
  BY InitIInv
<1>2. IInv /\ [Next]_vars => IInv'
  BY NextIInv
<1> QED BY <1>1, <1>2, PTL DEF Spec

-----------------------------------------------------------------------------
(* What the invariant gives.                                               *)

(* The words, values and counts have their types; no count goes below      *)
(* zero.                                                                   *)
THEOREM TypeCorrect == Spec => []TypeOK
BY InductiveInvariant, PTL DEF IInv

(* The lowest bit of _M_refcount is a lock.                                *)
THEOREM LockExcludes == Spec => []LockIsExclusive
BY InductiveInvariant, PTL DEF IInv

(* Every reference in the word, in a parameter, in an expected value and   *)
(* in __sink is counted, at every point of every operation.                *)
THEOREM CountsAreExact == Spec => []CountsAreHolders
BY InductiveInvariant, PTL DEF IInv

LEMMA HeldAlive == IInv => NoDeadValue
<1> SUFFICES ASSUME IInv, NEW t \in Threads
             PROVE  /\ Holding(t) /\ cur[t] # NoBlock => cur[t] \in alive
                    /\ arg[t].pi # NoBlock => arg[t].pi \in alive
                    /\ exp[t].pi # NoBlock => exp[t].pi \in alive
  BY DEF NoDeadValue
<1>1. /\ arg[t] \in Values /\ exp[t] \in Values /\ cur[t] \in BlocksOrNo
      /\ Holding(t) => cur[t] = word.pi
      /\ TypeOK /\ CountsAreHolders
  BY DEF IInv, TypeOK, LockIsExclusive
<1>2. arg[t].pi \in BlocksOrNo /\ exp[t].pi \in BlocksOrNo
  BY <1>1, PartWrite
<1> QED BY <1>1, <1>2, HeldIsAlive DEF BlocksOrNo

(* No operation gets hold of a block whose count has returned to zero.     *)
THEOREM NoDeadValueSeen == Spec => []NoDeadValue
BY InductiveInvariant, HeldAlive, PTL

(* A deleter runs where a value is dropped, by a thread that has given the *)
(* lock back; a thread that has it takes no part in such a step.           *)
DeleterOutside == alive \subseteq alive' \/ \A t \in Threads : Holding(t) => pc'[t] = pc[t]

LEMMA NextDeleterOutside == IInv /\ [Next]_vars => DeleterOutside
<1> SUFFICES ASSUME IInv, [Next]_vars, ~(alive \subseteq alive')
             PROVE  \A u \in Threads : Holding(u) => pc'[u] = pc[u]
  BY DEF DeleterOutside
<1>1. PICK t \in Threads : Client(t) \/ Step(t)
  BY DEF Next, vars
<1>2. CASE DropSink(t) \/ DropArg(t)
  BY <1>2 DEF DropSink, DropArg, Return, Goto, Holding, HoldingPcs, IInv, TypeOK
<1>3. CASE Destruct(t)
  BY <1>3 DEF Destruct, control
<1>4. CASE ~(DropSink(t) \/ DropArg(t) \/ Destruct(t))
  <2>1. alive \subseteq alive'
    <3>1. CASE Client(t)
      BY <1>4, <3>1 DEF Client, Make, Alias, CopyToExpected, MoveFromExpected, Reset, Call, NotifyOne,
         Wake, AddRef, objects
    <3>2. CASE Step(t)
      BY <1>4, <3>2 DEF Step, Spin, LockCas, UnlockLoad, UnlockCas, UnlockSub, SwapUnlock, ReadPtr,
         LoadAddRef, SwapPtr, Compare, SetPtr, TakeCurrent, ExpectedAddRef, CompareOld, WaitRead,
         Recheck, Sleep, NotifyAll, Wake, AddRef, objects
    <3> QED BY <1>1, <3>1, <3>2
  <2> QED BY <2>1
<1> QED BY <1>2, <1>3, <1>4

(* No deleter runs under the lock, so it may use the same atomic object.   *)
THEOREM DeletersRunOutside == Spec => NoDeleterUnderLock
<1>1. IInv /\ [Next]_vars => [DeleterOutside]_vars
  BY NextDeleterOutside
<1>2. NoDeleterUnderLock <=> [][DeleterOutside]_vars
  BY PTL DEF NoDeleterUnderLock, DeleterOutside
<1> QED BY <1>1, <1>2, InductiveInvariant, PTL DEF Spec

-----------------------------------------------------------------------------
(* The register: what each thread has, and the value, as AtomicValue sees  *)
(* them.                                                                   *)

LEMMA ValuePlain ==
  ASSUME \A u \in Threads : pc[u] # "swap_unlock"
  PROVE  Value = [ptr |-> ptr, pi |-> word.pi]
BY DEF Value

LEMMA ValueDuringSwap ==
  ASSUME NEW t \in Threads, pc[t] = "swap_unlock", \A u \in Threads : pc[u] = "swap_unlock" => u = t
  PROVE  Value = [ptr |-> IF op[t] = "swap" THEN arg[t].ptr ELSE exp[t].ptr, pi |-> word.pi]
<1>1. (CHOOSE u \in Threads : pc[u] = "swap_unlock") = t
  OBVIOUS
<1> QED BY <1>1 DEF Value

(* The same in the next state.                                             *)
LEMMA NewValuePlain ==
  ASSUME \A u \in Threads : pc'[u] # "swap_unlock"
  PROVE  Value' = [ptr |-> ptr', pi |-> word'.pi]
BY DEF Value

LEMMA NewValueDuringSwap ==
  ASSUME NEW t \in Threads, pc'[t] = "swap_unlock", \A u \in Threads : pc'[u] = "swap_unlock" => u = t
  PROVE  Value' = [ptr |-> IF op'[t] = "swap" THEN arg'[t].ptr ELSE exp'[t].ptr, pi |-> word'.pi]
<1>1. (CHOOSE u \in Threads : pc'[u] = "swap_unlock") = t
  OBVIOUS
<1> QED BY <1>1 DEF Value

(* Who has the lock, and only who has it, decides what the value is.       *)
LEMMA ValueOfHolder ==
  ASSUME IInv, NEW t \in Threads, Holding(t)
  PROVE  /\ pc[t] # "swap_unlock" => Value = [ptr |-> ptr, pi |-> word.pi]
         /\ pc[t] = "swap_unlock" =>
              Value = [ptr |-> IF op[t] = "swap" THEN arg[t].ptr ELSE exp[t].ptr, pi |-> word.pi]
         /\ \A u \in Threads : pc[u] = "swap_unlock" => u = t
<1>1. \A u \in Threads : pc[u] = "swap_unlock" => u = t
  BY DEF IInv, LockIsExclusive, Holding, HoldingPcs
<1> QED BY <1>1, ValuePlain, ValueDuringSwap

(* A step of t changes nothing of the other threads in the register.       *)
LEMMA OthersSee ==
  ASSUME IInv, NEW t \in Threads, OthersStay(t),
         \/ ptr' = ptr
         \/ Holding(t)
         \/ \A u \in Threads : ~Holding(u)
  PROVE  \A u \in Threads \ {t} : Argument(u)' = Argument(u) /\ Expected(u)' = Expected(u)
<1> SUFFICES ASSUME NEW u \in Threads, u # t
             PROVE  Argument(u)' = Argument(u) /\ Expected(u)' = Expected(u)
  OBVIOUS
<1>1. /\ pc'[u] = pc[u] /\ op'[u] = op[u] /\ arg'[u] = arg[u] /\ exp'[u] = exp[u] /\ snk'[u] = snk[u]
      /\ At(u, "swap", "swap_unlock") => ptr' = ptr
  BY DEF OthersStay, IInv, LockIsExclusive, Holding, HoldingPcs, At
<1>2. Argument(u)' = Argument(u)
  BY <1>1 DEF Argument, At
<1>3. Expected(u)' = Expected(u)
  BY <1>1 DEF Expected, At
<1> QED BY <1>2, <1>3

Arguments == [t \in Threads |-> Argument(t)]
Expecteds == [t \in Threads |-> Expected(t)]

(* So that a step of t is a step of the register on what t has.            *)
LEMMA SeenByOne ==
  ASSUME NEW t \in Threads,
         \A u \in Threads \ {t} : Argument(u)' = Argument(u) /\ Expected(u)' = Expected(u)
  PROVE  /\ Arguments' = [Arguments EXCEPT ![t] = Argument(t)']
         /\ Expecteds' = [Expecteds EXCEPT ![t] = Expected(t)']
         /\ Argument(t)' = Argument(t) => Arguments' = Arguments
         /\ Expected(t)' = Expected(t) => Expecteds' = Expecteds
         /\ Arguments[t] = Argument(t) /\ Expecteds[t] = Expected(t)
BY DEF Arguments, Expecteds

LEMMA ValueKept ==
  ASSUME IInv, NEW t \in Threads, OthersStay(t), UNCHANGED ptr, word'.pi = word.pi,
         pc[t] # "swap_unlock", pc'[t] # "swap_unlock"
  PROVE  Value' = Value
<1>1. \A u \in Threads : pc'[u] = "swap_unlock" <=> pc[u] = "swap_unlock"
  BY DEF OthersStay
<1>2. CASE \A u \in Threads : pc[u] # "swap_unlock"
  BY <1>1, <1>2, ValuePlain, NewValuePlain
<1>3. CASE \E u \in Threads : pc[u] = "swap_unlock"
  <2>1. PICK u \in Threads : pc[u] = "swap_unlock"
    BY <1>3
  <2>2. /\ u # t /\ Holding(u)
        /\ op'[u] = op[u] /\ arg'[u] = arg[u] /\ exp'[u] = exp[u]
    BY <2>1 DEF OthersStay, Holding, HoldingPcs
  <2>3. \A v \in Threads : pc[v] = "swap_unlock" => v = u
    BY <2>2, ValueOfHolder
  <2>4. Value = [ptr |-> IF op[u] = "swap" THEN arg[u].ptr ELSE exp[u].ptr, pi |-> word.pi]
    BY <2>1, <2>3, ValueDuringSwap
  <2>5. Value' = [ptr |-> IF op'[u] = "swap" THEN arg'[u].ptr ELSE exp'[u].ptr, pi |-> word'.pi]
    BY <1>1, <2>1, <2>3, NewValueDuringSwap
  <2> QED BY <2>2, <2>4, <2>5
<1> QED BY <1>2, <1>3

Seen == <<Value, Arguments, Expecteds>>

(* Most steps of an operation are not seen at all.                         *)
LEMMA QuietStep ==
  ASSUME IInv, NEW t \in Threads, OthersStay(t), UNCHANGED <<ptr, arg, exp>>, word'.pi = word.pi,
         pc[t] \notin {"add_ref", "swap_unlock"}, pc'[t] \notin {"add_ref", "swap_unlock"},
         op[t] = "exchanged" <=> op'[t] = "exchanged"
  PROVE  UNCHANGED Seen
<1>1. Argument(t)' = Argument(t) /\ Expected(t)' = Expected(t)
  BY DEF Argument, Expected, At
<1> QED BY <1>1, OthersSee, SeenByOne, ValueKept DEF Seen

LEMMA ControlIsQuiet ==
  ASSUME IInv, NEW t \in Threads,
         \/ Reset(t) \/ (\E o \in Ops : Call(t, o)) \/ Spin(t) \/ LockCas(t) \/ UnlockLoad(t)
         \/ Compare(t) \/ CompareOld(t) \/ WaitRead(t) \/ Recheck(t) \/ Sleep(t) \/ DropSink(t)
  PROVE  UNCHANGED Seen
<1>0. "exchanged" \notin Ops
  BY AtomicAssumption
<1>1. CASE Reset(t) \/ (\E o \in Ops : Call(t, o)) \/ Spin(t) \/ UnlockLoad(t) \/ Sleep(t)
  <2>1. /\ UNCHANGED <<word, ptr, arg, exp, snk>> /\ OthersStay(t)
        /\ pc[t] \in {"idle", "lock", "unlock", "sleep"}
        /\ pc'[t] \in {"drop_arg", "lock", "lock_cas", "unlock_cas", "wait_read", "asleep"}
        /\ op[t] = "exchanged" <=> op'[t] = "exchanged"
    BY <1>0, <1>1 DEF Reset, Call, Spin, UnlockLoad, Sleep, Goto, GotoIn, Idle, shared, values, sleep,
       IInv, TypeOK, ControlOK, OpOK, OthersStay
  <2> QED BY <2>1, QuietStep
<1>2. CASE LockCas(t)
  <2>1. /\ UNCHANGED <<ptr, arg, exp, snk>> /\ OthersStay(t) /\ word'.pi = word.pi
        /\ pc[t] = "lock_cas" /\ pc'[t] \in {"lock_cas", "held"} /\ op'[t] = op[t]
    BY <1>0, <1>2 DEF LockCas, Goto, values, sleep, IInv, TypeOK, OthersStay, Words
  <2> QED BY <2>1, QuietStep
<1>3. CASE Compare(t) \/ CompareOld(t) \/ Recheck(t) \/ WaitRead(t)
  <2>1. /\ UNCHANGED <<word, ptr, arg, exp, snk>> /\ OthersStay(t)
        /\ pc[t] \in {"held", "wait_read"}
        /\ pc'[t] \in {"set_ptr", "take_current", "unlock", "drop_arg", "sleep", "lock"}
        /\ op[t] \in {"cas", "wait", "recheck"} /\ op'[t] \in {"cas", "wait", "woken", "same", "recheck"}
    BY <1>0, <1>3 DEF Compare, CompareOld, Recheck, WaitRead, Goto, GotoIn, At, shared, values, sleep,
       IInv, TypeOK, ControlOK, OpOK, OthersStay
  <2> QED BY <2>1, QuietStep
<1>4. CASE DropSink(t)
  <2>1. /\ UNCHANGED <<word, ptr, arg, exp, op>> /\ OthersStay(t)
        /\ pc[t] = "drop_snk" /\ pc'[t] = "drop_arg"
    BY <1>0, <1>4 DEF DropSink, Goto, shared, sleep, IInv, TypeOK, OthersStay
  <2> QED BY <2>1, QuietStep
<1> QED BY <1>1, <1>2, <1>3, <1>4

LEMMA UnlockIsQuiet ==
  ASSUME IInv, NEW t \in Threads, UnlockCas(t) \/ UnlockSub(t)
  PROVE  UNCHANGED Seen
<1>1. pc[t] \in {"unlock", "unlock_cas"} /\ word' = Unlocked(word.pi) /\ AfterUnlock(t)
      /\ UNCHANGED <<ptr, arg, exp, snk>>
  BY DEF UnlockCas, UnlockSub, values, IInv, LockIsExclusive
<1>2. /\ OthersStay(t)
      /\ pc'[t] \in {"idle", "drop_snk", "wait_read", "drop_arg", "sleep"}
      /\ op[t] # "exchanged" /\ op'[t] # "exchanged"
  BY <1>1 DEF AfterUnlock, Return, Goto, GotoIn, sleep, IInv, TypeOK, ControlOK, OpOK, OthersStay
<1>3. word'.pi = word.pi
  BY <1>1 DEF Unlocked
<1> QED BY <1>1, <1>2, <1>3, QuietStep

LEMMA NotifyIsQuiet ==
  ASSUME IInv, NEW t \in Threads, NotifyAll(t) \/ NotifyOne(t)
  PROVE  UNCHANGED Seen
<1>1. pc[t] \in {"idle", "notify"} /\ \E W \in SUBSET Asleep : Wake(t, W)
  BY DEF NotifyAll, NotifyOne, Idle
<1>2. PICK W \in SUBSET Asleep : Wake(t, W)
  BY <1>1
<1>3. /\ UNCHANGED <<word, ptr, arg, exp, snk, op>>
      /\ \A u \in Threads : pc'[u] = pc[u] \/ (/\ pc[u] \in {"asleep", "idle", "notify"}
                                              /\ pc'[u] \in {"wait_read", "idle"})
  BY <1>1, <1>2 DEF Wake, Asleep, shared, values
<1>4. \A u \in Threads : Argument(u)' = Argument(u) /\ Expected(u)' = Expected(u)
  BY <1>3 DEF Argument, Expected, At
<1>5. \A u \in Threads : pc'[u] = "swap_unlock" <=> pc[u] = "swap_unlock"
  BY <1>3
<1>6. Value' = Value
  <2>1. CASE \A u \in Threads : pc[u] # "swap_unlock"
    BY <1>3, <1>5, <2>1, ValuePlain, NewValuePlain
  <2>2. CASE \E u \in Threads : pc[u] = "swap_unlock"
    <3>1. PICK u \in Threads : pc[u] = "swap_unlock" /\ Holding(u)
      BY <2>2 DEF Holding, HoldingPcs
    <3>2. \A v \in Threads : pc[v] = "swap_unlock" => v = u
      BY <3>1, ValueOfHolder
    <3> QED BY <1>3, <1>5, <3>1, <3>2, ValueDuringSwap, NewValueDuringSwap
  <2> QED BY <2>1, <2>2
<1> QED BY <1>4, <1>6 DEF Seen, Arguments, Expecteds

-----------------------------------------------------------------------------
(* The steps that work on the value.                                       *)

LEMMA PairOf ==
  ASSUME NEW v \in Values
  PROVE  v = [ptr |-> v.ptr, pi |-> v.pi]
BY PartWrite

(* load() reads the value when it counts itself.                           *)
LEMMA ReadPtrIsQuiet ==
  ASSUME IInv, NEW t \in Threads, ReadPtr(t)
  PROVE  UNCHANGED Seen
<1>1. /\ op[t] = "load" /\ pc[t] = "held" /\ pc' = [pc EXCEPT ![t] = "add_ref"]
      /\ arg' = [arg EXCEPT ![t].ptr = ptr]
      /\ UNCHANGED <<word, ptr, exp, snk, cur, seen, op>>
  BY DEF ReadPtr, At, Goto, shared, sleep
<1>2. OthersStay(t) /\ pc'[t] = "add_ref"
  BY <1>1 DEF IInv, TypeOK, OthersStay
<1>3. Value' = Value
  BY <1>1, <1>2, ValueKept
<1>4. HandsOK(t)
  BY DEF IInv, ValuesOK
<1>5. Argument(t) = NoValue /\ Argument(t)' = NoValue
  BY <1>1, <1>2, <1>4 DEF Argument, At, HandsOK
<1>6. Expected(t)' = Expected(t)
  BY <1>1, <1>2 DEF Expected, At
<1> QED BY <1>1, <1>2, <1>3, <1>5, <1>6, OthersSee, SeenByOne DEF Seen

LEMMA LoadAddRefLoads ==
  ASSUME IInv, NEW t \in Threads, LoadAddRef(t)
  PROVE  Register!Load(t)
<1>1. /\ op[t] = "load" /\ pc[t] = "add_ref" /\ pc' = [pc EXCEPT ![t] = "unlock"]
      /\ arg' = [arg EXCEPT ![t].pi = cur[t]]
      /\ UNCHANGED <<word, ptr, exp, snk, cur, seen, op>>
  BY DEF LoadAddRef, At, Goto, shared, sleep
<1>2. OthersStay(t) /\ pc'[t] = "unlock" /\ Holding(t)
  BY <1>1 DEF IInv, TypeOK, OthersStay, Holding, HoldingPcs
<1>3. Value' = Value /\ Value = [ptr |-> ptr, pi |-> word.pi]
  BY <1>1, <1>2, ValueKept, ValueOfHolder
<1>4. HandsOK(t) /\ cur[t] = word.pi /\ arg[t] \in Values /\ word.pi \in BlocksOrNo
  BY <1>2 DEF IInv, ValuesOK, LockIsExclusive, TypeOK, Words
<1>5. arg'[t] = [ptr |-> ptr, pi |-> word.pi]
  <2>1. arg[t] = [ptr |-> ptr, pi |-> NoBlock]
    BY <1>1, <1>4 DEF HandsOK, At
  <2>2. arg'[t] = [arg[t] EXCEPT !.pi = word.pi]
    BY <1>1, <1>4 DEF IInv, TypeOK
  <2> QED BY <1>4, <2>1, <2>2, PartWrite
<1>6. Argument(t) = NoValue /\ Argument(t)' = Value
  BY <1>1, <1>2, <1>3, <1>5 DEF Argument, At
<1>7. Expected(t)' = Expected(t)
  BY <1>1, <1>2 DEF Expected, At
<1>8. /\ Arguments[t] = NoValue /\ Arguments' = [Arguments EXCEPT ![t] = Value]
      /\ Expecteds' = Expecteds
  BY <1>1, <1>2, <1>6, <1>7, OthersSee, SeenByOne
<1> QED BY <1>3, <1>8 DEF Register!Load, Arguments, Expecteds

(* swap() and a successful compare-exchange change _M_ptr first and the    *)
(* value with the word.                                                    *)
LEMMA SwapPtrIsQuiet ==
  ASSUME IInv, NEW t \in Threads, SwapPtr(t)
  PROVE  UNCHANGED Seen
<1>1. /\ op[t] = "swap" /\ pc[t] = "held" /\ pc' = [pc EXCEPT ![t] = "swap_unlock"]
      /\ ptr' = arg[t].ptr /\ arg' = [arg EXCEPT ![t].ptr = ptr]
      /\ UNCHANGED <<word, exp, snk, cur, seen, op>>
  BY DEF SwapPtr, At, Goto, sleep
<1>2. OthersStay(t) /\ pc'[t] = "swap_unlock" /\ Holding(t) /\ arg[t] \in Values /\ ptr \in Ptrs
  BY <1>1 DEF IInv, TypeOK, OthersStay, Holding, HoldingPcs
<1>3. arg'[t] = [ptr |-> ptr, pi |-> arg[t].pi]
  <2>1. arg'[t] = [arg[t] EXCEPT !.ptr = ptr]
    BY <1>1 DEF IInv, TypeOK
  <2> QED BY <1>2, <2>1, PartWrite
<1>4. /\ Value = [ptr |-> ptr, pi |-> word.pi]
      /\ \A u \in Threads : pc'[u] = "swap_unlock" => u = t
  BY <1>1, <1>2, ValueOfHolder DEF OthersStay
<1>5. Value' = [ptr |-> arg'[t].ptr, pi |-> word.pi]
  BY <1>1, <1>2, <1>4, NewValueDuringSwap
<1>6. Argument(t) = arg[t] /\ Argument(t)' = [ptr |-> arg[t].ptr, pi |-> arg[t].pi]
  BY <1>1, <1>2, <1>3 DEF Argument, At
<1>7. Argument(t)' = Argument(t)
  BY <1>2, <1>6, PairOf
<1>8. Expected(t)' = Expected(t)
  BY <1>1, <1>2 DEF Expected, At
<1> QED BY <1>2, <1>3, <1>4, <1>5, <1>7, <1>8, OthersSee, SeenByOne DEF Seen

LEMMA SetPtrIsQuiet ==
  ASSUME IInv, NEW t \in Threads, SetPtr(t)
  PROVE  UNCHANGED Seen
<1>1. /\ op[t] = "cas" /\ pc[t] = "set_ptr" /\ pc' = [pc EXCEPT ![t] = "swap_unlock"]
      /\ ptr' = arg[t].ptr
      /\ UNCHANGED <<word, arg, exp, snk, cur, seen, op>>
  BY DEF SetPtr, At, Goto, values, sleep
<1>2. OthersStay(t) /\ pc'[t] = "swap_unlock" /\ Holding(t)
  BY <1>1 DEF IInv, TypeOK, OthersStay, Holding, HoldingPcs
<1>3. HandsOK(t)
  BY DEF IInv, ValuesOK
<1>4. /\ Value = [ptr |-> ptr, pi |-> word.pi]
      /\ \A u \in Threads : pc'[u] = "swap_unlock" => u = t
  BY <1>1, <1>2, ValueOfHolder DEF OthersStay
<1>5. Value' = [ptr |-> exp[t].ptr, pi |-> word.pi]
  BY <1>1, <1>2, <1>4, NewValueDuringSwap
<1>6. Value' = Value
  BY <1>1, <1>3, <1>4, <1>5 DEF HandsOK, At
<1>7. Argument(t)' = Argument(t) /\ Expected(t)' = Expected(t)
  BY <1>1, <1>2 DEF Argument, Expected, At
<1> QED BY <1>2, <1>6, <1>7, OthersSee, SeenByOne DEF Seen

LEMMA SwapUnlockExchanges ==
  ASSUME IInv, NEW t \in Threads, SwapUnlock(t)
  PROVE  Register!Exchange(t) \/ Register!CompareExchange(t)
<1>1. /\ pc[t] = "swap_unlock" /\ word' = Unlocked(arg[t].pi)
      /\ arg' = [arg EXCEPT ![t].pi = word.pi]
      /\ UNCHANGED <<ptr, exp, snk>>
      /\ \/ /\ op[t] = "swap" /\ pc' = [pc EXCEPT ![t] = "notify"] /\ op' = [op EXCEPT ![t] = "none"]
            /\ cur' = [cur EXCEPT ![t] = NoBlock] /\ seen' = [seen EXCEPT ![t] = Unlocked(NoBlock)]
         \/ /\ op[t] = "cas" /\ pc' = [pc EXCEPT ![t] = "drop_arg"]
            /\ op' = [op EXCEPT ![t] = "exchanged"] /\ UNCHANGED <<cur, seen>>
  BY DEF SwapUnlock, Goto, GotoIn, Return, sleep
<1>2. /\ OthersStay(t) /\ Holding(t) /\ arg[t] \in Values /\ exp[t] \in Values
      /\ word.pi \in BlocksOrNo /\ word'.pi = arg[t].pi
  BY <1>1 DEF IInv, TypeOK, OthersStay, Holding, HoldingPcs, Unlocked, Words
<1>3. arg'[t] = [ptr |-> arg[t].ptr, pi |-> word.pi]
  <2>1. arg'[t] = [arg[t] EXCEPT !.pi = word.pi]
    BY <1>1 DEF IInv, TypeOK
  <2> QED BY <1>2, <2>1, PartWrite
<1>4. HandsOK(t)
  BY DEF IInv, ValuesOK
<1>5. /\ Value = [ptr |-> IF op[t] = "swap" THEN arg[t].ptr ELSE exp[t].ptr, pi |-> word.pi]
      /\ \A u \in Threads : pc[u] = "swap_unlock" => u = t
  BY <1>1, <1>2, ValueOfHolder
<1>6. pc'[t] # "swap_unlock" /\ op'[t] # "swap" /\ pc'[t] # "add_ref"
  BY <1>1 DEF IInv, TypeOK
<1>7. Value' = [ptr |-> ptr, pi |-> arg[t].pi]
  <2>1. \A u \in Threads : pc'[u] # "swap_unlock"
    BY <1>2, <1>5, <1>6 DEF OthersStay
  <2> QED BY <1>1, <1>2, <2>1, NewValuePlain
<1>8. Expected(t) = exp[t] /\ Expected(t)' = exp[t]
  BY <1>1, <1>6 DEF Expected, At
<1>9. CASE op[t] = "swap"
  <2>1. Argument(t) = Value' /\ Argument(t)' = Value
    BY <1>1, <1>3, <1>5, <1>6, <1>7, <1>9 DEF Argument, At, IInv, TypeOK
  <2>2. /\ Value' = Arguments[t] /\ Arguments' = [Arguments EXCEPT ![t] = Value]
        /\ Expecteds' = Expecteds
    BY <1>2, <1>8, <2>1, OthersSee, SeenByOne
  <2> QED BY <2>2 DEF Register!Exchange, Arguments, Expecteds
<1>10. CASE op[t] = "cas"
  <2>1. Argument(t) = arg[t] /\ Argument(t)' = NoValue
    BY <1>1, <1>6, <1>10 DEF Argument, At, IInv, TypeOK
  <2>2. ptr = arg[t].ptr /\ word.pi = exp[t].pi
    BY <1>1, <1>4, <1>10 DEF HandsOK, At
  <2>3. Value' = arg[t] /\ Value = exp[t]
    BY <1>2, <1>5, <1>7, <1>10, <2>2, PairOf
  <2>4. /\ Value = Expecteds[t] /\ Value' = Arguments[t]
        /\ Arguments' = [Arguments EXCEPT ![t] = NoValue] /\ Expecteds' = Expecteds
    BY <1>2, <1>8, <2>1, <2>3, OthersSee, SeenByOne
  <2> QED BY <2>4 DEF Register!CompareExchange, Arguments, Expecteds
<1> QED BY <1>1, <1>9, <1>10

(* A failed compare-exchange hands the value out when it counts itself;    *)
(* until then __sink has what the caller expected.                         *)
LEMMA TakeCurrentIsQuiet ==
  ASSUME IInv, NEW t \in Threads, TakeCurrent(t)
  PROVE  UNCHANGED Seen
<1>1. /\ op[t] = "cas" /\ pc[t] = "take_current" /\ pc' = [pc EXCEPT ![t] = "add_ref"]
      /\ snk' = [snk EXCEPT ![t] = exp[t]] /\ exp' = [exp EXCEPT ![t] = [ptr |-> ptr, pi |-> NoBlock]]
      /\ UNCHANGED <<word, ptr, arg, cur, seen, op>>
  BY DEF TakeCurrent, At, Goto, shared, sleep
<1>2. OthersStay(t) /\ pc'[t] = "add_ref" /\ snk'[t] = exp[t]
  BY <1>1 DEF IInv, TypeOK, OthersStay
<1>3. Value' = Value
  BY <1>1, <1>2, ValueKept
<1>4. Argument(t)' = Argument(t) /\ Expected(t)' = Expected(t)
  BY <1>1, <1>2 DEF Argument, Expected, At
<1> QED BY <1>1, <1>2, <1>3, <1>4, OthersSee, SeenByOne DEF Seen

LEMMA ExpectedAddRefFails ==
  ASSUME IInv, NEW t \in Threads, ExpectedAddRef(t)
  PROVE  Register!CompareExchange(t)
<1>1. /\ op[t] = "cas" /\ pc[t] = "add_ref" /\ pc' = [pc EXCEPT ![t] = "unlock"]
      /\ exp' = [exp EXCEPT ![t].pi = cur[t]]
      /\ UNCHANGED <<word, ptr, arg, snk, cur, seen, op>>
  BY DEF ExpectedAddRef, At, Goto, shared, sleep
<1>2. OthersStay(t) /\ pc'[t] = "unlock" /\ Holding(t)
  BY <1>1 DEF IInv, TypeOK, OthersStay, Holding, HoldingPcs
<1>3. Value' = Value /\ Value = [ptr |-> ptr, pi |-> word.pi]
  BY <1>1, <1>2, ValueKept, ValueOfHolder
<1>4. HandsOK(t) /\ cur[t] = word.pi /\ exp[t] \in Values /\ word.pi \in BlocksOrNo
  BY <1>2 DEF IInv, ValuesOK, LockIsExclusive, TypeOK, Words
<1>5. exp'[t] = [ptr |-> ptr, pi |-> word.pi]
  <2>1. exp[t] = [ptr |-> ptr, pi |-> NoBlock]
    BY <1>1, <1>4 DEF HandsOK, At
  <2>2. exp'[t] = [exp[t] EXCEPT !.pi = word.pi]
    BY <1>1, <1>4 DEF IInv, TypeOK
  <2> QED BY <1>4, <2>1, <2>2, PartWrite
<1>6. Expected(t) = snk[t] /\ Expected(t)' = Value /\ Argument(t)' = Argument(t)
  BY <1>1, <1>2, <1>3, <1>5 DEF Argument, Expected, At
<1>7. Value # snk[t]
  BY <1>1, <1>3, <1>4 DEF HandsOK, At
<1>8. /\ Value # Expecteds[t] /\ Expecteds' = [Expecteds EXCEPT ![t] = Value]
      /\ Arguments' = Arguments
  BY <1>1, <1>2, <1>6, <1>7, OthersSee, SeenByOne
<1> QED BY <1>3, <1>8 DEF Register!CompareExchange, Arguments, Expecteds

-----------------------------------------------------------------------------
(* What a thread does with its own values, and the end of the object.      *)

LEMMA OwnStep ==
  ASSUME IInv, NEW t \in Threads, OthersStay(t), UNCHANGED ptr, word'.pi = word.pi,
         pc[t] \in {"idle", "drop_arg"}, pc'[t] \in {"idle", "drop_arg", "notify"},
         op[t] # "exchanged", op'[t] # "exchanged"
  PROVE  /\ Value' = Value
         /\ Arguments[t] = arg[t] /\ Arguments' = [Arguments EXCEPT ![t] = arg'[t]]
         /\ Expecteds[t] = exp[t] /\ Expecteds' = [Expecteds EXCEPT ![t] = exp'[t]]
         /\ arg'[t] = arg[t] => Arguments' = Arguments
         /\ exp'[t] = exp[t] => Expecteds' = Expecteds
<1>1. /\ Argument(t) = arg[t] /\ Argument(t)' = arg'[t]
      /\ Expected(t) = exp[t] /\ Expected(t)' = exp'[t]
  BY DEF Argument, Expected, At
<1> QED BY <1>1, OthersSee, SeenByOne, ValueKept

(* The destructor of a parameter: after an exchange there is nothing left  *)
(* in it that the register knows of.                                       *)
LEMMA DropArgDrops ==
  ASSUME IInv, NEW t \in Threads, DropArg(t)
  PROVE  Register!Drop(t) \/ UNCHANGED Seen
<1>1. /\ pc[t] = "drop_arg" /\ op'[t] = "none" /\ pc'[t] \in {"idle", "notify"}
      /\ arg'[t] = NoValue /\ OthersStay(t)
      /\ UNCHANGED <<word, ptr, exp, snk>>
  BY DEF DropArg, Return, shared, IInv, TypeOK, OthersStay
<1>2. CASE op[t] = "exchanged"
  <2>1. /\ Argument(t) = NoValue /\ Argument(t)' = NoValue
        /\ Expected(t)' = Expected(t)
    BY <1>1, <1>2 DEF Argument, Expected, At
  <2> QED BY <1>1, <2>1, OthersSee, SeenByOne, ValueKept DEF Seen
<1>3. CASE op[t] # "exchanged"
  BY <1>1, <1>3, OwnStep DEF Register!Drop, Arguments, Expecteds
<1> QED BY <1>2, <1>3

(* A block that is not alive is in nobody's hands.                         *)
LEMMA DeadIsFresh ==
  ASSUME IInv, NEW b \in Blocks, b \notin alive
  PROVE  Register!Fresh(b)
<1>1. /\ word.pi # b
      /\ \A u \in Threads : arg[u].pi # b /\ exp[u].pi # b /\ snk[u].pi # b
  BY HeldIsAlive DEF IInv
<1>2. Value.pi # b
  BY <1>1 DEF Value
<1>3. b # NoBlock /\ NoValue.pi = NoBlock
  BY AtomicAssumption, NoValueType
<1>4. ASSUME NEW u \in Threads
      PROVE  Argument(u).pi # b /\ Expected(u).pi # b
  BY <1>1, <1>3 DEF Argument, Expected
<1> QED BY <1>2, <1>4 DEF Register!Fresh

LEMMA ClientsOwnValues ==
  ASSUME IInv, NEW t \in Threads
  PROVE  /\ \A b \in Blocks, i \in Parts :
              Make(t, b, i) => Register!Make(t, [ptr |-> <<b, i>>, pi |-> b])
         /\ \A i \in Parts : Alias(t, i) => \E b \in Blocks : Register!Alias(t, <<b, i>>)
         /\ CopyToExpected(t) => Register!CopyToExpected(t)
         /\ MoveFromExpected(t) => Register!MoveFromExpected(t)
<1>0. /\ pc[t] = "idle" => op[t] = "none"
      /\ arg \in [Threads -> Values] /\ exp \in [Threads -> Values] /\ arg[t] \in Values
  BY DEF IInv, ControlOK, OpOK, TypeOK
<1>1. ASSUME NEW b \in Blocks, NEW i \in Parts, Make(t, b, i)
      PROVE  Register!Make(t, [ptr |-> <<b, i>>, pi |-> b])
  <2> DEFINE v == [ptr |-> <<b, i>>, pi |-> b]
  <2>1. /\ pc[t] = "idle" /\ arg[t] = NoValue /\ b \notin alive /\ arg' = [arg EXCEPT ![t] = v]
        /\ UNCHANGED <<word, ptr, exp, snk, pc, cur, seen, op>>
    BY <1>1 DEF Make, Idle, shared, sleep, control
  <2>2. arg'[t] = v /\ OthersStay(t) /\ v.pi = b
    BY <1>0, <2>1 DEF OthersStay
  <2> HIDE DEF v
  <2>3. /\ Value' = Value /\ Arguments[t] = NoValue /\ Arguments' = [Arguments EXCEPT ![t] = v]
        /\ Expecteds' = Expecteds
    BY <1>0, <2>1, <2>2, OwnStep
  <2>4. Register!Fresh(v.pi)
    BY <2>1, <2>2, DeadIsFresh
  <2>5. Register!Make(t, v)
    BY <2>3, <2>4 DEF Register!Make, Arguments, Expecteds
  <2> QED BY <2>5 DEF v
<1>2. ASSUME NEW i \in Parts, Alias(t, i)
      PROVE  \E b \in Blocks : Register!Alias(t, <<b, i>>)
  <2> DEFINE p == <<arg[t].pi, i>>
  <2>1. /\ pc[t] = "idle" /\ arg[t] # NoValue /\ arg' = [arg EXCEPT ![t].ptr = p]
        /\ UNCHANGED <<word, ptr, exp, snk, pc, cur, seen, op>>
    BY <1>2 DEF Alias, Idle, shared, objects, sleep, control
  <2>2. arg'[t] = [arg[t] EXCEPT !.ptr = p] /\ OthersStay(t)
    BY <1>0, <2>1 DEF OthersStay
  <2>3. /\ Value' = Value /\ Arguments[t] = arg[t] /\ Arguments' = [Arguments EXCEPT ![t] = arg'[t]]
        /\ Expecteds' = Expecteds
    BY <1>0, <2>1, <2>2, OwnStep
  <2>4. arg[t].pi \in Blocks
    <3>1. HandsOK(t)
      BY DEF IInv, ValuesOK
    <3>2. Whole(arg[t])
      BY <1>0, <2>1, <3>1 DEF HandsOK, At
    <3>3. arg[t].pi \in BlocksOrNo /\ arg[t] = [ptr |-> arg[t].ptr, pi |-> arg[t].pi]
      BY <1>0, PartWrite, PairOf
    <3> QED BY <2>1, <3>2, <3>3 DEF Whole, NoValue, BlocksOrNo
  <2> HIDE DEF p
  <2>5. Arguments' = [Arguments EXCEPT ![t].ptr = p]
    BY <2>2, <2>3 DEF Arguments
  <2>6. Register!Alias(t, p)
    BY <2>1, <2>3, <2>5 DEF Register!Alias, Arguments, Expecteds
  <2> QED BY <2>4, <2>6 DEF p
<1>3. ASSUME CopyToExpected(t)
      PROVE  Register!CopyToExpected(t)
  <2>1. /\ pc[t] = "idle" /\ exp' = [exp EXCEPT ![t] = arg[t]]
        /\ UNCHANGED <<word, ptr, arg, snk, pc, cur, seen, op>>
    BY <1>3 DEF CopyToExpected, Idle, shared, sleep, control
  <2>2. exp'[t] = arg[t] /\ OthersStay(t)
    BY <1>0, <2>1 DEF OthersStay
  <2>3. /\ Value' = Value /\ Arguments[t] = arg[t] /\ Arguments' = Arguments
        /\ Expecteds' = [Expecteds EXCEPT ![t] = arg[t]]
    BY <1>0, <2>1, <2>2, OwnStep
  <2> QED BY <2>3 DEF Register!CopyToExpected, Arguments, Expecteds
<1>4. ASSUME MoveFromExpected(t)
      PROVE  Register!MoveFromExpected(t)
  <2>1. /\ pc[t] = "idle" /\ arg' = [arg EXCEPT ![t] = exp[t]]
        /\ exp' = [exp EXCEPT ![t] = NoValue]
        /\ UNCHANGED <<word, ptr, snk, pc, cur, seen, op>>
    BY <1>4 DEF MoveFromExpected, Idle, shared, objects, sleep, control
  <2>2. arg'[t] = exp[t] /\ exp'[t] = NoValue /\ OthersStay(t)
    BY <1>0, <2>1 DEF OthersStay
  <2>3. /\ Value' = Value /\ Expecteds[t] = exp[t]
        /\ Arguments' = [Arguments EXCEPT ![t] = exp[t]]
        /\ Expecteds' = [Expecteds EXCEPT ![t] = NoValue]
    BY <1>0, <2>1, <2>2, OwnStep
  <2> QED BY <2>3 DEF Register!MoveFromExpected, Arguments, Expecteds
<1> QED BY <1>1, <1>2, <1>3, <1>4

LEMMA DestructClears ==
  ASSUME IInv, NEW t \in Threads, Destruct(t)
  PROVE  Register!Clear
<1>1. /\ \A u \in Threads : pc[u] # "swap_unlock"
      /\ word'.pi = NoBlock /\ ptr' = NoPtr
      /\ UNCHANGED <<arg, exp, snk, pc, op>>
  BY DEF Destruct, Unlocked, values, control
<1>2. Value' = NoValue
  BY <1>1, NewValuePlain DEF NoValue
<1>3. \A u \in Threads : Argument(u)' = Argument(u) /\ Expected(u)' = Expected(u)
  BY <1>1 DEF Argument, Expected, At
<1> QED BY <1>2, <1>3 DEF Register!Clear

-----------------------------------------------------------------------------
(* The refinement.                                                         *)

LEMMA InitRefines == Init => Register!Init
<1> SUFFICES ASSUME Init PROVE Register!Init
  OBVIOUS
<1>1. Value = NoValue
  BY ValuePlain DEF Init, Unlocked, NoValue
<1>2. \A t \in Threads : Argument(t) = NoValue /\ Expected(t) = NoValue
  BY DEF Init, Argument, Expected, At
<1> QED BY <1>1, <1>2 DEF Register!Init

LEMMA NextRefines == IInv /\ [Next]_vars => [Register!Next]_(Register!state)
<1> SUFFICES ASSUME IInv, [Next]_vars
             PROVE  Register!Next \/ UNCHANGED Seen
  BY DEF Seen, Register!state, Arguments, Expecteds
<1>1. CASE UNCHANGED vars
  <2>1. \A u \in Threads : Argument(u)' = Argument(u) /\ Expected(u)' = Expected(u)
    BY <1>1 DEF vars, Argument, Expected, At
  <2>2. Value' = Value
    BY <1>1 DEF vars, Value
  <2> QED BY <2>1, <2>2 DEF Seen, Arguments, Expecteds
<1>2. CASE Next
  <2>1. PICK t \in Threads : Client(t) \/ Step(t)
    BY <1>2 DEF Next
  <2>2. CASE Client(t)
    BY <2>2, ClientsOwnValues, DestructClears, ControlIsQuiet, NotifyIsQuiet
       DEF Client, Register!Next
  <2>3. CASE Step(t)
    BY <2>3, ControlIsQuiet, UnlockIsQuiet, NotifyIsQuiet, ReadPtrIsQuiet, LoadAddRefLoads,
       SwapPtrIsQuiet, SetPtrIsQuiet, SwapUnlockExchanges, TakeCurrentIsQuiet,
       ExpectedAddRefFails, DropArgDrops DEF Step, Register!Next
  <2> QED BY <2>1, <2>2, <2>3
<1> QED BY <1>1, <1>2

(* The two words behave as one register, for any number of threads: every  *)
(* step of the code is a step of AtomicValue, or changes nothing there.    *)
THEOREM TwoWordsAreOneValue == Spec => ImplementsAtomicValue
<1>1. Init => Register!Init
  BY InitRefines
<1>2. IInv /\ [Next]_vars => [Register!Next]_(Register!state)
  BY NextRefines
<1> QED BY <1>1, <1>2, InductiveInvariant, PTL DEF Spec, Register!Spec, ImplementsAtomicValue

-----------------------------------------------------------------------------
(* wait().                                                                 *)

WakesOnChange == \A t \in Threads : op[t] # "woken" /\ op'[t] = "woken" => Value # arg[t]

LEMMA NextWakesOnChange ==
  ASSUME ~Cxx26, IInv, [Next]_vars
  PROVE  WakesOnChange
<1> SUFFICES ASSUME NEW t \in Threads, op[t] # "woken", op'[t] = "woken"
             PROVE  Value # arg[t]
  BY DEF WakesOnChange
<1>1. CompareOld(t) \/ WaitRead(t) \/ Recheck(t)
  <2>1. PICK u \in Threads : Client(u) \/ Step(u)
    BY DEF Next, vars
  <2>2. /\ \A v \in Threads : \A o : op' = [op EXCEPT ![v] = o] =>
             op'[v] = o /\ \A w \in Threads \ {v} : op'[w] = op[w]
        /\ "woken" \notin Ops
    BY AtomicAssumption DEF IInv, TypeOK
  <2>3. CASE Client(u)
    <3>1. op' = op \/ \E o \in Ops : op' = [op EXCEPT ![u] = o]
      BY <2>3 DEF Client, Make, Alias, CopyToExpected, MoveFromExpected, Reset, Call, Destruct,
         NotifyOne, Wake, Goto, GotoIn, control
    <3> QED BY <2>2, <3>1
  <2>4. CASE Step(u)
    <3>1. CASE Spin(u) \/ LockCas(u) \/ UnlockLoad(u) \/ ReadPtr(u) \/ LoadAddRef(u) \/ SwapPtr(u)
      BY <3>1 DEF Spin, LockCas, UnlockLoad, ReadPtr, LoadAddRef, SwapPtr, Goto
    <3>2. CASE Compare(u) \/ SetPtr(u) \/ TakeCurrent(u) \/ ExpectedAddRef(u) \/ DropSink(u)
               \/ Sleep(u) \/ NotifyAll(u)
      BY <3>2 DEF Compare, SetPtr, TakeCurrent, ExpectedAddRef, DropSink, Sleep, NotifyAll, Wake, Goto
    <3>3. CASE UnlockCas(u) \/ UnlockSub(u) \/ SwapUnlock(u) \/ DropArg(u)
      <4>1. op' = op \/ \E o \in {"none", "wait", "exchanged"} : op' = [op EXCEPT ![u] = o]
        BY <3>3 DEF UnlockCas, UnlockSub, AfterUnlock, SwapUnlock, DropArg, Return, Goto, GotoIn, control
      <4> QED BY <2>2, <4>1
    <3>4. CASE CompareOld(u) \/ WaitRead(u) \/ Recheck(u)
      <4>1. op' = op \/ \E o : op' = [op EXCEPT ![u] = o]
        BY <3>4 DEF CompareOld, WaitRead, Recheck, Goto, GotoIn
      <4> QED BY <2>2, <3>4, <4>1
    <3> QED BY <2>4, <3>1, <3>2, <3>3, <3>4 DEF Step
  <2> QED BY <2>1, <2>3, <2>4
<1>2. CASE CompareOld(t) \/ Recheck(t)
  <2>1. Holding(t) /\ pc[t] # "swap_unlock"
    BY <1>2 DEF CompareOld, Recheck, At, Holding, HoldingPcs
  <2>2. ~Matches(t, arg[t])
    <3>1. ASSUME Matches(t, arg[t])
          PROVE  op' = op \/ op' = [op EXCEPT ![t] = "same"]
      BY <1>2, <3>1 DEF CompareOld, Recheck, Goto, GotoIn
    <3> QED BY <3>1 DEF IInv, TypeOK
  <2>3. Value = [ptr |-> ptr, pi |-> word.pi] /\ cur[t] = word.pi
    BY <2>1, ValueOfHolder DEF IInv, LockIsExclusive
  <2> QED BY <2>2, <2>3 DEF Matches
<1>3. CASE WaitRead(t)
  <2>1. word.pi # arg[t].pi
    BY <1>3 DEF WaitRead, Goto, GotoIn, IInv, TypeOK
  <2>2. Value.pi = word.pi
    BY DEF Value
  <2> QED BY <2>1, <2>2
<1> QED BY <1>1, <1>2, <1>3

(* Before C++26, wait(old) decides to return only on a value that is not   *)
(* old; what it compares without the lock is the block alone.              *)
THEOREM WaitReturns ==
  ASSUME ~Cxx26
  PROVE  Spec => WaitReturnsOnChange
<1>1. IInv /\ [Next]_vars => [WakesOnChange]_vars
  BY NextWakesOnChange
<1>2. WaitReturnsOnChange <=> [][WakesOnChange]_vars
  BY PTL DEF WaitReturnsOnChange, WakesOnChange
<1> QED BY <1>1, <1>2, InductiveInvariant, PTL DEF Spec
=============================================================================
