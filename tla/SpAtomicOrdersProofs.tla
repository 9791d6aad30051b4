------------------------ MODULE SpAtomicOrdersProofs ------------------------
(***************************************************************************)
(* The memory orders of _Sp_atomic for any number of threads: the history  *)
(* variables only watch SpAtomic, and who has the lock comes after the     *)
(* last write of _M_ptr.                                                   *)
(***************************************************************************)
EXTENDS SpAtomicOrders, SpAtomicProofs

(* Every step with its memory orders is a step of SpAtomic.                *)
LEMMA OrderedIsStep ==
  /\ OrdersInit => Init
  /\ [OrdersNext]_allVars => [Next]_vars
<1>1. OrdersInit => Init
  BY DEF OrdersInit
<1>2. ASSUME NEW t \in Threads, OrderedClient(t)
      PROVE  Client(t)
  BY <1>2 DEF OrderedClient, Client
<1>3. ASSUME NEW t \in Threads, OrderedLock(t)
      PROVE  Step(t)
  BY <1>3 DEF OrderedLock, Step
<1>4. ASSUME NEW t \in Threads, OrderedBody(t)
      PROVE  Step(t)
  BY <1>4 DEF OrderedBody, Step
<1>5. OrdersNext => Next
  BY <1>2, <1>3, <1>4 DEF OrdersNext, OrderedStep, Next
<1> QED
  BY <1>1, <1>5 DEF allVars

(* What is proved of SpAtomic holds with the orders too.                   *)
THEOREM OrdersOnlyWatch == OrdersSpec => Spec
<1>1. OrdersInit => Init
  BY OrderedIsStep
<1>2. [OrdersNext]_allVars => [Next]_vars
  BY OrderedIsStep
<1> QED
  BY <1>1, <1>2, PTL DEF OrdersSpec, Spec

-----------------------------------------------------------------------------
(* Where the last write of _M_ptr is known.                                *)

Known == Threads \cup {Write}

OrdersTypeOK ==
  /\ reads \subseteq Threads /\ carried \subseteq Known
  /\ knows \in [Threads -> SUBSET Known] /\ counted \in [Blocks -> SUBSET Known]

Everybody == \A t \in Threads : Write \in knows[t]

(* Who is about to swap the word has written _M_ptr just now, and will     *)
(* release it; else it is in the word, or there was none but the first.    *)
WriteIsKept ==
  \/ Write \in carried
  \/ Everybody
  \/ \E t \in Threads : pc[t] = "swap_unlock"

OInv == IInv /\ OrdersTypeOK /\ LockShowsLastWrite /\ WriteIsKept

(* What was known of the write still is.                                   *)
NothingForgotten ==
  /\ OrdersTypeOK'
  /\ \A t \in Threads : Write \in knows[t] => Write \in knows'[t]
  /\ Write \in carried => Write \in carried'

(* All operations with an order but the writes of _M_ptr.                  *)
LEMMA OrdersAdd ==
  ASSUME OrdersTypeOK, NEW t \in Threads,
         \/ UNCHANGED orders
         \/ ReadAccess(t)
         \/ \E b \in BlocksOrNo : ChangeCount(t, b)
         \/ \E o : ChangeWord(t, o) \/ ReadWord(t, o)
  PROVE  NothingForgotten
<1> USE OrdersAssumption DEF NothingForgotten, OrdersTypeOK, Known
<1>1. CASE UNCHANGED orders
  BY <1>1 DEF orders
<1>2. CASE ReadAccess(t)
  BY <1>2 DEF ReadAccess
<1>3. CASE \E b \in BlocksOrNo : ChangeCount(t, b)
  <2>1. PICK b \in BlocksOrNo : ChangeCount(t, b)
    BY <1>3
  <2>2. CASE b = NoBlock
    BY <2>1, <2>2, <1>1 DEF ChangeCount
  <2>3. CASE b # NoBlock
    BY <2>1, <2>3 DEF ChangeCount, BlocksOrNo
  <2> QED BY <2>2, <2>3
<1>4. CASE \E o : ChangeWord(t, o) \/ ReadWord(t, o)
  BY <1>4 DEF ChangeWord, ReadWord
<1> QED BY <1>1, <1>2, <1>3, <1>4

(* Steps that take no lock and do not swap the word.                       *)
LEMMA LockStaysShown ==
  ASSUME OInv, NothingForgotten,
         \A u \in Threads : Holding(u)' => Holding(u),
         \A u \in Threads : pc[u] = "swap_unlock" => pc'[u] = "swap_unlock"
  PROVE  OrdersTypeOK' /\ LockShowsLastWrite' /\ WriteIsKept'
BY DEF OInv, NothingForgotten, LockShowsLastWrite, WriteIsKept, Everybody

(* The places of the threads after such a step.                            *)
LEMMA PlacesStay ==
  ASSUME IInv, NEW t \in Threads, NEW q, pc' = [pc EXCEPT ![t] = q],
         q \in HoldingPcs => Holding(t), pc[t] # "swap_unlock"
  PROVE  /\ \A u \in Threads : Holding(u)' => Holding(u)
         /\ \A u \in Threads : pc[u] = "swap_unlock" => pc'[u] = "swap_unlock"
BY DEF IInv, TypeOK, Holding

LEMMA ClientShows ==
  ASSUME OInv, NEW t \in Threads, OrderedClient(t)
  PROVE  OrdersTypeOK' /\ LockShowsLastWrite' /\ WriteIsKept'
<1>1. IInv /\ OrdersTypeOK
  BY DEF OInv
<1>2. CASE Destruct(t) /\ Alone
  BY <1>2, OrdersAssumption
     DEF Alone, OrdersTypeOK, Known, LockShowsLastWrite, WriteIsKept, Everybody, Nobody
<1>3. CASE ~(Destruct(t) /\ Alone)
  <2>1. NothingForgotten
    <3>1. CASE \E b \in Blocks, i \in Parts : Make(t, b, i) /\ ChangeCount(t, b)
      BY <1>1, <3>1, OrdersAdd DEF BlocksOrNo
    <3>2. CASE CopyToExpected(t) /\ ChangeCount(t, arg[t].pi)
      <4>1. arg[t].pi \in BlocksOrNo
        BY <1>1 DEF IInv, TypeOK, Values
      <4> QED BY <1>1, <3>2, <4>1, OrdersAdd
    <3>3. CASE UNCHANGED orders
      BY <1>1, <3>3, OrdersAdd
    <3> QED BY <1>3, <3>1, <3>2, <3>3 DEF OrderedClient
  <2>2. \/ pc' = pc
        \/ \E q \in {"drop_arg", "lock"} : pc' = [pc EXCEPT ![t] = q] /\ pc[t] = "idle"
        \/ NotifyOne(t)
    BY <1>3 DEF OrderedClient, Make, Alias, CopyToExpected, MoveFromExpected, Reset, Call,
                control, Goto, GotoIn, Idle
  <2>3. /\ \A u \in Threads : Holding(u)' => Holding(u)
        /\ \A u \in Threads : pc[u] = "swap_unlock" => pc'[u] = "swap_unlock"
    <3>1. CASE pc' = pc
      BY <3>1 DEF Holding
    <3>2. CASE \E q \in {"drop_arg", "lock"} : pc' = [pc EXCEPT ![t] = q] /\ pc[t] = "idle"
      BY <1>1, <3>2, PlacesStay DEF HoldingPcs
    <3>3. CASE NotifyOne(t)
      BY <3>3 DEF NotifyOne, Wake, Asleep, Idle, Holding, HoldingPcs
    <3> QED BY <2>2, <3>1, <3>2, <3>3
  <2> QED BY <2>1, <2>3, LockStaysShown
<1> QED BY <1>2, <1>3

(* lock() acquires what the word carries.                                  *)
LEMMA LockCasShows ==
  ASSUME OInv, NEW t \in Threads, LockCas(t),
         \/ word' = word /\ UNCHANGED orders
         \/ word' # word /\ \E o \in LockOrders(t) : ChangeWord(t, o)
  PROVE  OrdersTypeOK' /\ LockShowsLastWrite' /\ WriteIsKept'
<1>1. /\ IInv /\ OrdersTypeOK /\ LockShowsLastWrite /\ WriteIsKept
      /\ pc[t] = "lock_cas" /\ pc[t] \notin HoldingPcs
  BY DEF OInv, LockCas, HoldingPcs
<1>2. NothingForgotten
  BY <1>1, OrdersAdd
<1>3. CASE word' = word
  <2>1. pc' = pc
    <3>1. word # [word EXCEPT !.locked = TRUE] \/ word # Unlocked(cur[t])
      BY <1>1 DEF IInv, TypeOK, Words, Unlocked
    <3> QED BY <1>3, <3>1 DEF LockCas
  <2> QED BY <1>2, <2>1, LockStaysShown DEF Holding
<1>4. CASE word' # word
  <2>1. word = Unlocked(cur[t]) /\ pc' = [pc EXCEPT ![t] = "held"]
    BY <1>4 DEF LockCas, Goto
  <2>2. ~word.locked
    BY <2>1 DEF Unlocked
  <2>3. \A u \in Threads : ~Holding(u) /\ pc[u] # "swap_unlock"
    BY <1>1, <2>2 DEF IInv, LockIsExclusive, Holding, HoldingPcs
  <2>4. Write \in carried \/ Everybody
    BY <1>1, <2>3 DEF WriteIsKept
  <2>5. Write \in knows'[t]
    BY <1>1, <1>4, <2>4
       DEF LockOrders, ChangeWord, Acquires, OrdersTypeOK, Everybody
  <2>6. \A u \in Threads : Holding(u)' => u = t
    BY <1>1, <2>1, <2>3 DEF IInv, TypeOK, Holding
  <2> QED
    BY <1>2, <2>4, <2>5, <2>6 DEF NothingForgotten, LockShowsLastWrite, WriteIsKept, Everybody
<1> QED BY <1>3, <1>4

(* A write of _M_ptr is known to the writer alone, who has the lock,       *)
LEMMA WriteShows ==
  ASSUME OInv, NEW t \in Threads, SwapPtr(t) \/ SetPtr(t), WriteAccess(t)
  PROVE  OrdersTypeOK' /\ LockShowsLastWrite' /\ WriteIsKept'
<1>1. /\ IInv /\ Holding(t) /\ pc' = [pc EXCEPT ![t] = "swap_unlock"]
  BY DEF OInv, SwapPtr, SetPtr, At, Goto, Holding, HoldingPcs
<1>2. \A u \in Threads : Holding(u) => u = t
  BY <1>1 DEF IInv, LockIsExclusive
<1>3. /\ \A u \in Threads : Holding(u)' => u = t
      /\ pc'[t] = "swap_unlock"
  BY <1>1, <1>2 DEF IInv, TypeOK, Holding
<1> QED
  BY <1>3, OrdersAssumption
     DEF WriteAccess, OrdersTypeOK, Known, LockShowsLastWrite, WriteIsKept, Nobody

(* and whose exchange of the word releases it.                             *)
LEMMA SwapUnlockShows ==
  ASSUME OInv, NEW t \in Threads, SwapUnlock(t), \E o \in SwapUnlockOrders : ChangeWord(t, o)
  PROVE  OrdersTypeOK' /\ LockShowsLastWrite' /\ WriteIsKept'
<1>1. /\ IInv /\ OrdersTypeOK /\ Write \in knows[t]
      /\ \E q : pc' = [pc EXCEPT ![t] = q] /\ q \notin HoldingPcs
  BY DEF OInv, LockShowsLastWrite, SwapUnlock, Return, GotoIn, Holding, HoldingPcs
<1>2. NothingForgotten
  BY <1>1, OrdersAdd
<1>3. Write \in carried'
  BY <1>1 DEF SwapUnlockOrders, ChangeWord, Releases
<1>4. \A u \in Threads : Holding(u)' => Holding(u)
  BY <1>1 DEF IInv, TypeOK, Holding
<1> QED
  BY <1>2, <1>3, <1>4 DEF OInv, NothingForgotten, LockShowsLastWrite, WriteIsKept

-----------------------------------------------------------------------------
(* The steps that neither take the lock nor write _M_ptr.                  *)

Places(t, q) == pc' = [pc EXCEPT ![t] = q] /\ (q \in HoldingPcs => Holding(t)) /\ pc[t] # "swap_unlock"

Moves(t) ==
  \/ Spin(t) \/ UnlockLoad(t) \/ UnlockCas(t)
  \/ ReadPtr(t) \/ Compare(t) \/ TakeCurrent(t) \/ CompareOld(t) \/ Recheck(t)
  \/ LoadAddRef(t) \/ ExpectedAddRef(t) \/ DropSink(t) \/ DropArg(t)
  \/ WaitRead(t) \/ Sleep(t)

LEMMA OthersMove ==
  ASSUME NEW t \in Threads, Moves(t)
  PROVE  pc' = pc \/ \E q : Places(t, q)
<1> USE DEF Places, Holding, HoldingPcs, Goto, GotoIn, Return, At
<1>1. CASE Spin(t) \/ UnlockLoad(t) \/ ReadPtr(t) \/ LoadAddRef(t) \/ TakeCurrent(t) \/ ExpectedAddRef(t)
  BY <1>1 DEF Spin, UnlockLoad, ReadPtr, LoadAddRef, TakeCurrent, ExpectedAddRef
<1>2. CASE UnlockCas(t)
  BY <1>2 DEF UnlockCas, AfterUnlock, control
<1>3. CASE Compare(t) \/ CompareOld(t) \/ Recheck(t)
  BY <1>3 DEF Compare, CompareOld, Recheck
<1>4. CASE DropSink(t) \/ DropArg(t)
  BY <1>4 DEF DropSink, DropArg
<1>5. CASE WaitRead(t) \/ Sleep(t)
  BY <1>5 DEF WaitRead, Sleep
<1> QED BY <1>1, <1>2, <1>3, <1>4, <1>5 DEF Moves

LEMMA OtherShows ==
  ASSUME OInv, NEW t \in Threads, Moves(t) \/ NotifyAll(t),
         \/ UNCHANGED orders
         \/ ReadAccess(t)
         \/ \E b \in {cur[t], snk[t].pi, arg[t].pi} : ChangeCount(t, b)
         \/ \E o : ChangeWord(t, o) \/ ReadWord(t, o)
  PROVE  OrdersTypeOK' /\ LockShowsLastWrite' /\ WriteIsKept'
<1>1. IInv /\ OrdersTypeOK
  BY DEF OInv
<1>2. /\ cur[t] \in BlocksOrNo /\ snk[t].pi \in BlocksOrNo /\ arg[t].pi \in BlocksOrNo
  BY <1>1 DEF IInv, TypeOK, Values
<1>3. \/ UNCHANGED orders
      \/ ReadAccess(t)
      \/ \E b \in BlocksOrNo : ChangeCount(t, b)
      \/ \E o : ChangeWord(t, o) \/ ReadWord(t, o)
  BY <1>2
<1>4. NothingForgotten
  BY <1>1, <1>3, OrdersAdd
<1>5. \/ NotifyAll(t)
      \/ pc' = pc
      \/ \E q : Places(t, q)
  BY OthersMove
<1>6. /\ \A u \in Threads : Holding(u)' => Holding(u)
      /\ \A u \in Threads : pc[u] = "swap_unlock" => pc'[u] = "swap_unlock"
  <2>1. CASE NotifyAll(t)
    BY <2>1 DEF NotifyAll, Wake, Asleep, Holding, HoldingPcs
  <2>2. CASE pc' = pc
    BY <2>2 DEF Holding
  <2>3. CASE \E q : Places(t, q)
    BY <1>1, <2>3, PlacesStay DEF Places
  <2> QED BY <1>5, <2>1, <2>2, <2>3
<1> QED BY <1>4, <1>6, LockStaysShown

-----------------------------------------------------------------------------
(* The theorem.                                                            *)

LEMMA InitOInv == OrdersInit => OInv
<1> SUFFICES ASSUME OrdersInit PROVE OInv
  OBVIOUS
<1>1. IInv
  BY InitIInv DEF OrdersInit
<1>2. OrdersTypeOK /\ Everybody
  BY DEF OrdersInit, OrdersTypeOK, Known, Everybody, Nobody
<1> QED BY <1>1, <1>2 DEF OInv, LockShowsLastWrite, WriteIsKept, Everybody

LEMMA NextOInv == OInv /\ [OrdersNext]_allVars => OInv'
<1> SUFFICES ASSUME OInv, [OrdersNext]_allVars PROVE OInv'
  OBVIOUS
<1>1. IInv'
  BY OrderedIsStep, NextIInv DEF OInv
<1>2. CASE UNCHANGED allVars
  <2>1. UNCHANGED orders /\ pc' = pc
    BY <1>2 DEF allVars, vars
  <2> QED
    BY <1>1, <2>1
       DEF OInv, orders, OrdersTypeOK, LockShowsLastWrite, WriteIsKept, Everybody, Holding
<1>3. ASSUME NEW t \in Threads, OrderedClient(t) \/ OrderedStep(t)
      PROVE  OrdersTypeOK' /\ LockShowsLastWrite' /\ WriteIsKept'
  <2>1. CASE OrderedClient(t)
    BY <2>1, ClientShows
  <2>2. CASE OrderedLock(t)
    <3>1. CASE LockCas(t) /\ (\/ word' = word /\ UNCHANGED orders
                              \/ word' # word /\ \E o \in LockOrders(t) : ChangeWord(t, o))
      BY <3>1, LockCasShows
    <3>2. CASE SwapUnlock(t) /\ \E o \in SwapUnlockOrders : ChangeWord(t, o)
      BY <3>2, SwapUnlockShows
    <3>3. CASE (Spin(t) \/ UnlockLoad(t)) /\ UNCHANGED orders
      BY <3>3, OtherShows DEF Moves
    <3>4. CASE UnlockCas(t) /\ (\/ word' = word /\ UNCHANGED orders
                                \/ word' # word /\ \E o \in UnlockOrders(t) : ChangeWord(t, o))
      BY <3>4, OtherShows DEF Moves
    <3> QED BY <2>2, <3>1, <3>2, <3>3, <3>4 DEF OrderedLock
  <2>3. CASE OrderedBody(t)
    <3>1. CASE (SwapPtr(t) \/ SetPtr(t)) /\ WriteAccess(t)
      BY <3>1, WriteShows
    <3>2. CASE ~((SwapPtr(t) \/ SetPtr(t)) /\ WriteAccess(t))
      BY <2>3, <3>2, OtherShows DEF OrderedBody, Moves
    <3> QED BY <3>1, <3>2
  <2> QED BY <1>3, <2>1, <2>2, <2>3 DEF OrderedStep
<1> QED BY <1>1, <1>2, <1>3 DEF OrdersNext, OInv

(* Whoever is between lock() and unlock() comes after the last write of    *)
(* _M_ptr, for any number of threads and every order that a caller asks    *)
(* for: the acquire of lock() and the release of the exchange suffice.     *)
THEOREM LockShowsTheWrite == OrdersSpec => []LockShowsLastWrite
<1>1. OInv => LockShowsLastWrite
  BY DEF OInv
<1> QED
  BY InitOInv, NextOInv, <1>1, PTL DEF OrdersSpec
=============================================================================
