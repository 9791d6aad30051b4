--------------------------- MODULE SpLockerProofs ---------------------------
(***************************************************************************)
(* The mutexes of _Sp_locker, for any number of threads and shared_ptrs,   *)
(* any pool and any hash: two operations never work on one shared_ptr at   *)
(* the same time, and there is no deadlock.  Then the values: every        *)
(* reference is counted, also in the middle of a move, and each call takes *)
(* effect in a single step.                                                *)
(***************************************************************************)
EXTENDS SpLocker, FiniteSetTheorems, WellFoundedInduction, TLAPS

(* What the control state is: the part of TypeOK that the locks need.      *)
Types ==
  /\ key \in [Slots -> Keys] /\ holder \in [Keys -> Threads \cup {NoThread}]
  /\ p \in [Threads -> Slots \cup {NoSlot}] /\ v \in [Threads -> Slots \cup {NoSlot}]
  /\ op \in [Threads -> {"none", "load", "swap", "cas"}]
  /\ pc \in [Threads -> BodyPcs \cup {"idle", "lock1", "lock2", "drop_x", "drop_arg"}]

(* A thread holds the mutexes of its addresses while it is inside an       *)
(* operation, whatever way it takes through it, only that of the lower key *)
(* between the two locks, and none at any other time.                      *)
Locking(t) ==
  /\ InBody(t) \/ pc[t] \in {"lock1", "lock2"} => p[t] \in Slots /\ v[t] \in Slots
  /\ InBody(t) => \A k \in MyKeys(t) : holder[k] = t
  /\ pc[t] = "lock2" => key[p[t]] # key[v[t]] /\ holder[FirstKey(t)] = t
  /\ \A k \in Keys : holder[k] = t =>
       \/ InBody(t) /\ k \in MyKeys(t)
       \/ pc[t] = "lock2" /\ k = FirstKey(t)

IInv == Types /\ \A t \in Threads : Locking(t)

-----------------------------------------------------------------------------
(* The invariant is inductive.                                             *)

LEMMA InitIInv == Init => IInv
<1> SUFFICES ASSUME Init PROVE IInv
  OBVIOUS
<1>1. Types
  BY DEF Init, Types
<1>2. ASSUME NEW t \in Threads PROVE Locking(t)
  BY LockerAssumption DEF Init, Locking, InBody, BodyPcs
<1> QED BY <1>1, <1>2 DEF IInv

(* What thread u has when another thread takes or gives back a mutex.      *)
LEMMA OthersLock ==
  ASSUME IInv, NEW u \in Threads, UNCHANGED key, pc'[u] = pc[u], p'[u] = p[u], v'[u] = v[u],
         \A k \in Keys : holder'[k] = u <=> holder[k] = u
  PROVE  Locking(u)'
<1>1. FirstKey(u)' = FirstKey(u) /\ MyKeys(u)' = MyKeys(u) /\ InBody(u)' = InBody(u)
  BY DEF FirstKey, MyKeys, InBody
<1>2. Locking(u)
  BY DEF IInv
<1>3. InBody(u) \/ pc[u] = "lock2" => MyKeys(u) \subseteq Keys /\ FirstKey(u) \in MyKeys(u)
  BY <1>2 DEF IInv, Types, MyKeys, FirstKey, Locking
<1> QED BY <1>1, <1>2, <1>3 DEF Locking

(* Inside a body, and in the client, no mutex is taken or given back.      *)
LEMMA KeepsLocks ==
  ASSUME IInv, NEW t \in Threads, Types', UNCHANGED <<key, holder, p, v>>,
         \A u \in Threads \ {t} : pc'[u] = pc[u],
         \/ InBody(t) /\ InBody(t)'
         \/ /\ pc[t] \in {"idle", "drop_x", "drop_arg"}
            /\ pc'[t] \in {"idle", "drop_x", "drop_arg"}
  PROVE  IInv'
<1>1. \A u \in Threads \ {t} : Locking(u)'
  BY OthersLock
<1>2. Locking(t)'
  BY DEF IInv, Locking, InBody, BodyPcs, MyKeys
<1> QED BY <1>1, <1>2 DEF IInv

LEMMA BodyStep ==
  ASSUME IInv, NEW t \in Threads,
         \/ ReadPtr(t) \/ ReadPi(t) \/ SwapPtr(t) \/ SwapPi(t) \/ Compare(t) \/ TakePtr(t)
         \/ TakePi(t) \/ PutPtr(t) \/ PutPi(t) \/ CopyPtr(t) \/ CopyPi(t)
  PROVE  IInv'
<1>1. /\ UNCHANGED <<key, holder, p, v, op>> /\ InBody(t)
      /\ \E place \in BodyPcs : pc' = [pc EXCEPT ![t] = place]
  BY DEF ReadPtr, ReadPi, SwapPtr, SwapPi, Compare, TakePtr, TakePi, PutPtr, PutPi, CopyPtr, CopyPi,
     Goto, call, InBody, BodyPcs
<1>2. Types' /\ InBody(t)' /\ \A u \in Threads \ {t} : pc'[u] = pc[u]
  BY <1>1 DEF IInv, Types, InBody
<1> QED BY <1>1, <1>2, KeepsLocks

LEMMA OutsideStep ==
  ASSUME IInv, NEW t \in Threads,
         \/ \E b \in Blocks, i \in Parts : Make(t, b, i)
         \/ \E i \in Parts : Alias(t, i)
         \/ Reset(t) \/ DropX(t)
  PROVE  IInv'
<1>1. /\ UNCHANGED <<key, holder, p, v, op>> /\ pc[t] \in {"idle", "drop_x"}
      /\ pc' = pc \/ pc' = [pc EXCEPT ![t] = "drop_arg"]
  BY DEF Make, Alias, Reset, DropX, Goto, call
<1>2. /\ Types' /\ pc'[t] \in {"idle", "drop_x", "drop_arg"}
      /\ \A u \in Threads \ {t} : pc'[u] = pc[u]
  BY <1>1 DEF IInv, Types
<1> QED BY <1>1, <1>2, KeepsLocks

(* A thread without mutexes sets or forgets its addresses.                 *)
LEMMA CallStep ==
  ASSUME IInv, NEW t \in Threads,
         \/ DropArg(t)
         \/ \E o \in {"load", "swap", "cas"}, s, r \in Slots : Call(t, o, s, r)
  PROVE  IInv'
<1>1. /\ UNCHANGED <<key, holder>> /\ pc[t] \in {"idle", "drop_arg"}
      /\ \E o \in {"none", "load", "swap", "cas"}, s, r \in Slots \cup {NoSlot}, place \in {"idle", "lock1"} :
           /\ op' = [op EXCEPT ![t] = o] /\ p' = [p EXCEPT ![t] = s] /\ v' = [v EXCEPT ![t] = r]
           /\ pc' = [pc EXCEPT ![t] = place] /\ (place = "lock1" => s \in Slots /\ r \in Slots)
  BY DEF DropArg, Call, Return
<1>2. /\ Types' /\ pc'[t] \in {"idle", "lock1"}
      /\ pc'[t] = "lock1" => p'[t] \in Slots /\ v'[t] \in Slots
      /\ \A u \in Threads \ {t} : pc'[u] = pc[u] /\ p'[u] = p[u] /\ v'[u] = v[u]
  BY <1>1 DEF IInv, Types
<1>3. \A u \in Threads \ {t} : Locking(u)'
  BY <1>1, <1>2, OthersLock
<1>4. Locking(t)'
  BY <1>1, <1>2 DEF IInv, Locking, InBody, BodyPcs
<1> QED BY <1>2, <1>3, <1>4 DEF IInv

LEMMA BodyIsInBody == \A t : Body(t) \in BodyPcs
BY DEF Body, BodyPcs

(* The first of two mutexes, or the only one.                              *)
LEMMA Lock1Step ==
  ASSUME IInv, NEW t \in Threads, Lock1(t)
  PROVE  IInv'
<1>1. PICK k : /\ k = FirstKey(t) /\ pc[t] = "lock1" /\ holder[k] = NoThread
               /\ holder' = [holder EXCEPT ![k] = t] /\ UNCHANGED <<key, p, v, op>>
               /\ pc' = [pc EXCEPT ![t] = IF MyKeys(t) = {k} THEN Body(t) ELSE "lock2"]
  BY DEF Lock1, Take, Goto, call
<1>2. /\ p[t] \in Slots /\ v[t] \in Slots /\ k \in Keys /\ k \in MyKeys(t)
  BY <1>1 DEF IInv, Locking, Types, FirstKey, MyKeys
<1>3. /\ holder'[k] = t /\ \A j \in Keys \ {k} : holder'[j] = holder[j]
      /\ \A u \in Threads \ {t} : pc'[u] = pc[u]
      /\ pc'[t] = IF MyKeys(t) = {k} THEN Body(t) ELSE "lock2"
      /\ Types'
  BY <1>1, <1>2, BodyIsInBody DEF IInv, Types
<1>4. \A u \in Threads \ {t} : Locking(u)'
  BY <1>1, <1>3, LockerAssumption, OthersLock
<1>5. \A j \in Keys : holder'[j] = t <=> j = k
  BY <1>1, <1>3, LockerAssumption DEF IInv, Locking, InBody, BodyPcs
<1>6. FirstKey(t)' = k /\ MyKeys(t)' = MyKeys(t)
  BY <1>1 DEF FirstKey, MyKeys
<1>7. CASE MyKeys(t) = {k}
  <2>1. InBody(t)' /\ pc'[t] # "lock2"
    BY <1>3, <1>7, BodyIsInBody DEF InBody, BodyPcs
  <2>2. Locking(t)'
    BY <1>1, <1>2, <1>3, <1>5, <1>6, <1>7, <2>1 DEF Locking
  <2> QED BY <1>3, <1>4, <2>2 DEF IInv
<1>8. CASE MyKeys(t) # {k}
  <2>1. key[p[t]] # key[v[t]]
    BY <1>2, <1>8 DEF MyKeys
  <2>2. Locking(t)'
    BY <1>1, <1>2, <1>3, <1>5, <1>6, <1>8, <2>1 DEF Locking, InBody, BodyPcs
  <2> QED BY <1>3, <1>4, <2>2 DEF IInv
<1> QED BY <1>3, <1>4, <1>7, <1>8 DEF IInv

LEMMA Lock2Step ==
  ASSUME IInv, NEW t \in Threads, Lock2(t)
  PROVE  IInv'
<1>1. PICK k \in MyKeys(t) \ {FirstKey(t)} :
        /\ pc[t] = "lock2" /\ holder[k] = NoThread /\ holder' = [holder EXCEPT ![k] = t]
        /\ UNCHANGED <<key, p, v, op>> /\ pc' = [pc EXCEPT ![t] = Body(t)]
  BY DEF Lock2, Take, Goto, call
<1>2. /\ p[t] \in Slots /\ v[t] \in Slots /\ k \in Keys
      /\ MyKeys(t) = {FirstKey(t), k} /\ holder[FirstKey(t)] = t /\ FirstKey(t) \in Keys
  BY <1>1 DEF IInv, Locking, Types, FirstKey, MyKeys
<1>3. /\ holder'[k] = t /\ \A j \in Keys \ {k} : holder'[j] = holder[j]
      /\ \A u \in Threads \ {t} : pc'[u] = pc[u]
      /\ pc'[t] = Body(t) /\ Types'
  BY <1>1, <1>2, BodyIsInBody DEF IInv, Types
<1>4. \A u \in Threads \ {t} : Locking(u)'
  BY <1>1, <1>3, LockerAssumption, OthersLock
<1>5. \A j \in Keys : holder'[j] = t <=> j \in MyKeys(t)
  <2>1. \A j \in Keys : holder[j] = t => j = FirstKey(t)
    BY <1>1 DEF IInv, Locking, InBody, BodyPcs
  <2> QED BY <1>2, <1>3, <2>1
<1>6. MyKeys(t)' = MyKeys(t) /\ MyKeys(t) \subseteq Keys
  BY <1>1, <1>2 DEF MyKeys
<1>7. InBody(t)' /\ pc'[t] # "lock2"
  BY <1>3, BodyIsInBody DEF InBody, BodyPcs
<1>8. Locking(t)'
  BY <1>1, <1>2, <1>5, <1>6, <1>7 DEF Locking
<1> QED BY <1>3, <1>4, <1>8 DEF IInv

(* The destructor gives back what its thread holds.                        *)
LEMMA UnlockStep ==
  ASSUME IInv, NEW t \in Threads, Unlock(t)
  PROVE  IInv'
<1>1. /\ pc[t] = "unlock" /\ UNCHANGED key
      /\ holder' = [k \in Keys |-> IF holder[k] = t THEN NoThread ELSE holder[k]]
      /\ \/ UNCHANGED <<p, v, op>> /\ pc' = [pc EXCEPT ![t] = "drop_x"]
         \/ /\ op' = [op EXCEPT ![t] = "none"] /\ p' = [p EXCEPT ![t] = NoSlot]
            /\ v' = [v EXCEPT ![t] = NoSlot] /\ pc' = [pc EXCEPT ![t] = "idle"]
  BY DEF Unlock, Goto, Return, call
<1>2. /\ pc'[t] \in {"drop_x", "idle"}
      /\ \A u \in Threads \ {t} : pc'[u] = pc[u] /\ p'[u] = p[u] /\ v'[u] = v[u]
      /\ \A j \in Keys : holder'[j] = IF holder[j] = t THEN NoThread ELSE holder[j]
  BY <1>1 DEF IInv, Types
<1>3. Types'
  <2>1. holder' \in [Keys -> Threads \cup {NoThread}]
    BY <1>1 DEF IInv, Types
  <2> QED BY <1>1, <2>1 DEF IInv, Types
<1>4. \A u \in Threads \ {t} : Locking(u)'
  BY <1>1, <1>2, LockerAssumption, OthersLock
<1>5. Locking(t)'
  BY <1>2, LockerAssumption DEF Locking, InBody, BodyPcs
<1> QED BY <1>3, <1>4, <1>5 DEF IInv

LEMMA NextIInv == IInv /\ [Next]_vars => IInv'
<1> SUFFICES ASSUME IInv, [Next]_vars PROVE IInv'
  OBVIOUS
<1>1. CASE UNCHANGED vars
  <2>1. UNCHANGED <<key, holder, p, v, op, pc>>
    BY <1>1 DEF vars
  <2>2. Types'
    BY <2>1 DEF IInv, Types
  <2>3. \A u \in Threads : Locking(u)'
    BY <2>1, OthersLock
  <2> QED BY <2>2, <2>3 DEF IInv
<1>2. CASE Next
  BY <1>2, BodyStep, OutsideStep, CallStep, Lock1Step, Lock2Step, UnlockStep
     DEF Next, Client, Step
<1> QED BY <1>1, <1>2

LEMMA InductiveInvariant == Spec => []IInv
BY InitIInv, NextIInv, PTL DEF Spec

-----------------------------------------------------------------------------
(* What follows.                                                           *)

LEMMA Exclusive == IInv => BodiesAreExclusive
<1> SUFFICES ASSUME IInv, NEW t \in Threads, NEW u \in Threads, t # u, InBody(t), InBody(u),
                    NEW s \in {p[t], v[t]} \cap {p[u], v[u]}
             PROVE  FALSE
  BY DEF BodiesAreExclusive
<1>1. key[s] \in MyKeys(t) /\ key[s] \in MyKeys(u)
  BY DEF MyKeys
<1>2. holder[key[s]] = t /\ holder[key[s]] = u
  BY <1>1 DEF IInv, Locking
<1> QED BY <1>2

(* Two operations never work on one shared_ptr at the same time.           *)
THEOREM BodiesExclude == Spec => []BodiesAreExclusive
BY InductiveInvariant, Exclusive, PTL

-----------------------------------------------------------------------------
(* No deadlock.                                                            *)

LEMMA LeastNumber ==
  ASSUME NEW D \in SUBSET Nat, D # {}
  PROVE  \E n \in D : \A m \in D : n <= m
<1> DEFINE R == {r \in Nat \X Nat : r[1] < r[2]}
<1>1. IsWellFoundedOn(R, Nat)
  BY NatLessThanWellFounded DEF OpToRel
<1> HIDE DEF R
<1>2. \E n \in D : \A m \in D : <<m, n>> \notin R
  BY <1>1, WFMin
<1>3. ASSUME NEW n \in Nat, NEW m \in Nat, <<m, n>> \notin R
      PROVE  n <= m
  <2>1. <<m, n>> \in Nat \X Nat /\ <<m, n>>[1] = m /\ <<m, n>>[2] = n
    OBVIOUS
  <2> QED BY <1>3, <2>1 DEF R
<1> QED BY <1>2, <1>3

(* The keys of a thread with a locker.                                     *)
LEMMA KeysOf ==
  ASSUME IInv, NEW t \in Threads, InBody(t) \/ pc[t] \in {"lock1", "lock2"}
  PROVE  /\ MyKeys(t) \subseteq Keys /\ MyKeys(t) \subseteq 0..255 /\ FirstKey(t) \in MyKeys(t)
         /\ \A k \in MyKeys(t) : FirstKey(t) <= k
<1>1. key[p[t]] \in Keys /\ key[v[t]] \in Keys
  BY DEF IInv, Locking, Types
<1>2. /\ MyKeys(t) \subseteq Keys /\ MyKeys(t) \subseteq 0..255
      /\ FirstKey(t) \in MyKeys(t)
  BY <1>1, LockerAssumption DEF MyKeys, FirstKey
<1>3. key[p[t]] \in Int /\ key[v[t]] \in Int
  <2>1. \A k \in 0..255 : k \in Int
    OBVIOUS
  <2> QED BY <1>2, <2>1 DEF MyKeys
<1>4. FirstKey(t) <= key[p[t]] /\ FirstKey(t) <= key[v[t]]
  BY <1>3 DEF FirstKey
<1> QED BY <1>2, <1>4 DEF MyKeys

(* Whoever waits, waits for a thread that runs, or for one that waits for  *)
(* a higher key.                                                           *)
LEMMA WaitsForHigher ==
  ASSUME IInv, NEW t \in Threads, Blocked(t), \A u \in Threads : pc[u] # "idle" => Blocked(u)
  PROVE  \E u \in Threads : /\ pc[u] = "lock2"
                            /\ pc[t] = "lock2" => FirstKey(t) <= FirstKey(u) /\ FirstKey(u) # FirstKey(t)
<1>1. pc[t] \in {"lock1", "lock2"}
  BY DEF Blocked
<1>2. PICK k \in MyKeys(t) : holder[k] # NoThread /\ (pc[t] = "lock2" => k # FirstKey(t))
  <2>1. CASE pc[t] = "lock1"
    BY <1>1, <2>1, KeysOf DEF Blocked
  <2>2. CASE pc[t] = "lock2"
    <3>1. \E k \in MyKeys(t) : k # FirstKey(t)
      BY <2>2 DEF IInv, Locking, FirstKey, MyKeys
    <3> QED BY <2>2, <3>1 DEF Blocked
  <2> QED BY <1>1, <2>1, <2>2
<1>3. k \in Keys /\ FirstKey(t) <= k
  BY <1>1, KeysOf
<1>4. /\ holder[k] \in Threads
      /\ InBody(holder[k]) \/ (pc[holder[k]] = "lock2" /\ k = FirstKey(holder[k]))
  <2>1. holder[k] \in Threads
    BY <1>2, <1>3 DEF IInv, Types
  <2>2. Locking(holder[k])
    BY <2>1 DEF IInv
  <2> QED BY <1>3, <2>1, <2>2 DEF Locking
<1>5. ~InBody(holder[k])
  BY <1>4 DEF InBody, BodyPcs, Blocked
<1> QED BY <1>2, <1>3, <1>4, <1>5

LEMMA NoDeadlock == IInv => SomebodyRuns
<1> SUFFICES ASSUME IInv, NEW s \in Threads, pc[s] # "idle",
                    \A u \in Threads : pc[u] # "idle" => Blocked(u)
             PROVE  FALSE
  BY DEF SomebodyRuns
<1> DEFINE Between == {u \in Threads : pc[u] = "lock2"}
           D == {255 - FirstKey(u) : u \in Between}
<1>1. \A u \in Between : FirstKey(u) \in 0..255
  BY KeysOf
<1>2. D \subseteq Nat /\ D # {}
  <2>1. Blocked(s)
    OBVIOUS
  <2>2. \E u \in Threads : pc[u] = "lock2"
    BY <2>1, WaitsForHigher
  <2> QED BY <1>1, <2>2
<1>3. \E n \in D : \A m \in D : n <= m
  <2> HIDE DEF D
  <2> QED BY <1>2, LeastNumber
<1>4. PICK t \in Between : \A u \in Between : 255 - FirstKey(t) <= 255 - FirstKey(u)
  BY <1>3
<1>5. PICK u \in Between : FirstKey(t) <= FirstKey(u) /\ FirstKey(u) # FirstKey(t)
  <2>1. t \in Threads /\ pc[t] = "lock2" /\ Blocked(t)
    OBVIOUS
  <2>2. \E u \in Threads : pc[u] = "lock2" /\ FirstKey(t) <= FirstKey(u) /\ FirstKey(u) # FirstKey(t)
    BY <2>1, WaitsForHigher
  <2> QED BY <2>2
<1>6. 255 - FirstKey(t) <= 255 - FirstKey(u)
  BY <1>4
<1>7. FirstKey(t) \in Int /\ FirstKey(u) \in Int
  <2>1. \A k \in 0..255 : k \in Int
    OBVIOUS
  <2> QED BY <1>1, <2>1
<1> HIDE DEF Between, D
<1> QED BY <1>5, <1>6, <1>7

(* Locking the lower key first excludes a deadlock of the operations.      *)
THEOREM NoDeadlocks == Spec => []SomebodyRuns
BY InductiveInvariant, NoDeadlock, PTL

-----------------------------------------------------------------------------
(* Deleters.                                                               *)

Counted == use \in [Blocks -> Int]

(* Only the destructors of __x and of the parameter lower a count.         *)
CountsStay == \A c \in Blocks : use'[c] >= use[c] \/ (use[c] = 0 /\ use'[c] = 1)

LEMMA AddRefCounts ==
  ASSUME Counted, NEW b, AddRef(b)
  PROVE  Counted' /\ CountsStay
<1>1. CASE b \in Blocks
  <2>1. use' = use \/ use' = [use EXCEPT ![b] = use[b] + 1]
    BY DEF AddRef
  <2> QED BY <1>1, <2>1 DEF Counted, CountsStay
<1>2. CASE b \notin Blocks
  <2>1. use' = use \/ use' = [use EXCEPT ![b] = use[b] + 1]
    BY DEF AddRef
  <2>2. \A c \in Blocks : use'[c] = use[c]
    BY <1>2, <2>1 DEF Counted
  <2> QED BY <1>2, <2>1, <2>2 DEF Counted, CountsStay
<1> QED BY <1>1, <1>2

LEMMA UnrefCounts ==
  ASSUME Counted, NEW b, Unref(b)
  PROVE  Counted'
<1>1. use' = use \/ use' = [use EXCEPT ![b] = use[b] - 1]
  BY DEF Unref
<1>2. CASE b \in Blocks
  BY <1>1, <1>2 DEF Counted
<1>3. CASE b \notin Blocks
  BY <1>1, <1>3 DEF Counted
<1> QED BY <1>2, <1>3

LEMMA SameCounts ==
  ASSUME Counted, use' = use
  PROVE  Counted' /\ CountsStay
BY DEF Counted, CountsStay

LEMMA StepCounts ==
  ASSUME Counted, NEW t \in Threads, Client(t) \/ Step(t)
  PROVE  /\ Counted'
         /\ CountsStay \/ DropX(t) \/ DropArg(t)
<1>1. CASE Client(t)
  <2>1. ASSUME NEW b \in Blocks, NEW i \in Parts, Make(t, b, i)
        PROVE  Counted' /\ CountsStay
    BY <2>1 DEF Make, Counted, CountsStay
  <2>2. CASE ~\E b \in Blocks, i \in Parts : Make(t, b, i)
    <3>1. use' = use
      BY <1>1, <2>2 DEF Client, Alias, Reset, Call
    <3> QED BY <3>1, SameCounts
  <2> QED BY <2>1, <2>2
<1>2. CASE DropX(t) \/ DropArg(t)
  <2>1. Unref(x[t].pi) \/ Unref(arg[t].pi)
    BY <1>2 DEF DropX, DropArg
  <2> QED BY <1>2, <2>1, UnrefCounts
<1>3. CASE ReadPi(t) \/ CopyPi(t)
  <2>1. AddRef(pi[p[t]])
    BY <1>3 DEF ReadPi, CopyPi
  <2> QED BY <2>1, AddRefCounts
<1>4. CASE Step(t) /\ ~(DropX(t) \/ DropArg(t) \/ ReadPi(t) \/ CopyPi(t))
  <2>1. use' = use
    BY <1>4 DEF Step, Lock1, Lock2, Unlock, ReadPtr, SwapPtr, SwapPi, Compare, TakePtr, TakePi,
       PutPtr, PutPi, CopyPtr
  <2> QED BY <2>1, SameCounts
<1> QED BY <1>1, <1>2, <1>3, <1>4

(* A thread that drops a value has given its mutexes back.                 *)
DeleterOutside ==
  \A b \in Blocks : use[b] > 0 /\ use'[b] = 0 =>
    \E t \in Threads : pc'[t] # pc[t] /\ \A k \in Keys : holder[k] # t

LEMMA NextDeleterOutside ==
  ASSUME IInv, Counted, [Next]_vars
  PROVE  Counted' /\ DeleterOutside
<1>1. CASE UNCHANGED vars
  BY <1>1 DEF vars, Counted, DeleterOutside
<1>2. CASE Next
  <2>1. PICK t \in Threads : Client(t) \/ Step(t)
    BY <1>2 DEF Next
  <2>2. CASE DropX(t) \/ DropArg(t)
    <3>1. pc[t] \in {"drop_x", "drop_arg"} /\ pc'[t] # pc[t]
      BY <2>2 DEF DropX, DropArg, Goto, Return, IInv, Types
    <3>2. \A k \in Keys : holder[k] # t
      BY <3>1 DEF IInv, Locking, InBody, BodyPcs
    <3> QED BY <2>1, <3>1, <3>2, StepCounts DEF DeleterOutside
  <2>3. CASE CountsStay
    BY <2>1, <2>3, StepCounts DEF CountsStay, DeleterOutside, Counted
  <2> QED BY <2>1, <2>2, <2>3, StepCounts
<1> QED BY <1>1, <1>2

(* No deleter runs under a mutex, whatever mutexes it locks itself.        *)
THEOREM DeletersRunOutside == Spec => NoDeleterUnderLock
<1>1. Init => Counted
  BY DEF Init, Counted
<1>2. IInv /\ Counted /\ [Next]_vars => Counted' /\ [DeleterOutside]_vars
  BY NextDeleterOutside
<1>3. NoDeleterUnderLock <=> [][DeleterOutside]_vars
  BY PTL DEF NoDeleterUnderLock, DeleterOutside
<1> QED BY <1>1, <1>2, <1>3, InductiveInvariant, PTL DEF Spec

-----------------------------------------------------------------------------
(* The values that the free functions read and write.                      *)

CasPcs == {"compare", "take_p", "take_p_pi", "take_v", "take_v_pi", "put_ptr", "put_pi",
           "copy_ptr", "copy_pi"}

(* In which operation a thread is at each place.                           *)
OpOK(t) ==
  /\ pc[t] \in {"lock1", "lock2"} => op[t] \in {"load", "swap", "cas"}
  /\ pc[t] \in {"read_ptr", "read_pi"} => op[t] = "load"
  /\ pc[t] \in {"swap_ptr", "swap_pi"} => op[t] = "swap"
  /\ pc[t] \in CasPcs => op[t] = "cas"

Members(s) == [ptr |-> ptr[s], pi |-> pi[s]]

(* Who has no block has no pointer.                                        *)
Whole(w) == w.pi = NoBlock => w.ptr = NoPtr

(* The shared_ptr of which a thread has written one member of two.         *)
Half(t, s) ==
  \/ pc[t] \in {"swap_pi", "put_pi"} /\ p[t] = s
  \/ pc[t] = "copy_pi" /\ v[t] = s

SlotsWhole == \A s \in Slots : Whole(Members(s)) \/ \E t \in Threads : Half(t, s)

(* What a thread knows of its own values and of the shared_ptrs that it    *)
(* has locked: which have been compared, emptied, or half written.         *)
HandsOK(t) ==
  /\ pc[t] = "read_ptr" \/ (op[t] = "load" /\ pc[t] \in {"lock1", "lock2"}) => arg[t] = NoValue
  /\ pc[t] = "read_pi" => arg[t] = [ptr |-> ptr[p[t]], pi |-> NoBlock]
  /\ \/ x[t] = NoValue
     \/ pc[t] \in CasPcs \ {"compare", "take_p", "take_v"}
     \/ pc[t] = "unlock" /\ op[t] = "cas"
     \/ pc[t] = "drop_x"
  /\ pc[t] \in {"take_p", "take_p_pi"} => Equal(t)
  /\ pc[t] \in {"take_v", "take_v_pi"} => ~Equal(t)
  /\ pc[t] \in {"take_p_pi", "take_v_pi"} => x[t] = [ptr |-> ptr[Target(t)], pi |-> NoBlock]
  /\ pc[t] \in {"put_ptr", "put_pi"} =>
       pi[p[t]] = NoBlock /\ (p[t] # v[t] => x[t] = Members(v[t]))
  /\ pc[t] \in {"copy_ptr", "copy_pi"} =>
       pi[v[t]] = NoBlock /\ p[t] # v[t] /\ x[t] # Members(p[t])
  /\ pc[t] = "put_pi" => ptr[p[t]] = arg[t].ptr
  /\ pc[t] = "copy_pi" => ptr[v[t]] = ptr[p[t]]
  /\ IF pc[t] = "swap_pi"
       THEN Whole([ptr |-> arg[t].ptr, pi |-> pi[p[t]]]) /\ Whole([ptr |-> ptr[p[t]], pi |-> arg[t].pi])
       ELSE pc[t] = "read_pi" \/ Whole(arg[t])

ValueTypes ==
  /\ ptr \in [Slots -> Ptrs] /\ pi \in [Slots -> BlocksOrNo]
  /\ arg \in [Threads -> Values] /\ x \in [Threads -> Values]

VInv ==
  /\ IInv /\ ValueTypes /\ CountsAreHolders /\ SlotsWhole
  /\ \A t \in Threads : OpOK(t) /\ HandsOK(t)

-----------------------------------------------------------------------------
(* Counting.                                                               *)

Is(a, b) == IF a = b THEN 1 ELSE 0

Count(S, f, b) == Cardinality({u \in S : f[u] = b})

LEMMA CountType ==
  ASSUME NEW S, IsFiniteSet(S), NEW f, NEW b
  PROVE  Count(S, f, b) \in Nat
<1>1. IsFiniteSet({u \in S : f[u] = b})
  BY FS_Subset
<1> QED BY <1>1, FS_CardinalityType DEF Count

LEMMA CountWrite ==
  ASSUME NEW S, IsFiniteSet(S), NEW f, NEW g, NEW b, NEW c, NEW t \in S,
         \A u \in S : g[u] = IF u = t THEN c ELSE f[u]
  PROVE  Count(S, g, b) = Count(S, f, b) - Is(f[t], b) + Is(c, b)
<1> DEFINE F == {u \in S : f[u] = b}
           G == {u \in S : g[u] = b}
<1>1. IsFiniteSet(F) /\ IsFiniteSet(G) /\ Cardinality(F) \in Nat /\ Cardinality(G) \in Nat
  BY FS_Subset, FS_CardinalityType
<1>2. Count(S, f, b) = Cardinality(F) /\ Count(S, g, b) = Cardinality(G)
  BY DEF Count
<1>3. /\ f[t] = b /\ c = b => G = F
      /\ f[t] # b /\ c # b => G = F
      /\ f[t] # b /\ c = b => G = F \cup {t} /\ t \notin F
      /\ f[t] = b /\ c # b => G = F \ {t} /\ t \in F
  OBVIOUS
<1> HIDE DEF F, G
<1>4. /\ f[t] # b /\ c = b => Cardinality(G) = Cardinality(F) + 1
      /\ f[t] = b /\ c # b => Cardinality(G) = Cardinality(F) - 1
  BY <1>1, <1>3, FS_AddElement, FS_RemoveElement
<1> QED BY <1>1, <1>2, <1>3, <1>4 DEF Is

(* The blocks of the threads' values.                                      *)
Pis(f) == [t \in Threads |-> f[t].pi]

LEMMA RefsAreCounts ==
  \A b : Refs(b) = Count(Slots, pi, b) + Count(Threads, Pis(arg), b) + Count(Threads, Pis(x), b)
<1> SUFFICES ASSUME NEW b
             PROVE  Refs(b) = Count(Slots, pi, b) + Count(Threads, Pis(arg), b) + Count(Threads, Pis(x), b)
  OBVIOUS
<1>1. /\ {t \in Threads : arg[t].pi = b} = {t \in Threads : Pis(arg)[t] = b}
      /\ {t \in Threads : x[t].pi = b} = {t \in Threads : Pis(x)[t] = b}
  BY DEF Pis
<1> QED BY <1>1 DEF Refs, Count

(* A reference to a is replaced by one to c.                               *)
Moves(S, f, g, a, c) == \A b \in Blocks : Count(S, g, b) = Count(S, f, b) - Is(a, b) + Is(c, b)

LEMMA NothingMoves ==
  ASSUME NEW S, IsFiniteSet(S), NEW f, NEW g, \A u \in S : g[u] = f[u], NEW a
  PROVE  Moves(S, f, g, a, a)
<1> SUFFICES ASSUME NEW b \in Blocks
             PROVE  Count(S, g, b) = Count(S, f, b) - Is(a, b) + Is(a, b)
  BY DEF Moves
<1>1. {u \in S : g[u] = b} = {u \in S : f[u] = b}
  OBVIOUS
<1>2. Count(S, g, b) = Count(S, f, b)
  BY <1>1 DEF Count
<1>3. Count(S, f, b) \in Nat
  BY CountType
<1> QED BY <1>2, <1>3 DEF Is

LEMMA OneMoves ==
  ASSUME NEW S, IsFiniteSet(S), NEW f, NEW g, NEW c, NEW t \in S,
         \A u \in S : g[u] = IF u = t THEN c ELSE f[u]
  PROVE  Moves(S, f, g, f[t], c)
BY CountWrite DEF Moves

(* The ledger: references to d and e come, and references to a and c go,   *)
(* in the slots and in the values of the threads.                          *)
LEMMA Ledger ==
  ASSUME CountsAreHolders, IInv', ValueTypes',
         NEW s0, NEW s1, NEW a0, NEW a1, NEW x0, NEW x1,
         Moves(Slots, pi, pi', s0, s1),
         Moves(Threads, Pis(arg), Pis(arg'), a0, a1),
         Moves(Threads, Pis(x), Pis(x'), x0, x1),
         use' \in [Blocks -> Int],
         \A b \in Blocks : use'[b] = use[b] - Is(s0, b) + Is(s1, b) - Is(a0, b) + Is(a1, b)
                                            - Is(x0, b) + Is(x1, b)
  PROVE  CountsAreHolders'
<1>1. ASSUME NEW b \in Blocks
      PROVE  use'[b] = Refs(b)' /\ use'[b] \in Nat
  <2>1. /\ Count(Slots, pi, b) \in Nat /\ Count(Slots, pi', b) \in Nat
        /\ Count(Threads, Pis(arg), b) \in Nat /\ Count(Threads, Pis(arg'), b) \in Nat
        /\ Count(Threads, Pis(x), b) \in Nat /\ Count(Threads, Pis(x'), b) \in Nat
    BY CountType, LockerAssumption
  <2>2. use[b] = Count(Slots, pi, b) + Count(Threads, Pis(arg), b) + Count(Threads, Pis(x), b)
    BY RefsAreCounts DEF CountsAreHolders
  <2>3. Refs(b)' = Count(Slots, pi', b) + Count(Threads, Pis(arg'), b) + Count(Threads, Pis(x'), b)
    <3>1. /\ {t \in Threads : arg'[t].pi = b} = {t \in Threads : Pis(arg')[t] = b}
          /\ {t \in Threads : x'[t].pi = b} = {t \in Threads : Pis(x')[t] = b}
      BY DEF Pis
    <3> QED BY <3>1 DEF Refs, Count
  <2>4. /\ Count(Slots, pi', b) = Count(Slots, pi, b) - Is(s0, b) + Is(s1, b)
        /\ Count(Threads, Pis(arg'), b) = Count(Threads, Pis(arg), b) - Is(a0, b) + Is(a1, b)
        /\ Count(Threads, Pis(x'), b) = Count(Threads, Pis(x), b) - Is(x0, b) + Is(x1, b)
    BY DEF Moves
  <2>5. use'[b] = use[b] - Is(s0, b) + Is(s1, b) - Is(a0, b) + Is(a1, b) - Is(x0, b) + Is(x1, b)
    OBVIOUS
  <2> QED BY <2>1, <2>2, <2>3, <2>4, <2>5 DEF Is
<1>2. use' \in [Blocks -> Nat]
  BY <1>1
<1>3. TypeOK'
  BY <1>2 DEF TypeOK, IInv, Types, ValueTypes
<1> QED BY <1>1, <1>3 DEF CountsAreHolders

LEMMA UseType ==
  ASSUME CountsAreHolders
  PROVE  use \in [Blocks -> Nat] /\ Counted
BY DEF CountsAreHolders, TypeOK, Counted

LEMMA AddRefAdds ==
  ASSUME CountsAreHolders, NEW c \in BlocksOrNo, AddRef(c)
  PROVE  use' \in [Blocks -> Int] /\ \A b \in Blocks : use'[b] = use[b] + Is(c, b)
<1>1. use \in [Blocks -> Nat]
  BY UseType
<1>2. CASE c = NoBlock
  BY <1>1, <1>2, LockerAssumption DEF AddRef, Is
<1>3. CASE c # NoBlock
  <2>1. c \in Blocks /\ use' = [use EXCEPT ![c] = use[c] + 1]
    BY <1>3 DEF AddRef, BlocksOrNo
  <2> QED BY <1>1, <2>1 DEF Is
<1> QED BY <1>2, <1>3

LEMMA UnrefTakes ==
  ASSUME CountsAreHolders, NEW c \in BlocksOrNo, Unref(c)
  PROVE  use' \in [Blocks -> Int] /\ \A b \in Blocks : use'[b] = use[b] - Is(c, b)
<1>1. use \in [Blocks -> Nat]
  BY UseType
<1>2. CASE c = NoBlock
  BY <1>1, <1>2, LockerAssumption DEF Unref, Is
<1>3. CASE c # NoBlock
  <2>1. c \in Blocks /\ use' = [use EXCEPT ![c] = use[c] - 1]
    BY <1>3 DEF Unref, BlocksOrNo
  <2> QED BY <1>1, <2>1 DEF Is
<1> QED BY <1>2, <1>3

(* No reference changes: only pointers, or the place, do.                  *)
LEMMA SameRefs ==
  ASSUME VInv, IInv', ValueTypes', UNCHANGED <<pi, use>>,
         \A t \in Threads : arg'[t].pi = arg[t].pi /\ x'[t].pi = x[t].pi
  PROVE  CountsAreHolders'
<1>1. /\ Moves(Slots, pi, pi', NoBlock, NoBlock)
      /\ Moves(Threads, Pis(arg), Pis(arg'), NoBlock, NoBlock)
      /\ Moves(Threads, Pis(x), Pis(x'), NoBlock, NoBlock)
  <2>1. \A t \in Threads : Pis(arg')[t] = Pis(arg)[t] /\ Pis(x')[t] = Pis(x)[t]
    BY DEF Pis
  <2> QED BY <2>1, NothingMoves, LockerAssumption
<1>2. use \in [Blocks -> Nat]
  BY UseType DEF VInv
<1>3. \A b \in Blocks : Is(NoBlock, b) = 0
  BY LockerAssumption DEF Is
<1>4. \A b \in Blocks : use'[b] = use[b] - Is(NoBlock, b) + Is(NoBlock, b) - Is(NoBlock, b)
                          + Is(NoBlock, b) - Is(NoBlock, b) + Is(NoBlock, b)
  BY <1>2, <1>3
<1>5. use' \in [Blocks -> Int]
  BY <1>2
<1> QED BY <1>1, <1>4, <1>5, Ledger DEF VInv

-----------------------------------------------------------------------------
(* What a step of one thread leaves to the others.                         *)

OthersStay(t) ==
  \A u \in Threads \ {t} :
    /\ pc'[u] = pc[u] /\ op'[u] = op[u] /\ p'[u] = p[u] /\ v'[u] = v[u]
    /\ arg'[u] = arg[u] /\ x'[u] = x[u]

(* It writes the shared_ptrs that it has locked.                           *)
SlotsStay(t) ==
  \A s \in Slots :
    IF InBody(t) /\ s \in {p[t], v[t]}
      THEN Whole(Members(s))' \/ Half(t, s)'
      ELSE ptr'[s] = ptr[s] /\ pi'[s] = pi[s]

LEMMA OthersKeep ==
  ASSUME VInv, NEW t \in Threads, OthersStay(t), SlotsStay(t), NEW u \in Threads, u # t
  PROVE  OpOK(u)' /\ HandsOK(u)'
<1>1. OpOK(u) /\ HandsOK(u) /\ Locking(u)
  BY DEF VInv, IInv
<1>2. /\ pc'[u] = pc[u] /\ op'[u] = op[u] /\ p'[u] = p[u] /\ v'[u] = v[u]
      /\ arg'[u] = arg[u] /\ x'[u] = x[u]
  BY DEF OthersStay
<1>3. InBody(u) =>
        /\ ptr'[p[u]] = ptr[p[u]] /\ pi'[p[u]] = pi[p[u]]
        /\ ptr'[v[u]] = ptr[v[u]] /\ pi'[v[u]] = pi[v[u]]
  <2> SUFFICES ASSUME InBody(u), NEW s \in {p[u], v[u]}
               PROVE  ptr'[s] = ptr[s] /\ pi'[s] = pi[s]
    OBVIOUS
  <2>1. s \in Slots
    BY <1>1 DEF Locking
  <2>2. ~(InBody(t) /\ s \in {p[t], v[t]})
    BY Exclusive DEF VInv, BodiesAreExclusive
  <2> QED BY <2>1, <2>2 DEF SlotsStay
<1>4. OpOK(u)'
  BY <1>1, <1>2 DEF OpOK
<1>5. HandsOK(u)'
  BY <1>1, <1>2, <1>3 DEF HandsOK, Members, Whole, Equal, Target, CasPcs, InBody, BodyPcs
<1> QED BY <1>4, <1>5

LEMMA StepOfOne ==
  ASSUME VInv, NEW t \in Threads, IInv', ValueTypes', CountsAreHolders',
         OthersStay(t), SlotsStay(t), OpOK(t)', HandsOK(t)'
  PROVE  VInv'
<1>1. \A u \in Threads \ {t} : OpOK(u)' /\ HandsOK(u)'
  BY OthersKeep
<1>2. ASSUME NEW s \in Slots
      PROVE  Whole(Members(s))' \/ \E u \in Threads : Half(u, s)'
  <2>1. CASE InBody(t) /\ s \in {p[t], v[t]}
    BY <2>1 DEF SlotsStay
  <2>2. CASE ~(InBody(t) /\ s \in {p[t], v[t]})
    <3>1. Members(s)' = Members(s)
      BY <2>2 DEF SlotsStay, Members
    <3>2. ~Half(t, s)
      BY <2>2 DEF Half, InBody, BodyPcs
    <3>3. \A u \in Threads \ {t} : Half(u, s)' <=> Half(u, s)
      BY DEF Half, OthersStay
    <3> QED BY <3>1, <3>2, <3>3 DEF VInv, SlotsWhole, Whole
  <2> QED BY <2>1, <2>2
<1> QED BY <1>1, <1>2 DEF VInv, SlotsWhole

(* Nobody else has half written what a thread has locked.                  *)
LEMMA OwnWhole ==
  ASSUME VInv, NEW t \in Threads, InBody(t), NEW s \in Slots, s \in {p[t], v[t]}, ~Half(t, s)
  PROVE  Whole(Members(s))
<1>1. ASSUME NEW u \in Threads, Half(u, s)
      PROVE  FALSE
  <2>1. u # t /\ InBody(u) /\ s \in {p[u], v[u]}
    BY <1>1 DEF Half, InBody, BodyPcs
  <2> QED BY <2>1, Exclusive DEF VInv, BodiesAreExclusive
<1> QED BY <1>1 DEF VInv, SlotsWhole

HalfPcs == {"swap_pi", "put_pi", "copy_pi"}

LEMMA SlotsUntouched ==
  ASSUME VInv, NEW t \in Threads, UNCHANGED <<ptr, pi>>, pc[t] \notin HalfPcs
  PROVE  SlotsStay(t)
<1> SUFFICES ASSUME NEW s \in Slots, InBody(t), s \in {p[t], v[t]}
             PROVE  Whole(Members(s))'
  BY DEF SlotsStay
<1>1. Whole(Members(s)) /\ Members(s)' = Members(s)
  BY OwnWhole DEF Half, HalfPcs, Members
<1> QED BY <1>1 DEF Whole

LEMMA StepKeepsIInv ==
  ASSUME VInv, NEW t \in Threads, Client(t) \/ Step(t)
  PROVE  IInv'
BY NextIInv DEF VInv, Next

LEMMA NoValueType == NoValue \in Values
BY DEF NoValue, Values, Ptrs, BlocksOrNo

(* What the invariant says of the thread that makes a step.                *)
LEMMA KnowsOf ==
  ASSUME VInv, NEW t \in Threads
  PROVE  /\ OpOK(t) /\ HandsOK(t) /\ Types /\ ValueTypes
         /\ InBody(t) \/ pc[t] \in {"lock1", "lock2"} => p[t] \in Slots /\ v[t] \in Slots
         /\ arg[t] \in Values /\ x[t] \in Values
         /\ arg[t].ptr \in Ptrs /\ arg[t].pi \in BlocksOrNo /\ x[t].pi \in BlocksOrNo
         /\ \A s \in Slots : ptr[s] \in Ptrs /\ pi[s] \in BlocksOrNo
<1>1. OpOK(t) /\ HandsOK(t) /\ Types /\ ValueTypes /\ Locking(t)
  BY DEF VInv, IInv
<1>2. arg[t] \in Values /\ x[t] \in Values
  BY <1>1 DEF ValueTypes
<1> QED BY <1>1, <1>2 DEF ValueTypes, Locking, Values

-----------------------------------------------------------------------------
(* Steps that change no value.                                             *)

LEMMA ControlStep ==
  ASSUME VInv, NEW t \in Threads, Client(t) \/ Step(t),
         UNCHANGED <<ptr, pi, use, arg, x>>, pc[t] \notin HalfPcs,
         OthersStay(t), OpOK(t)', HandsOK(t)'
  PROVE  VInv'
<1>1. IInv' /\ ValueTypes'
  BY StepKeepsIInv DEF VInv, ValueTypes
<1>2. CountsAreHolders'
  BY <1>1, SameRefs
<1>3. SlotsStay(t)
  BY SlotsUntouched
<1> QED BY <1>1, <1>2, <1>3, StepOfOne

LEMMA ResetStep ==
  ASSUME VInv, NEW t \in Threads, Reset(t)
  PROVE  VInv'
<1>1. /\ pc[t] = "idle" /\ pc' = [pc EXCEPT ![t] = "drop_arg"]
      /\ UNCHANGED <<ptr, pi, use, arg, x, p, v, op>>
  BY DEF Reset, Goto, shared, local, call
<1>2. OthersStay(t) /\ pc'[t] = "drop_arg"
  BY <1>1, KnowsOf DEF Types, OthersStay
<1>3. OpOK(t)' /\ HandsOK(t)'
  BY <1>1, <1>2, KnowsOf DEF OpOK, HandsOK, CasPcs
<1> QED BY <1>1, <1>2, <1>3, ControlStep DEF Client, HalfPcs

LEMMA CallingStep ==
  ASSUME VInv, NEW t \in Threads, NEW o \in {"load", "swap", "cas"}, NEW s \in Slots, NEW r \in Slots,
         Call(t, o, s, r)
  PROVE  VInv'
<1>1. /\ pc[t] = "idle" /\ pc' = [pc EXCEPT ![t] = "lock1"] /\ op' = [op EXCEPT ![t] = o]
      /\ p' = [p EXCEPT ![t] = s] /\ v' = [v EXCEPT ![t] = r] /\ (o = "load" => arg[t] = NoValue)
      /\ UNCHANGED <<ptr, pi, use, arg, x>>
  BY DEF Call, shared, local
<1>2. OthersStay(t) /\ pc'[t] = "lock1" /\ op'[t] = o
  BY <1>1, KnowsOf DEF Types, OthersStay
<1>3. OpOK(t)' /\ HandsOK(t)'
  BY <1>1, <1>2, KnowsOf DEF OpOK, HandsOK, CasPcs
<1>4. Client(t)
  BY DEF Client
<1> QED BY <1>1, <1>2, <1>3, <1>4, ControlStep DEF HalfPcs

LEMMA LockingStep ==
  ASSUME VInv, NEW t \in Threads, Lock1(t) \/ Lock2(t)
  PROVE  VInv'
<1>1. /\ pc[t] \in {"lock1", "lock2"} /\ UNCHANGED <<ptr, pi, use, arg, x, p, v, op>>
      /\ \E place \in {Body(t), "lock2"} : pc' = [pc EXCEPT ![t] = place]
  BY DEF Lock1, Lock2, Goto, shared, local, call
<1>2. OthersStay(t) /\ pc'[t] \in {Body(t), "lock2"}
  BY <1>1, KnowsOf DEF Types, OthersStay
<1>3. OpOK(t) /\ HandsOK(t)
  BY KnowsOf
<1>4. OpOK(t)' /\ HandsOK(t)'
  BY <1>1, <1>2, <1>3 DEF OpOK, HandsOK, CasPcs, Body
<1> QED BY <1>1, <1>2, <1>4, ControlStep DEF Step, HalfPcs

LEMMA UnlockingStep ==
  ASSUME VInv, NEW t \in Threads, Unlock(t)
  PROVE  VInv'
<1>1. /\ pc[t] = "unlock" /\ UNCHANGED <<ptr, pi, use, arg, x>>
      /\ \/ op[t] = "cas" /\ UNCHANGED <<p, v, op>> /\ pc' = [pc EXCEPT ![t] = "drop_x"]
         \/ /\ op[t] # "cas" /\ op' = [op EXCEPT ![t] = "none"] /\ p' = [p EXCEPT ![t] = NoSlot]
            /\ v' = [v EXCEPT ![t] = NoSlot] /\ pc' = [pc EXCEPT ![t] = "idle"]
  BY DEF Unlock, Goto, Return, shared, local, call
<1>2. /\ OthersStay(t)
      /\ IF op[t] = "cas" THEN pc'[t] = "drop_x" ELSE pc'[t] = "idle"
  BY <1>1, KnowsOf DEF Types, OthersStay
<1>3. HandsOK(t)
  BY KnowsOf
<1>4. OpOK(t)' /\ HandsOK(t)'
  BY <1>1, <1>2, <1>3 DEF OpOK, HandsOK, CasPcs
<1> QED BY <1>1, <1>2, <1>4, ControlStep DEF Step, HalfPcs

LEMMA CompareStep ==
  ASSUME VInv, NEW t \in Threads, Compare(t)
  PROVE  VInv'
<1>1. /\ pc[t] = "compare" /\ UNCHANGED <<ptr, pi, use, arg, x, p, v, op>>
      /\ pc' = [pc EXCEPT ![t] = IF Equal(t) THEN "take_p" ELSE "take_v"]
  BY DEF Compare, Goto, shared, local, call
<1>2. OthersStay(t) /\ pc'[t] = IF Equal(t) THEN "take_p" ELSE "take_v"
  BY <1>1, KnowsOf DEF Types, OthersStay
<1>3. OpOK(t) /\ HandsOK(t) /\ Equal(t)' = Equal(t)
  BY <1>1, KnowsOf DEF Equal
<1>4. OpOK(t)' /\ HandsOK(t)'
  BY <1>1, <1>2, <1>3 DEF OpOK, HandsOK, CasPcs
<1> QED BY <1>1, <1>2, <1>4, ControlStep DEF Step, HalfPcs

-----------------------------------------------------------------------------
(* Steps that change pointers only.                                        *)

LEMMA PointerStep ==
  ASSUME VInv, NEW t \in Threads, Client(t) \/ Step(t), ValueTypes',
         UNCHANGED <<pi, use>>, \A u \in Threads : arg'[u].pi = arg[u].pi /\ x'[u].pi = x[u].pi,
         OthersStay(t), SlotsStay(t), OpOK(t)', HandsOK(t)'
  PROVE  VInv'
<1>1. IInv'
  BY StepKeepsIInv
<1>2. CountsAreHolders'
  BY <1>1, SameRefs
<1> QED BY <1>1, <1>2, StepOfOne

LEMMA ValueWrite ==
  ASSUME NEW a \in Values, NEW q \in Ptrs
  PROVE  /\ [a EXCEPT !.ptr = q] = [ptr |-> q, pi |-> a.pi]
         /\ [a EXCEPT !.ptr = q] \in Values
         /\ [a EXCEPT !.ptr = q].pi = a.pi
BY DEF Values

LEMMA AliasStep ==
  ASSUME VInv, NEW t \in Threads, NEW i \in Parts, Alias(t, i)
  PROVE  VInv'
<1>1. /\ pc[t] = "idle" /\ UNCHANGED <<ptr, pi, use, x, p, v, op, pc>> /\ arg[t] # NoValue
      /\ arg' = [arg EXCEPT ![t] = [arg[t] EXCEPT !.ptr = <<arg[t].pi, i>>]]
  BY DEF Alias, shared, call
<1>2. OpOK(t) /\ HandsOK(t) /\ Types /\ ValueTypes /\ arg[t] \in Values
  BY KnowsOf
<1>3. arg[t].pi \in Blocks
  BY <1>1, <1>2 DEF HandsOK, Whole, NoValue, Values, BlocksOrNo
<1>4. PICK a \in Values : /\ arg' = [arg EXCEPT ![t] = a]
                          /\ a.pi = arg[t].pi
  BY <1>1, <1>2, <1>3, ValueWrite DEF Ptrs
<1>5. /\ arg'[t] = a /\ \A u \in Threads \ {t} : arg'[u] = arg[u]
      /\ arg' \in [Threads -> Values]
  BY <1>2, <1>4 DEF ValueTypes
<1>6. ValueTypes' /\ OthersStay(t)
  BY <1>1, <1>2, <1>5 DEF ValueTypes, OthersStay
<1>7. OpOK(t)' /\ HandsOK(t)'
  BY <1>1, <1>2, <1>3, <1>4, <1>5, LockerAssumption DEF OpOK, HandsOK, CasPcs, Whole
<1>8. SlotsStay(t)
  BY <1>1, SlotsUntouched DEF HalfPcs
<1>9. \A u \in Threads : arg'[u].pi = arg[u].pi /\ x'[u].pi = x[u].pi
  BY <1>1, <1>4, <1>5
<1> QED BY <1>1, <1>6, <1>7, <1>8, <1>9, PointerStep DEF Client

LEMMA ReadPtrStep ==
  ASSUME VInv, NEW t \in Threads, ReadPtr(t)
  PROVE  VInv'
<1>1. /\ pc[t] = "read_ptr" /\ UNCHANGED <<ptr, pi, use, x, p, v, op>>
      /\ pc' = [pc EXCEPT ![t] = "read_pi"]
      /\ arg' = [arg EXCEPT ![t] = [arg[t] EXCEPT !.ptr = ptr[p[t]]]]
  BY DEF ReadPtr, shared, call, Goto
<1>2. /\ OpOK(t) /\ HandsOK(t) /\ Types /\ ValueTypes /\ arg[t] \in Values
      /\ p[t] \in Slots /\ ptr[p[t]] \in Ptrs
  BY <1>1, KnowsOf DEF InBody, BodyPcs
<1>3. PICK a \in Values : /\ arg' = [arg EXCEPT ![t] = a]
                          /\ a = [ptr |-> ptr[p[t]], pi |-> arg[t].pi]
  BY <1>1, <1>2, ValueWrite
<1>4. /\ arg'[t] = a /\ \A u \in Threads \ {t} : arg'[u] = arg[u]
      /\ arg' \in [Threads -> Values] /\ pc'[t] = "read_pi"
  BY <1>1, <1>2, <1>3 DEF ValueTypes, Types
<1>5. ValueTypes' /\ OthersStay(t)
  BY <1>1, <1>2, <1>4 DEF ValueTypes, Types, OthersStay
<1>6. arg[t] = NoValue
  BY <1>1, <1>2 DEF HandsOK
<1>7. OpOK(t)' /\ HandsOK(t)'
  BY <1>1, <1>2, <1>3, <1>4, <1>6 DEF OpOK, HandsOK, CasPcs, Whole, NoValue
<1>8. SlotsStay(t)
  BY <1>1, SlotsUntouched DEF HalfPcs
<1>9. \A u \in Threads : arg'[u].pi = arg[u].pi /\ x'[u].pi = x[u].pi
  BY <1>1, <1>3, <1>4
<1> QED BY <1>1, <1>5, <1>7, <1>8, <1>9, PointerStep DEF Step

LEMMA SwapPtrStep ==
  ASSUME VInv, NEW t \in Threads, SwapPtr(t)
  PROVE  VInv'
<1>1. /\ pc[t] = "swap_ptr" /\ UNCHANGED <<pi, use, x, p, v, op>>
      /\ pc' = [pc EXCEPT ![t] = "swap_pi"]
      /\ arg' = [arg EXCEPT ![t] = [arg[t] EXCEPT !.ptr = ptr[p[t]]]]
      /\ ptr' = [ptr EXCEPT ![p[t]] = arg[t].ptr]
  BY DEF SwapPtr, shared, call, Goto
<1>2. /\ OpOK(t) /\ HandsOK(t) /\ Types /\ ValueTypes /\ arg[t] \in Values
      /\ p[t] \in Slots /\ v[t] \in Slots /\ ptr[p[t]] \in Ptrs /\ arg[t].ptr \in Ptrs
  BY <1>1, KnowsOf DEF InBody, BodyPcs
<1>3. PICK a \in Values : /\ arg' = [arg EXCEPT ![t] = a]
                          /\ a = [ptr |-> ptr[p[t]], pi |-> arg[t].pi]
  BY <1>1, <1>2, ValueWrite
<1>4. /\ arg'[t] = a /\ \A u \in Threads \ {t} : arg'[u] = arg[u]
      /\ arg' \in [Threads -> Values] /\ pc'[t] = "swap_pi"
  BY <1>1, <1>2, <1>3 DEF ValueTypes, Types
<1>5. /\ ptr' \in [Slots -> Ptrs] /\ ptr'[p[t]] = arg[t].ptr
      /\ \A s \in Slots \ {p[t]} : ptr'[s] = ptr[s]
  BY <1>1, <1>2 DEF ValueTypes
<1>6. ValueTypes' /\ OthersStay(t)
  BY <1>1, <1>2, <1>4, <1>5 DEF ValueTypes, Types, OthersStay
<1>7. \A s \in {p[t], v[t]} : Whole(Members(s))
  BY <1>1, <1>2, OwnWhole DEF InBody, BodyPcs, Half
<1>8. OpOK(t)' /\ HandsOK(t)'
  BY <1>1, <1>2, <1>3, <1>4, <1>5, <1>7 DEF OpOK, HandsOK, CasPcs, Whole, Members
<1>9. SlotsStay(t)
  BY <1>1, <1>4, <1>5, <1>7 DEF SlotsStay, Half, Whole, Members, InBody, BodyPcs
<1>10. \A u \in Threads : arg'[u].pi = arg[u].pi /\ x'[u].pi = x[u].pi
  BY <1>1, <1>3, <1>4
<1> QED BY <1>1, <1>6, <1>8, <1>9, <1>10, PointerStep DEF Step

(* The members of the target are moved out one after the other.            *)
LEMMA TakePtrStep ==
  ASSUME VInv, NEW t \in Threads, TakePtr(t)
  PROVE  VInv'
<1>1. /\ pc[t] \in {"take_p", "take_v"} /\ UNCHANGED <<ptr, pi, use, arg, p, v, op>>
      /\ pc' = [pc EXCEPT ![t] = IF pc[t] = "take_p" THEN "take_p_pi" ELSE "take_v_pi"]
      /\ x' = [x EXCEPT ![t] = [x[t] EXCEPT !.ptr = ptr[Target(t)]]]
  BY DEF TakePtr, shared, call, Goto
<1>2. /\ OpOK(t) /\ HandsOK(t) /\ Types /\ ValueTypes /\ x[t] \in Values
      /\ p[t] \in Slots /\ v[t] \in Slots /\ ptr[Target(t)] \in Ptrs
  BY <1>1, KnowsOf DEF InBody, BodyPcs, Target
<1>3. x[t] = NoValue
  BY <1>1, <1>2 DEF HandsOK, CasPcs
<1>4. PICK a \in Values : /\ x' = [x EXCEPT ![t] = a]
                          /\ a = [ptr |-> ptr[Target(t)], pi |-> x[t].pi]
  BY <1>1, <1>2, ValueWrite
<1>5. /\ x'[t] = a /\ \A u \in Threads \ {t} : x'[u] = x[u]
      /\ x' \in [Threads -> Values]
      /\ pc'[t] = IF pc[t] = "take_p" THEN "take_p_pi" ELSE "take_v_pi"
  BY <1>1, <1>2, <1>4 DEF ValueTypes, Types
<1>6. ValueTypes' /\ OthersStay(t)
  BY <1>1, <1>2, <1>5 DEF ValueTypes, Types, OthersStay
<1>7. Target(t)' = Target(t) /\ Equal(t)' = Equal(t)
  BY <1>1, <1>5 DEF Target, Equal
<1>8. OpOK(t)' /\ HandsOK(t)'
  BY <1>1, <1>2, <1>3, <1>4, <1>5, <1>7 DEF OpOK, HandsOK, CasPcs, Whole, NoValue
<1>9. SlotsStay(t)
  BY <1>1, SlotsUntouched DEF HalfPcs
<1>10. \A u \in Threads : arg'[u].pi = arg[u].pi /\ x'[u].pi = x[u].pi
  BY <1>1, <1>4, <1>5
<1> QED BY <1>1, <1>6, <1>8, <1>9, <1>10, PointerStep DEF Step

LEMMA PutPtrStep ==
  ASSUME VInv, NEW t \in Threads, PutPtr(t)
  PROVE  VInv'
<1>1. /\ pc[t] = "put_ptr" /\ UNCHANGED <<pi, use, arg, x, p, v, op>>
      /\ pc' = [pc EXCEPT ![t] = "put_pi"]
      /\ ptr' = [ptr EXCEPT ![p[t]] = arg[t].ptr]
  BY DEF PutPtr, local, call, Goto
<1>2. /\ OpOK(t) /\ HandsOK(t) /\ Types /\ ValueTypes /\ p[t] \in Slots /\ v[t] \in Slots
      /\ arg[t].ptr \in Ptrs
  BY <1>1, KnowsOf DEF InBody, BodyPcs, Values
<1>3. /\ ptr' \in [Slots -> Ptrs] /\ ptr'[p[t]] = arg[t].ptr
      /\ \A s \in Slots \ {p[t]} : ptr'[s] = ptr[s]
      /\ pc'[t] = "put_pi"
  BY <1>1, <1>2 DEF ValueTypes, Types
<1>4. ValueTypes' /\ OthersStay(t)
  BY <1>1, <1>2, <1>3 DEF ValueTypes, Types, OthersStay
<1>5. \A s \in {p[t], v[t]} : Whole(Members(s))
  BY <1>1, <1>2, OwnWhole DEF InBody, BodyPcs, Half
<1>6. OpOK(t)' /\ HandsOK(t)'
  BY <1>1, <1>2, <1>3 DEF OpOK, HandsOK, CasPcs, Whole, Members
<1>7. SlotsStay(t)
  BY <1>1, <1>3, <1>5 DEF SlotsStay, Half, Whole, Members, InBody, BodyPcs
<1> QED BY <1>1, <1>4, <1>6, <1>7, PointerStep DEF Step

LEMMA CopyPtrStep ==
  ASSUME VInv, NEW t \in Threads, CopyPtr(t)
  PROVE  VInv'
<1>1. /\ pc[t] = "copy_ptr" /\ UNCHANGED <<pi, use, arg, x, p, v, op>>
      /\ pc' = [pc EXCEPT ![t] = "copy_pi"]
      /\ ptr' = [ptr EXCEPT ![v[t]] = ptr[p[t]]]
  BY DEF CopyPtr, local, call, Goto
<1>2. /\ OpOK(t) /\ HandsOK(t) /\ Types /\ ValueTypes /\ p[t] \in Slots /\ v[t] \in Slots
      /\ ptr[p[t]] \in Ptrs /\ p[t] # v[t]
  BY <1>1, KnowsOf DEF InBody, BodyPcs, HandsOK
<1>3. /\ ptr' \in [Slots -> Ptrs] /\ ptr'[v[t]] = ptr[p[t]]
      /\ \A s \in Slots \ {v[t]} : ptr'[s] = ptr[s]
      /\ pc'[t] = "copy_pi"
  BY <1>1, <1>2 DEF ValueTypes, Types
<1>4. ValueTypes' /\ OthersStay(t)
  BY <1>1, <1>2, <1>3 DEF ValueTypes, Types, OthersStay
<1>5. \A s \in {p[t], v[t]} : Whole(Members(s))
  BY <1>1, <1>2, OwnWhole DEF InBody, BodyPcs, Half
<1>6. OpOK(t)' /\ HandsOK(t)'
  BY <1>1, <1>2, <1>3 DEF OpOK, HandsOK, CasPcs, Whole, Members
<1>7. SlotsStay(t)
  BY <1>1, <1>3, <1>5 DEF SlotsStay, Half, Whole, Members, InBody, BodyPcs
<1> QED BY <1>1, <1>4, <1>6, <1>7, PointerStep DEF Step

-----------------------------------------------------------------------------
(* Steps that move a reference, or count one.                              *)

LEMMA CountStep ==
  ASSUME VInv, NEW t \in Threads, Client(t) \/ Step(t), ValueTypes',
         NEW s0, NEW s1, Moves(Slots, pi, pi', s0, s1),
         use' \in [Blocks -> Int],
         \A b \in Blocks :
           use'[b] = use[b] - Is(s0, b) + Is(s1, b) - Is(arg[t].pi, b) + Is(arg'[t].pi, b)
                            - Is(x[t].pi, b) + Is(x'[t].pi, b),
         OthersStay(t), SlotsStay(t), OpOK(t)', HandsOK(t)'
  PROVE  VInv'
<1>1. IInv'
  BY StepKeepsIInv
<1>2. /\ \A u \in Threads : Pis(arg')[u] = IF u = t THEN arg'[t].pi ELSE Pis(arg)[u]
      /\ \A u \in Threads : Pis(x')[u] = IF u = t THEN x'[t].pi ELSE Pis(x)[u]
      /\ Pis(arg)[t] = arg[t].pi /\ Pis(x)[t] = x[t].pi
  BY DEF Pis, OthersStay
<1>3. /\ Moves(Threads, Pis(arg), Pis(arg'), Pis(arg)[t], arg'[t].pi)
      /\ Moves(Threads, Pis(x), Pis(x'), Pis(x)[t], x'[t].pi)
  BY <1>2, OneMoves, LockerAssumption
<1>4. CountsAreHolders'
  BY <1>1, <1>2, <1>3, Ledger DEF VInv
<1> QED BY <1>1, <1>4, StepOfOne

LEMMA SlotsKeep == UNCHANGED pi => Moves(Slots, pi, pi', NoBlock, NoBlock)
<1> SUFFICES ASSUME UNCHANGED pi PROVE Moves(Slots, pi, pi', NoBlock, NoBlock)
  OBVIOUS
<1>1. \A s \in Slots : pi'[s] = pi[s]
  OBVIOUS
<1> QED BY <1>1, NothingMoves, LockerAssumption

LEMMA SlotMoves ==
  ASSUME VInv, NEW s \in Slots, NEW c, pi' = [pi EXCEPT ![s] = c]
  PROVE  Moves(Slots, pi, pi', pi[s], c)
<1>1. \A r \in Slots : pi'[r] = IF r = s THEN c ELSE pi[r]
  BY DEF VInv, ValueTypes
<1> QED BY <1>1, OneMoves, LockerAssumption

LEMMA MakeStep ==
  ASSUME VInv, NEW t \in Threads, NEW b \in Blocks, NEW i \in Parts, Make(t, b, i)
  PROVE  VInv'
<1>1. /\ pc[t] = "idle" /\ arg[t] = NoValue /\ use[b] = 0 /\ use' = [use EXCEPT ![b] = 1]
      /\ arg' = [arg EXCEPT ![t] = [ptr |-> <<b, i>>, pi |-> b]]
      /\ UNCHANGED <<ptr, pi, x, p, v, op, pc>>
  BY DEF Make, shared, call
<1>2. OpOK(t) /\ HandsOK(t) /\ Types /\ ValueTypes /\ use \in [Blocks -> Nat]
  BY KnowsOf, UseType DEF VInv
<1>3. [ptr |-> <<b, i>>, pi |-> b] \in Values
  BY DEF Values, Ptrs, BlocksOrNo
<1>4. /\ arg' \in [Threads -> Values] /\ arg'[t] = [ptr |-> <<b, i>>, pi |-> b]
      /\ \A u \in Threads \ {t} : arg'[u] = arg[u]
  BY <1>1, <1>2, <1>3 DEF ValueTypes
<1>5. ValueTypes' /\ OthersStay(t)
  BY <1>1, <1>2, <1>4 DEF ValueTypes, OthersStay
<1>6. OpOK(t)' /\ HandsOK(t)'
  BY <1>1, <1>2, <1>4, LockerAssumption DEF OpOK, HandsOK, CasPcs, Whole
<1>7. SlotsStay(t)
  BY <1>1, SlotsUntouched DEF HalfPcs
<1>8. use' \in [Blocks -> Int] /\ \A c \in Blocks : use'[c] = use[c] + Is(b, c)
  BY <1>1, <1>2 DEF Is
<1>9. arg[t].pi = NoBlock /\ arg'[t].pi = b /\ x'[t] = x[t]
  BY <1>1, <1>4 DEF NoValue
<1>10. \A c \in Blocks :
         use'[c] = use[c] - Is(NoBlock, c) + Is(NoBlock, c) - Is(arg[t].pi, c) + Is(arg'[t].pi, c)
                          - Is(x[t].pi, c) + Is(x'[t].pi, c)
  BY <1>2, <1>8, <1>9, LockerAssumption DEF Is
<1>11. Moves(Slots, pi, pi', NoBlock, NoBlock) /\ Client(t)
  BY <1>1, SlotsKeep DEF Client
<1> QED BY <1>5, <1>6, <1>7, <1>8, <1>10, <1>11, CountStep

LEMMA ReadPiStep ==
  ASSUME VInv, NEW t \in Threads, ReadPi(t)
  PROVE  VInv'
<1>1. /\ pc[t] = "read_pi" /\ AddRef(pi[p[t]])
      /\ arg' = [arg EXCEPT ![t] = [arg[t] EXCEPT !.pi = pi[p[t]]]]
      /\ pc' = [pc EXCEPT ![t] = "unlock"]
      /\ UNCHANGED <<ptr, pi, x, p, v, op>>
  BY DEF ReadPi, shared, call, Goto
<1>2. /\ OpOK(t) /\ HandsOK(t) /\ Types /\ ValueTypes /\ use \in [Blocks -> Nat]
      /\ p[t] \in Slots /\ ptr[p[t]] \in Ptrs /\ pi[p[t]] \in BlocksOrNo
  BY <1>1, KnowsOf, UseType DEF VInv, InBody, BodyPcs
<1>3. arg[t] = [ptr |-> ptr[p[t]], pi |-> NoBlock]
  BY <1>1, <1>2 DEF HandsOK
<1>4. [arg[t] EXCEPT !.pi = pi[p[t]]] = Members(p[t]) /\ Members(p[t]) \in Values
  BY <1>2, <1>3 DEF Members, Values
<1>5. /\ arg' \in [Threads -> Values] /\ arg'[t] = Members(p[t]) /\ pc'[t] = "unlock"
      /\ \A u \in Threads \ {t} : arg'[u] = arg[u]
  BY <1>1, <1>2, <1>4 DEF ValueTypes, Types
<1>6. ValueTypes' /\ OthersStay(t)
  BY <1>1, <1>2, <1>5 DEF ValueTypes, OthersStay, Types
<1>7. Whole(Members(p[t]))
  BY <1>1, <1>2, OwnWhole DEF Half, InBody, BodyPcs
<1>8. OpOK(t)' /\ HandsOK(t)'
  BY <1>1, <1>2, <1>5, <1>7 DEF OpOK, HandsOK, CasPcs, Whole
<1>9. SlotsStay(t)
  BY <1>1, SlotsUntouched DEF HalfPcs
<1>10. use' \in [Blocks -> Int] /\ \A c \in Blocks : use'[c] = use[c] + Is(pi[p[t]], c)
  BY <1>1, <1>2, AddRefAdds DEF VInv
<1>11. arg[t].pi = NoBlock /\ arg'[t].pi = pi[p[t]] /\ x'[t] = x[t]
  BY <1>1, <1>3, <1>5 DEF Members
<1>12. \A c \in Blocks :
         use'[c] = use[c] - Is(NoBlock, c) + Is(NoBlock, c) - Is(arg[t].pi, c) + Is(arg'[t].pi, c)
                          - Is(x[t].pi, c) + Is(x'[t].pi, c)
  BY <1>2, <1>10, <1>11, LockerAssumption DEF Is
<1>13. Moves(Slots, pi, pi', NoBlock, NoBlock) /\ Step(t)
  BY <1>1, SlotsKeep DEF Step
<1> QED BY <1>6, <1>8, <1>9, <1>10, <1>12, <1>13, CountStep

LEMMA DropXStep ==
  ASSUME VInv, NEW t \in Threads, DropX(t)
  PROVE  VInv'
<1>1. /\ pc[t] = "drop_x" /\ Unref(x[t].pi) /\ x' = [x EXCEPT ![t] = NoValue]
      /\ pc' = [pc EXCEPT ![t] = "drop_arg"]
      /\ UNCHANGED <<ptr, pi, arg, p, v, op>>
  BY DEF DropX, shared, call, Goto
<1>2. /\ OpOK(t) /\ HandsOK(t) /\ Types /\ ValueTypes /\ use \in [Blocks -> Nat]
      /\ x[t].pi \in BlocksOrNo
  BY KnowsOf, UseType DEF VInv
<1>3. /\ x' \in [Threads -> Values] /\ x'[t] = NoValue /\ pc'[t] = "drop_arg"
      /\ \A u \in Threads \ {t} : x'[u] = x[u]
  BY <1>1, <1>2, NoValueType DEF ValueTypes, Types
<1>4. ValueTypes' /\ OthersStay(t)
  BY <1>1, <1>2, <1>3 DEF ValueTypes, OthersStay, Types
<1>5. OpOK(t)' /\ HandsOK(t)'
  BY <1>1, <1>2, <1>3 DEF OpOK, HandsOK, CasPcs, Whole
<1>6. SlotsStay(t)
  BY <1>1, SlotsUntouched DEF HalfPcs
<1>7. use' \in [Blocks -> Int] /\ \A c \in Blocks : use'[c] = use[c] - Is(x[t].pi, c)
  BY <1>1, <1>2, UnrefTakes DEF VInv
<1>8. x'[t].pi = NoBlock /\ arg'[t] = arg[t]
  BY <1>1, <1>3 DEF NoValue
<1>9. \A c \in Blocks :
         use'[c] = use[c] - Is(NoBlock, c) + Is(NoBlock, c) - Is(arg[t].pi, c) + Is(arg'[t].pi, c)
                          - Is(x[t].pi, c) + Is(x'[t].pi, c)
  BY <1>2, <1>7, <1>8, LockerAssumption DEF Is
<1>10. Moves(Slots, pi, pi', NoBlock, NoBlock) /\ Step(t)
  BY <1>1, SlotsKeep DEF Step
<1> QED BY <1>4, <1>5, <1>6, <1>7, <1>9, <1>10, CountStep

LEMMA DropArgStep ==
  ASSUME VInv, NEW t \in Threads, DropArg(t)
  PROVE  VInv'
<1>1. /\ pc[t] = "drop_arg" /\ Unref(arg[t].pi) /\ arg' = [arg EXCEPT ![t] = NoValue]
      /\ op' = [op EXCEPT ![t] = "none"] /\ p' = [p EXCEPT ![t] = NoSlot]
      /\ v' = [v EXCEPT ![t] = NoSlot] /\ pc' = [pc EXCEPT ![t] = "idle"]
      /\ UNCHANGED <<ptr, pi, x>>
  BY DEF DropArg, shared, Return
<1>2. /\ OpOK(t) /\ HandsOK(t) /\ Types /\ ValueTypes /\ use \in [Blocks -> Nat]
      /\ arg[t].pi \in BlocksOrNo
  BY KnowsOf, UseType DEF VInv
<1>3. /\ arg' \in [Threads -> Values] /\ arg'[t] = NoValue /\ pc'[t] = "idle"
      /\ \A u \in Threads \ {t} : arg'[u] = arg[u]
  BY <1>1, <1>2, NoValueType DEF ValueTypes, Types
<1>4. ValueTypes' /\ OthersStay(t)
  BY <1>1, <1>2, <1>3 DEF ValueTypes, OthersStay, Types
<1>5. OpOK(t)' /\ HandsOK(t)'
  BY <1>1, <1>2, <1>3 DEF OpOK, HandsOK, CasPcs, Whole, NoValue
<1>6. SlotsStay(t)
  BY <1>1, SlotsUntouched DEF HalfPcs
<1>7. use' \in [Blocks -> Int] /\ \A c \in Blocks : use'[c] = use[c] - Is(arg[t].pi, c)
  BY <1>1, <1>2, UnrefTakes DEF VInv
<1>8. arg'[t].pi = NoBlock /\ x'[t] = x[t]
  BY <1>1, <1>3 DEF NoValue
<1>9. \A c \in Blocks :
         use'[c] = use[c] - Is(NoBlock, c) + Is(NoBlock, c) - Is(arg[t].pi, c) + Is(arg'[t].pi, c)
                          - Is(x[t].pi, c) + Is(x'[t].pi, c)
  BY <1>2, <1>7, <1>8, LockerAssumption DEF Is
<1>10. Moves(Slots, pi, pi', NoBlock, NoBlock) /\ Step(t)
  BY <1>1, SlotsKeep DEF Step
<1> QED BY <1>4, <1>5, <1>6, <1>7, <1>9, <1>10, CountStep

LEMMA SwapPiStep ==
  ASSUME VInv, NEW t \in Threads, SwapPi(t)
  PROVE  VInv'
<1>1. /\ pc[t] = "swap_pi" /\ UNCHANGED <<ptr, use, x, p, v, op>>
      /\ arg' = [arg EXCEPT ![t] = [arg[t] EXCEPT !.pi = pi[p[t]]]]
      /\ pi' = [pi EXCEPT ![p[t]] = arg[t].pi]
      /\ pc' = [pc EXCEPT ![t] = "unlock"]
  BY DEF SwapPi, call, Goto
<1>2. /\ OpOK(t) /\ HandsOK(t) /\ Types /\ ValueTypes /\ use \in [Blocks -> Nat]
      /\ p[t] \in Slots /\ v[t] \in Slots /\ pi[p[t]] \in BlocksOrNo /\ arg[t] \in Values
      /\ arg[t].pi \in BlocksOrNo /\ arg[t].ptr \in Ptrs
  BY <1>1, KnowsOf, UseType DEF VInv, InBody, BodyPcs
<1>3. /\ [arg[t] EXCEPT !.pi = pi[p[t]]] = [ptr |-> arg[t].ptr, pi |-> pi[p[t]]]
      /\ [ptr |-> arg[t].ptr, pi |-> pi[p[t]]] \in Values
  BY <1>2 DEF Values
<1>4. /\ arg' \in [Threads -> Values] /\ arg'[t] = [ptr |-> arg[t].ptr, pi |-> pi[p[t]]]
      /\ pc'[t] = "unlock" /\ \A u \in Threads \ {t} : arg'[u] = arg[u]
  BY <1>1, <1>2, <1>3 DEF ValueTypes, Types
<1>5. /\ pi' \in [Slots -> BlocksOrNo] /\ pi'[p[t]] = arg[t].pi
      /\ \A s \in Slots \ {p[t]} : pi'[s] = pi[s]
  BY <1>1, <1>2 DEF ValueTypes
<1>6. ValueTypes' /\ OthersStay(t)
  BY <1>1, <1>2, <1>4, <1>5 DEF ValueTypes, OthersStay, Types
<1>7. OpOK(t)' /\ HandsOK(t)'
  BY <1>1, <1>2, <1>4 DEF OpOK, HandsOK, CasPcs, Whole
<1>8. SlotsStay(t)
  <2>1. Whole(Members(p[t]))'
    BY <1>1, <1>2, <1>5 DEF HandsOK, Whole, Members
  <2>2. v[t] # p[t] => Whole(Members(v[t]))
    BY <1>1, <1>2, OwnWhole DEF Half, InBody, BodyPcs
  <2>3. Whole(Members(v[t]))'
    BY <1>1, <1>2, <1>5, <2>1, <2>2 DEF Whole, Members
  <2>4. InBody(t)
    BY <1>1 DEF InBody, BodyPcs
  <2> QED BY <1>1, <1>5, <2>1, <2>3, <2>4 DEF SlotsStay, Whole, Members
<1>9. arg'[t].pi = pi[p[t]] /\ x'[t] = x[t]
  BY <1>1, <1>4
<1>10. \A c \in Blocks :
         use'[c] = use[c] - Is(pi[p[t]], c) + Is(arg[t].pi, c) - Is(arg[t].pi, c) + Is(arg'[t].pi, c)
                          - Is(x[t].pi, c) + Is(x'[t].pi, c)
  BY <1>1, <1>2, <1>9 DEF Is
<1>11. Moves(Slots, pi, pi', pi[p[t]], arg[t].pi)
  BY <1>1, <1>2, SlotMoves
<1>12. Step(t) /\ use' \in [Blocks -> Int]
  BY <1>1, <1>2 DEF Step
<1> QED BY <1>6, <1>7, <1>8, <1>10, <1>11, <1>12, CountStep

LEMMA TakePiStep ==
  ASSUME VInv, NEW t \in Threads, TakePi(t)
  PROVE  VInv'
<1> DEFINE s == Target(t)
<1>1. /\ pc[t] \in {"take_p_pi", "take_v_pi"} /\ UNCHANGED <<use, arg, p, v, op>>
      /\ x' = [x EXCEPT ![t] = [x[t] EXCEPT !.pi = pi[s]]]
      /\ pi' = [pi EXCEPT ![s] = NoBlock] /\ ptr' = [ptr EXCEPT ![s] = NoPtr]
      /\ pc' = [pc EXCEPT ![t] = IF pc[t] = "take_p_pi" THEN "put_ptr" ELSE "copy_ptr"]
  BY DEF TakePi, call, Goto
<1>2. /\ OpOK(t) /\ HandsOK(t) /\ Types /\ ValueTypes /\ use \in [Blocks -> Nat]
      /\ p[t] \in Slots /\ v[t] \in Slots
      /\ \A r \in Slots : ptr[r] \in Ptrs /\ pi[r] \in BlocksOrNo
  BY <1>1, KnowsOf, UseType DEF VInv, InBody, BodyPcs
<1>3. s \in Slots /\ s = (IF pc[t] = "take_p_pi" THEN p[t] ELSE v[t])
  BY <1>1, <1>2 DEF Target
<1>4. x[t] = [ptr |-> ptr[s], pi |-> NoBlock]
  BY <1>1, <1>2 DEF HandsOK
<1> HIDE DEF s
<1>5. [x[t] EXCEPT !.pi = pi[s]] = Members(s) /\ Members(s) \in Values
  BY <1>2, <1>3, <1>4 DEF Values, Members
<1>6. /\ x' \in [Threads -> Values] /\ x'[t] = Members(s) /\ \A u \in Threads \ {t} : x'[u] = x[u]
      /\ pc'[t] = IF pc[t] = "take_p_pi" THEN "put_ptr" ELSE "copy_ptr"
  BY <1>1, <1>2, <1>5 DEF ValueTypes, Types
<1>7. /\ pi' \in [Slots -> BlocksOrNo] /\ pi'[s] = NoBlock /\ ptr' \in [Slots -> Ptrs] /\ ptr'[s] = NoPtr
      /\ \A r \in Slots \ {s} : pi'[r] = pi[r] /\ ptr'[r] = ptr[r]
  BY <1>1, <1>2, <1>3 DEF ValueTypes, Ptrs, BlocksOrNo
<1>8. ValueTypes' /\ OthersStay(t)
  BY <1>1, <1>2, <1>6, <1>7 DEF ValueTypes, OthersStay, Types
<1>9. OpOK(t)' /\ HandsOK(t)'
  <2>1. CASE pc[t] = "take_p_pi"
    <3>1. Equal(t) /\ s = p[t] /\ pc'[t] = "put_ptr" /\ op[t] = "cas"
      BY <1>2, <1>3, <1>6, <2>1 DEF HandsOK, OpOK, CasPcs
    <3>2. p[t] # v[t] => x'[t] = Members(v[t])'
      BY <1>1, <1>2, <1>6, <1>7, <3>1 DEF Equal, Members
    <3> QED BY <1>1, <1>2, <1>3, <1>7, <2>1, <3>1, <3>2 DEF OpOK, HandsOK, CasPcs, Whole
  <2>2. CASE pc[t] = "take_v_pi"
    <3>1. ~Equal(t) /\ s = v[t] /\ pc'[t] = "copy_ptr" /\ op[t] = "cas"
      BY <1>2, <1>3, <1>6, <2>2 DEF HandsOK, OpOK, CasPcs
    <3>2. p[t] # v[t] /\ x'[t] # Members(p[t])'
      BY <1>1, <1>2, <1>6, <1>7, <3>1 DEF Equal, Members
    <3> QED BY <1>1, <1>2, <1>3, <1>7, <2>2, <3>1, <3>2 DEF OpOK, HandsOK, CasPcs, Whole
  <2> QED BY <1>1, <2>1, <2>2
<1>10. SlotsStay(t)
  <2>1. \A r \in {p[t], v[t]} : Whole(Members(r))
    BY <1>1, <1>2, OwnWhole DEF Half, InBody, BodyPcs
  <2>2. InBody(t)
    BY <1>1 DEF InBody, BodyPcs
  <2>3. s \in {p[t], v[t]}
    BY <1>3
  <2> QED BY <1>1, <1>2, <1>7, <2>1, <2>2, <2>3 DEF SlotsStay, Whole, Members
<1>11. x[t].pi = NoBlock /\ x'[t].pi = pi[s] /\ arg'[t] = arg[t]
  BY <1>1, <1>4, <1>6 DEF Members
<1>12. \A c \in Blocks :
         use'[c] = use[c] - Is(pi[s], c) + Is(NoBlock, c) - Is(arg[t].pi, c) + Is(arg'[t].pi, c)
                          - Is(x[t].pi, c) + Is(x'[t].pi, c)
  BY <1>1, <1>2, <1>11, LockerAssumption DEF Is
<1>13. Moves(Slots, pi, pi', pi[s], NoBlock)
  BY <1>1, <1>3, SlotMoves
<1>14. Step(t) /\ use' \in [Blocks -> Int]
  BY <1>1, <1>2 DEF Step
<1> QED BY <1>8, <1>9, <1>10, <1>12, <1>13, <1>14, CountStep

LEMMA PutPiStep ==
  ASSUME VInv, NEW t \in Threads, PutPi(t)
  PROVE  VInv'
<1>1. /\ pc[t] = "put_pi" /\ UNCHANGED <<ptr, use, x, p, v, op>>
      /\ arg' = [arg EXCEPT ![t] = NoValue]
      /\ pi' = [pi EXCEPT ![p[t]] = arg[t].pi]
      /\ pc' = [pc EXCEPT ![t] = "unlock"]
  BY DEF PutPi, call, Goto
<1>2. /\ OpOK(t) /\ HandsOK(t) /\ Types /\ ValueTypes /\ use \in [Blocks -> Nat]
      /\ p[t] \in Slots /\ v[t] \in Slots /\ arg[t].pi \in BlocksOrNo
  BY <1>1, KnowsOf, UseType DEF VInv, InBody, BodyPcs
<1>3. /\ arg' \in [Threads -> Values] /\ arg'[t] = NoValue
      /\ pc'[t] = "unlock" /\ \A u \in Threads \ {t} : arg'[u] = arg[u]
  BY <1>1, <1>2, NoValueType DEF ValueTypes, Types
<1>4. /\ pi' \in [Slots -> BlocksOrNo] /\ pi'[p[t]] = arg[t].pi
      /\ \A s \in Slots \ {p[t]} : pi'[s] = pi[s]
  BY <1>1, <1>2 DEF ValueTypes
<1>5. ValueTypes' /\ OthersStay(t)
  BY <1>1, <1>2, <1>3, <1>4 DEF ValueTypes, OthersStay, Types
<1>6. OpOK(t)' /\ HandsOK(t)'
  BY <1>1, <1>2, <1>3 DEF OpOK, HandsOK, CasPcs, Whole, NoValue
<1>7. pi[p[t]] = NoBlock /\ ptr[p[t]] = arg[t].ptr /\ Whole(arg[t])
  BY <1>1, <1>2 DEF HandsOK
<1>8. SlotsStay(t)
  <2>1. Whole(Members(p[t]))'
    BY <1>1, <1>4, <1>7 DEF Whole, Members
  <2>2. v[t] # p[t] => Whole(Members(v[t]))
    BY <1>1, <1>2, OwnWhole DEF Half, InBody, BodyPcs
  <2>3. Whole(Members(v[t]))'
    BY <1>1, <1>2, <1>4, <2>1, <2>2 DEF Whole, Members
  <2>4. InBody(t)
    BY <1>1 DEF InBody, BodyPcs
  <2> QED BY <1>1, <1>4, <2>1, <2>3, <2>4 DEF SlotsStay, Whole, Members
<1>9. arg'[t].pi = NoBlock /\ x'[t] = x[t]
  BY <1>1, <1>3 DEF NoValue
<1>10. \A c \in Blocks :
         use'[c] = use[c] - Is(NoBlock, c) + Is(arg[t].pi, c) - Is(arg[t].pi, c) + Is(arg'[t].pi, c)
                          - Is(x[t].pi, c) + Is(x'[t].pi, c)
  BY <1>1, <1>2, <1>9, LockerAssumption DEF Is
<1>11. Moves(Slots, pi, pi', NoBlock, arg[t].pi)
  <2>1. Moves(Slots, pi, pi', pi[p[t]], arg[t].pi)
    BY <1>1, <1>2, SlotMoves
  <2> QED BY <1>7, <2>1
<1>12. Step(t) /\ use' \in [Blocks -> Int]
  BY <1>1, <1>2 DEF Step
<1> QED BY <1>5, <1>6, <1>8, <1>10, <1>11, <1>12, CountStep

LEMMA CopyPiStep ==
  ASSUME VInv, NEW t \in Threads, CopyPi(t)
  PROVE  VInv'
<1>1. /\ pc[t] = "copy_pi" /\ UNCHANGED <<ptr, arg, x, p, v, op>>
      /\ pi' = [pi EXCEPT ![v[t]] = pi[p[t]]] /\ AddRef(pi[p[t]])
      /\ pc' = [pc EXCEPT ![t] = "unlock"]
  BY DEF CopyPi, local, call, Goto
<1>2. /\ OpOK(t) /\ HandsOK(t) /\ Types /\ ValueTypes /\ use \in [Blocks -> Nat]
      /\ p[t] \in Slots /\ v[t] \in Slots /\ pi[p[t]] \in BlocksOrNo
  BY <1>1, KnowsOf, UseType DEF VInv, InBody, BodyPcs
<1>3. /\ pi' \in [Slots -> BlocksOrNo] /\ pi'[v[t]] = pi[p[t]] /\ pc'[t] = "unlock"
      /\ \A s \in Slots \ {v[t]} : pi'[s] = pi[s]
  BY <1>1, <1>2 DEF ValueTypes, Types
<1>4. ValueTypes' /\ OthersStay(t)
  BY <1>1, <1>2, <1>3 DEF ValueTypes, OthersStay, Types
<1>5. OpOK(t)' /\ HandsOK(t)'
  BY <1>1, <1>2, <1>3 DEF OpOK, HandsOK, CasPcs, Whole
<1>6. pi[v[t]] = NoBlock /\ ptr[v[t]] = ptr[p[t]] /\ p[t] # v[t]
  BY <1>1, <1>2 DEF HandsOK
<1>7. SlotsStay(t)
  <2>1. Whole(Members(p[t]))
    BY <1>1, <1>2, <1>6, OwnWhole DEF Half, InBody, BodyPcs
  <2>2. Whole(Members(p[t]))' /\ Whole(Members(v[t]))'
    BY <1>1, <1>2, <1>3, <1>6, <2>1 DEF Whole, Members
  <2>3. InBody(t)
    BY <1>1 DEF InBody, BodyPcs
  <2> QED BY <1>1, <1>3, <2>2, <2>3 DEF SlotsStay, Whole, Members
<1>8. use' \in [Blocks -> Int] /\ \A c \in Blocks : use'[c] = use[c] + Is(pi[p[t]], c)
  BY <1>1, <1>2, AddRefAdds DEF VInv
<1>9. \A c \in Blocks :
         use'[c] = use[c] - Is(NoBlock, c) + Is(pi[p[t]], c) - Is(arg[t].pi, c) + Is(arg'[t].pi, c)
                          - Is(x[t].pi, c) + Is(x'[t].pi, c)
  BY <1>1, <1>2, <1>8, LockerAssumption DEF Is
<1>10. Moves(Slots, pi, pi', NoBlock, pi[p[t]]) /\ Step(t)
  BY <1>1, <1>2, <1>6, SlotMoves DEF Step
<1> QED BY <1>4, <1>5, <1>7, <1>8, <1>9, <1>10, CountStep

-----------------------------------------------------------------------------
(* The invariant is inductive.                                             *)

LEMMA InitVInv == Init => VInv
<1> SUFFICES ASSUME Init PROVE VInv
  OBVIOUS
<1>1. IInv
  BY InitIInv
<1>2. ValueTypes
  BY NoValueType DEF Init, ValueTypes, Ptrs, BlocksOrNo
<1>3. CountsAreHolders
  <2>1. TypeOK
    BY <1>1, <1>2 DEF Init, TypeOK, IInv, Types, ValueTypes
  <2>2. ASSUME NEW b \in Blocks
        PROVE  use[b] = Refs(b)
    <3>1. /\ {s \in Slots : pi[s] = b} = {} /\ {t \in Threads : arg[t].pi = b} = {}
          /\ {t \in Threads : x[t].pi = b} = {}
      BY LockerAssumption DEF Init, NoValue
    <3>2. Cardinality({}) = 0
      BY FS_EmptySet
    <3>3. Refs(b) = Cardinality({}) + Cardinality({}) + Cardinality({})
      BY <3>1 DEF Refs
    <3>4. use[b] = 0
      BY DEF Init
    <3> QED BY <3>2, <3>3, <3>4
  <2> QED BY <2>1, <2>2 DEF CountsAreHolders
<1>4. SlotsWhole
  BY DEF Init, SlotsWhole, Whole, Members
<1>5. ASSUME NEW t \in Threads PROVE OpOK(t) /\ HandsOK(t)
  BY DEF Init, OpOK, HandsOK, CasPcs, Whole, NoValue
<1> QED BY <1>1, <1>2, <1>3, <1>4, <1>5 DEF VInv

LEMMA NextVInv == VInv /\ [Next]_vars => VInv'
<1> SUFFICES ASSUME VInv, [Next]_vars PROVE VInv'
  OBVIOUS
<1>1. CASE UNCHANGED vars
  <2>1. IInv'
    BY NextIInv DEF VInv
  <2>2. /\ UNCHANGED <<ptr, pi, use, arg, x, p, v, op, pc>>
        /\ ValueTypes' /\ SlotsWhole'
    BY <1>1 DEF vars, VInv, ValueTypes, SlotsWhole, Half, Whole, Members
  <2>3. CountsAreHolders'
    BY <2>1, <2>2, SameRefs
  <2>4. ASSUME NEW t \in Threads PROVE OpOK(t)' /\ HandsOK(t)'
    BY <2>2, KnowsOf DEF OpOK, HandsOK, Equal, Target, Members, Whole
  <2> QED BY <2>1, <2>2, <2>3, <2>4 DEF VInv
<1>2. CASE Next
  <2>1. PICK t \in Threads : Client(t) \/ Step(t)
    BY <1>2 DEF Next
  <2>2. CASE Client(t)
    BY <2>2, MakeStep, AliasStep, ResetStep, CallingStep DEF Client
  <2>3. CASE Step(t)
    BY <2>3, LockingStep, UnlockingStep, DropXStep, DropArgStep, ReadPtrStep, ReadPiStep,
       SwapPtrStep, SwapPiStep, CompareStep, TakePtrStep, TakePiStep, PutPtrStep, PutPiStep,
       CopyPtrStep, CopyPiStep DEF Step
  <2> QED BY <2>1, <2>2, <2>3
<1> QED BY <1>1, <1>2

LEMMA ValuesInvariant == Spec => []VInv
BY InitVInv, NextVInv, PTL DEF Spec

(* Every reference that a shared_ptr or a running operation holds is       *)
(* counted, for any number of them.                                        *)
THEOREM CountsAreExact == Spec => []CountsAreHolders
<1>1. VInv => CountsAreHolders
  BY DEF VInv
<1> QED BY <1>1, ValuesInvariant, PTL

-----------------------------------------------------------------------------
(* The registers: the values that SharedRegisters sees.                    *)

Moving == {"put_ptr", "put_pi", "copy_ptr", "copy_pi"}

(* The shared_ptr that a thread is changing, and the value that it still   *)
(* has for the client.                                                     *)
Mid(t, s) == (pc[t] \in Moving /\ Target(t) = s) \/ (pc[t] = "swap_pi" /\ p[t] = s)
Old(t, s) == IF pc[t] = "swap_pi" THEN [ptr |-> arg[t].ptr, pi |-> pi[s]] ELSE x[t]

OldDuringChange ==
  \A t \in Threads, s \in Slots :
    Mid(t, s) /\ (\A u \in Threads : Mid(u, s) => u = t) => Value(s) = Old(t, s)
MembersAtRest ==
  \A s \in Slots : (\A u \in Threads : ~Mid(u, s)) => Value(s) = Members(s)

LEMMA ValueDuringChange == OldDuringChange
<1> SUFFICES ASSUME NEW t \in Threads, NEW s \in Slots, Mid(t, s),
                    \A u \in Threads : Mid(u, s) => u = t
             PROVE  Value(s) = Old(t, s)
  BY DEF OldDuringChange
<1>1. CASE pc[t] \in Moving /\ Target(t) = s
  <2> DEFINE Q(u) == pc[u] \in {"put_ptr", "put_pi", "copy_ptr", "copy_pi"} /\ Target(u) = s
  <2>1. Q(t) /\ \A u \in Threads : Q(u) => u = t
    BY <1>1 DEF Mid, Moving
  <2>2. (CHOOSE u \in Threads : Q(u)) = t
    BY <2>1
  <2>3. Value(s) = x[t]
    BY <2>1, <2>2 DEF Value
  <2> QED BY <1>1, <2>3 DEF Old, Moving
<1>2. CASE pc[t] = "swap_pi" /\ p[t] = s
  <2> DEFINE Q(u) == pc[u] = "swap_pi" /\ p[u] = s
  <2>1. Q(t) /\ \A u \in Threads : Q(u) => u = t
    BY <1>2 DEF Mid
  <2>2. (CHOOSE u \in Threads : Q(u)) = t
    BY <2>1
  <2>3. ~\E u \in Threads : pc[u] \in {"put_ptr", "put_pi", "copy_ptr", "copy_pi"} /\ Target(u) = s
    BY <1>2 DEF Mid, Moving
  <2>4. Value(s) = [ptr |-> arg[t].ptr, pi |-> pi[s]]
    BY <2>1, <2>2, <2>3 DEF Value
  <2> QED BY <1>2, <2>4 DEF Old
<1> QED BY <1>1, <1>2 DEF Mid

LEMMA ValueAtRest == MembersAtRest
BY DEF MembersAtRest, Mid, Moving, Value, Members

(* The same in the next state.                                             *)
LEMMA NewValueDuringChange == OldDuringChange'
BY ValueDuringChange, PTL

LEMMA NewValueAtRest == MembersAtRest'
BY ValueAtRest, PTL

(* Only one thread changes a shared_ptr, and it has locked it.             *)
OneChanges ==
  \A t \in Threads, s \in Slots :
    InBody(t) /\ s \in {p[t], v[t]} => \A u \in Threads : Mid(u, s) => u = t

LEMMA OnlyOneChanges == VInv => OneChanges
<1> SUFFICES ASSUME VInv, NEW t \in Threads, NEW s \in Slots, InBody(t), s \in {p[t], v[t]},
                    NEW u \in Threads, Mid(u, s)
             PROVE  u = t
  BY DEF OneChanges
<1>1. InBody(u) /\ s \in {p[u], v[u]}
  BY DEF Mid, Moving, Target, InBody, BodyPcs
<1> QED BY <1>1, Exclusive DEF VInv, BodiesAreExclusive

LEMMA NewOnlyOneChanges == VInv' => OneChanges'
BY OnlyOneChanges, PTL

LEMMA MidIsInBody ==
  ASSUME NEW t \in Threads, NEW s, Mid(t, s)
  PROVE  InBody(t) /\ s \in {p[t], v[t]}
BY DEF Mid, Moving, Target, InBody, BodyPcs

(* What a thread has locked has its members as its value, unless the       *)
(* thread is changing it.                                                  *)
LEMMA ValueOfLocked ==
  ASSUME VInv, NEW t \in Threads, NEW s \in Slots, InBody(t), s \in {p[t], v[t]}
  PROVE  /\ Mid(t, s) => Value(s) = Old(t, s)
         /\ ~Mid(t, s) => Value(s) = Members(s)
<1>1. \A u \in Threads : Mid(u, s) => u = t
  BY OnlyOneChanges DEF OneChanges
<1> QED BY <1>1, ValueDuringChange, ValueAtRest DEF OldDuringChange, MembersAtRest

LEMMA NewValueOfLocked ==
  ASSUME VInv', NEW t \in Threads, NEW s \in Slots, InBody(t)', s \in {p'[t], v'[t]}
  PROVE  /\ Mid(t, s)' => Value(s)' = Old(t, s)'
         /\ ~Mid(t, s)' => Value(s)' = Members(s)'
<1>1. \A u \in Threads : Mid(u, s)' => u = t
  BY NewOnlyOneChanges DEF OneChanges
<1> QED BY <1>1, NewValueDuringChange, NewValueAtRest DEF OldDuringChange, MembersAtRest

LEMMA ValueKept ==
  ASSUME VInv, VInv', NEW t \in Threads, OthersStay(t), NEW s \in Slots,
         ~Mid(t, s), ~Mid(t, s)', Members(s)' = Members(s)
  PROVE  Value(s)' = Value(s)
<1>1. \A u \in Threads : Mid(u, s)' <=> Mid(u, s)
  BY DEF OthersStay, Mid, Target
<1>2. CASE \A u \in Threads : ~Mid(u, s)
  BY <1>1, <1>2, ValueAtRest, NewValueAtRest DEF MembersAtRest
<1>3. CASE \E u \in Threads : Mid(u, s)
  <2>1. PICK u \in Threads : Mid(u, s)
    BY <1>3
  <2>2. \A w \in Threads : Mid(w, s) => w = u
    BY <2>1, MidIsInBody, OnlyOneChanges DEF OneChanges
  <2>3. Value(s) = Old(u, s) /\ Value(s)' = Old(u, s)'
    BY <1>1, <2>1, <2>2, ValueDuringChange, NewValueDuringChange DEF OldDuringChange
  <2>4. u # t
    BY <2>1
  <2>5. Old(u, s)' = Old(u, s)
    BY <2>4 DEF Old, OthersStay, Members
  <2> QED BY <2>3, <2>5
<1> QED BY <1>2, <1>3

-----------------------------------------------------------------------------
(* A step of a thread is a step of the registers on what it has locked.    *)

Vals  == [s \in Slots |-> Value(s)]
Args  == [t \in Threads |-> Argument(t)]
Calls == [t \in Threads |-> Asked(t)]
Seen  == <<Vals, Args, Calls>>

(* Outside of what it has locked a thread writes nothing.                  *)
WritesOwn(t) ==
  \A s \in Slots : (InBody(t) /\ s \in {p[t], v[t]}) \/ Members(s)' = Members(s)

LEMMA OthersSee ==
  ASSUME VInv, NEW t \in Threads, OthersStay(t), WritesOwn(t)
  PROVE  \A u \in Threads \ {t} : Argument(u)' = Argument(u) /\ Asked(u)' = Asked(u)
<1> SUFFICES ASSUME NEW u \in Threads, u # t
             PROVE  Argument(u)' = Argument(u) /\ Asked(u)' = Asked(u)
  OBVIOUS
<1>1. /\ pc'[u] = pc[u] /\ op'[u] = op[u] /\ p'[u] = p[u] /\ v'[u] = v[u]
      /\ arg'[u] = arg[u]
  BY DEF OthersStay
<1>2. pc[u] = "swap_pi" => ptr'[p[u]] = ptr[p[u]]
  <2> SUFFICES ASSUME pc[u] = "swap_pi" PROVE ptr'[p[u]] = ptr[p[u]]
    OBVIOUS
  <2>1. InBody(u) /\ p[u] \in Slots
    BY KnowsOf DEF InBody, BodyPcs
  <2>2. ~(InBody(t) /\ p[u] \in {p[t], v[t]})
    BY <2>1, Exclusive DEF VInv, BodiesAreExclusive
  <2>3. Members(p[u]).ptr = ptr[p[u]] /\ \A s \in Slots : Members(s)'.ptr = ptr'[s]
    BY DEF Members
  <2>4. \A s \in Slots : s = p[u] => Members(s)' = Members(s)
    BY <2>2 DEF WritesOwn
  <2> QED BY <2>1, <2>3, <2>4 DEF Members
<1>3. Argument(u)' = Argument(u)
  BY <1>1, <1>2 DEF Argument
<1>4. Asked(u)' = Asked(u)
  BY <1>1 DEF Asked
<1> QED BY <1>3, <1>4

LEMMA SeenByOne ==
  ASSUME VInv, NEW t \in Threads, OthersStay(t), WritesOwn(t)
  PROVE  /\ Args' = [Args EXCEPT ![t] = Argument(t)'] /\ Calls' = [Calls EXCEPT ![t] = Asked(t)']
         /\ Argument(t)' = Argument(t) => Args' = Args
         /\ Asked(t)' = Asked(t) => Calls' = Calls
         /\ Args[t] = Argument(t) /\ Calls[t] = Asked(t)
BY OthersSee DEF Args, Calls

(* One shared_ptr may change.                                              *)
LEMMA OneChanged ==
  ASSUME VInv, VInv', NEW t \in Threads, OthersStay(t), NEW s \in Slots,
         \A r \in Slots \ {s} : Members(r)' = Members(r) /\ ~Mid(t, r) /\ ~Mid(t, r)'
  PROVE  /\ Vals' = [Vals EXCEPT ![s] = Value(s)']
         /\ Value(s)' = Value(s) => Vals' = Vals
<1>1. \A r \in Slots \ {s} : Value(r)' = Value(r)
  BY ValueKept
<1> QED BY <1>1 DEF Vals

LEMMA NoneChanged ==
  ASSUME VInv, VInv', NEW t \in Threads, OthersStay(t), UNCHANGED <<ptr, pi>>,
         pc[t] \notin Moving \cup {"swap_pi"}, pc'[t] \notin Moving \cup {"swap_pi"}
  PROVE  Vals' = Vals /\ WritesOwn(t)
<1>1. \A s \in Slots : Members(s)' = Members(s) /\ ~Mid(t, s) /\ ~Mid(t, s)'
  BY DEF Members, Mid
<1>2. \A s \in Slots : Value(s)' = Value(s)
  BY <1>1, ValueKept
<1> QED BY <1>1, <1>2 DEF Vals, WritesOwn

LEMMA StepIsLocal ==
  ASSUME VInv, NEW t \in Threads, Client(t) \/ Step(t)
  PROVE  OthersStay(t)
<1>1. Types /\ ValueTypes
  BY DEF VInv, IInv
<1>2. CASE Client(t)
  BY <1>1, <1>2 DEF Client, Make, Alias, Reset, Call, Goto, shared, local, call, Types, ValueTypes, OthersStay
<1>3. CASE Lock1(t) \/ Lock2(t) \/ Unlock(t) \/ Compare(t) \/ DropX(t) \/ DropArg(t)
  BY <1>1, <1>3 DEF Lock1, Lock2, Unlock, Compare, DropX, DropArg, Goto, Return, shared, local, call,
     Types, ValueTypes, OthersStay
<1>4. CASE ReadPtr(t) \/ ReadPi(t) \/ SwapPtr(t) \/ SwapPi(t)
  BY <1>1, <1>4 DEF ReadPtr, ReadPi, SwapPtr, SwapPi, Goto, shared, call, Types, ValueTypes, OthersStay
<1>5. CASE TakePtr(t) \/ TakePi(t) \/ PutPtr(t) \/ PutPi(t) \/ CopyPtr(t) \/ CopyPi(t)
  BY <1>1, <1>5 DEF TakePtr, TakePi, PutPtr, PutPi, CopyPtr, CopyPi, Goto, shared, local, call,
     Types, ValueTypes, OthersStay
<1> QED BY <1>2, <1>3, <1>4, <1>5 DEF Step

LEMMA StepKeepsVInv ==
  ASSUME VInv, NEW t \in Threads, Client(t) \/ Step(t)
  PROVE  VInv'
BY NextVInv DEF Next

-----------------------------------------------------------------------------
(* Steps that the registers do not see.                                    *)

LEMMA QuietStep ==
  ASSUME VInv, NEW t \in Threads, Client(t) \/ Step(t), UNCHANGED <<ptr, pi>>,
         pc[t] \notin Moving \cup {"swap_pi"}, pc'[t] \notin Moving \cup {"swap_pi"},
         Argument(t)' = Argument(t), Asked(t)' = Asked(t)
  PROVE  UNCHANGED Seen
<1>1. OthersStay(t) /\ VInv'
  BY StepIsLocal, StepKeepsVInv
<1>2. Vals' = Vals /\ WritesOwn(t)
  BY <1>1, NoneChanged
<1>3. Args' = Args /\ Calls' = Calls
  BY <1>1, <1>2, SeenByOne
<1> QED BY <1>2, <1>3 DEF Seen

LEMMA ControlIsQuiet ==
  ASSUME VInv, NEW t \in Threads,
         \/ Reset(t) \/ Lock1(t) \/ Lock2(t) \/ Compare(t) \/ Unlock(t) \/ DropX(t) \/ TakePtr(t)
  PROVE  UNCHANGED Seen
<1>1. Types
  BY KnowsOf
<1>2. /\ UNCHANGED <<ptr, pi, arg>>
      /\ \/ /\ pc[t] \in {"lock1", "lock2", "compare", "take_p", "take_v"}
            /\ UNCHANGED <<p, v, op>>
            /\ pc'[t] \in {"lock2", "read_ptr", "swap_ptr", "compare", "take_p", "take_v",
                           "take_p_pi", "take_v_pi"}
         \/ /\ pc[t] \in {"idle", "unlock", "drop_x"}
            /\ pc'[t] \in {"idle", "drop_x", "drop_arg"}
  BY <1>1 DEF Reset, Lock1, Lock2, Compare, Unlock, DropX, TakePtr, Body, Goto, Return, shared, local,
     call, Types
<1>3. Argument(t)' = Argument(t)
  BY <1>2 DEF Argument
<1>4. Asked(t)' = Asked(t)
  BY <1>2 DEF Asked, BodyPcs
<1>5. Client(t) \/ Step(t)
  BY DEF Client, Step
<1> QED BY <1>2, <1>3, <1>4, <1>5, QuietStep DEF Moving

LEMMA ReadPtrIsQuiet ==
  ASSUME VInv, NEW t \in Threads, ReadPtr(t)
  PROVE  UNCHANGED Seen
<1>1. /\ pc[t] = "read_ptr" /\ pc'[t] = "read_pi" /\ UNCHANGED <<ptr, pi, p, v, op>>
      /\ arg[t] = NoValue
  BY KnowsOf DEF ReadPtr, shared, call, Goto, Types, HandsOK
<1>2. Argument(t)' = Argument(t)
  BY <1>1 DEF Argument
<1>3. Asked(t)' = Asked(t)
  BY <1>1 DEF Asked, BodyPcs
<1> QED BY <1>1, <1>2, <1>3, QuietStep DEF Moving, Step

(* Steps that change one shared_ptr, and leave its value.                  *)
LEMMA ChangeIsQuiet ==
  ASSUME VInv, NEW t \in Threads, Step(t), NEW s \in Slots, InBody(t), s \in {p[t], v[t]},
         \A r \in Slots \ {s} : Members(r)' = Members(r) /\ ~Mid(t, r) /\ ~Mid(t, r)',
         Value(s)' = Value(s), Argument(t)' = Argument(t), Asked(t)' = Asked(t)
  PROVE  UNCHANGED Seen
<1>1. OthersStay(t) /\ VInv'
  BY StepIsLocal, StepKeepsVInv
<1>2. WritesOwn(t)
  BY DEF WritesOwn
<1>3. Vals' = Vals
  BY <1>1, OneChanged
<1>4. Args' = Args /\ Calls' = Calls
  BY <1>1, <1>2, SeenByOne
<1> QED BY <1>3, <1>4 DEF Seen

LEMMA SwapPtrIsQuiet ==
  ASSUME VInv, NEW t \in Threads, SwapPtr(t), NEW s \in Slots, s = p[t]
  PROVE  UNCHANGED Seen
<1>1. /\ pc[t] = "swap_ptr" /\ pc'[t] = "swap_pi" /\ UNCHANGED <<pi, p, v, op>>
      /\ arg' = [arg EXCEPT ![t].ptr = ptr[s]] /\ ptr' = [ptr EXCEPT ![s] = arg[t].ptr]
      /\ Types /\ ValueTypes /\ arg[t] \in Values /\ InBody(t) /\ Step(t)
  BY KnowsOf DEF SwapPtr, call, Goto, Types, InBody, BodyPcs, Step
<1>2. /\ ptr'[s] = arg[t].ptr /\ \A r \in Slots \ {s} : ptr'[r] = ptr[r]
      /\ arg'[t].ptr = ptr[s] /\ arg'[t].pi = arg[t].pi
  BY <1>1 DEF ValueTypes, Values
<1>3. VInv' /\ InBody(t)' /\ Mid(t, s)' /\ ~Mid(t, s)
  BY <1>1, StepKeepsVInv DEF InBody, BodyPcs, Mid, Moving
<1>4. \A r \in Slots \ {s} : Members(r)' = Members(r) /\ ~Mid(t, r) /\ ~Mid(t, r)'
  BY <1>1, <1>2 DEF Members, Mid, Moving
<1>5. Value(s) = Members(s)
  BY <1>1, <1>3, ValueOfLocked
<1>6. Value(s)' = Old(t, s)'
  BY <1>1, <1>3, NewValueOfLocked
<1>7. Value(s)' = Value(s)
  BY <1>1, <1>2, <1>5, <1>6 DEF Members, Old
<1>8. Argument(t)' = Argument(t)
  BY <1>1, <1>2 DEF Argument, Values
<1>9. Asked(t)' = Asked(t)
  BY <1>1 DEF Asked, BodyPcs
<1> QED BY <1>1, <1>4, <1>7, <1>8, <1>9, ChangeIsQuiet

LEMMA TakePiIsQuiet ==
  ASSUME VInv, NEW t \in Threads, TakePi(t), NEW s \in Slots, s = Target(t)
  PROVE  UNCHANGED Seen
<1>1. /\ pc[t] \in {"take_p_pi", "take_v_pi"} /\ UNCHANGED <<arg, p, v, op>>
      /\ pc'[t] = IF pc[t] = "take_p_pi" THEN "put_ptr" ELSE "copy_ptr"
      /\ x' = [x EXCEPT ![t].pi = pi[s]]
      /\ pi' = [pi EXCEPT ![s] = NoBlock] /\ ptr' = [ptr EXCEPT ![s] = NoPtr]
      /\ Types /\ ValueTypes /\ HandsOK(t) /\ InBody(t) /\ Step(t)
  BY KnowsOf DEF TakePi, call, Goto, Types, InBody, BodyPcs, Step
<1>2. /\ \A r \in Slots \ {s} : ptr'[r] = ptr[r] /\ pi'[r] = pi[r]
      /\ x[t] = [ptr |-> ptr[s], pi |-> NoBlock] /\ s \in {p[t], v[t]}
  BY <1>1 DEF ValueTypes, HandsOK, Target
<1>3. x'[t] = Members(s)
  BY <1>1, <1>2 DEF ValueTypes, Members
<1>4. VInv' /\ InBody(t)' /\ Mid(t, s)' /\ ~Mid(t, s)
  BY <1>1, StepKeepsVInv DEF InBody, BodyPcs, Mid, Moving, Target
<1>5. \A r \in Slots \ {s} : Members(r)' = Members(r) /\ ~Mid(t, r) /\ ~Mid(t, r)'
  BY <1>1, <1>2 DEF Members, Mid, Moving, Target
<1>6. Value(s) = Members(s)
  BY <1>1, <1>2, <1>4, ValueOfLocked
<1>7. Value(s)' = Old(t, s)'
  BY <1>1, <1>2, <1>4, NewValueOfLocked
<1>8. Value(s)' = Value(s)
  BY <1>1, <1>3, <1>6, <1>7 DEF Old
<1>9. Argument(t)' = Argument(t)
  BY <1>1 DEF Argument
<1>10. Asked(t)' = Asked(t)
  BY <1>1 DEF Asked, BodyPcs
<1> QED BY <1>1, <1>2, <1>5, <1>8, <1>9, <1>10, ChangeIsQuiet

LEMMA HalfIsQuiet ==
  ASSUME VInv, NEW t \in Threads, PutPtr(t) \/ CopyPtr(t), NEW s \in Slots, s = Target(t)
  PROVE  UNCHANGED Seen
<1>1. /\ pc[t] \in {"put_ptr", "copy_ptr"} /\ UNCHANGED <<arg, x, pi, p, v, op>>
      /\ pc'[t] = IF pc[t] = "put_ptr" THEN "put_pi" ELSE "copy_pi"
      /\ \E q : ptr' = [ptr EXCEPT ![s] = q]
      /\ ValueTypes /\ InBody(t) /\ Step(t) /\ s \in {p[t], v[t]}
  BY KnowsOf DEF PutPtr, CopyPtr, call, local, Goto, Types, InBody, BodyPcs, Step, Target
<1>2. \A r \in Slots \ {s} : ptr'[r] = ptr[r]
  BY <1>1 DEF ValueTypes
<1>3. VInv' /\ InBody(t)' /\ Mid(t, s)' /\ Mid(t, s)
  BY <1>1, StepKeepsVInv DEF InBody, BodyPcs, Mid, Moving, Target
<1>4. \A r \in Slots \ {s} : Members(r)' = Members(r) /\ ~Mid(t, r) /\ ~Mid(t, r)'
  BY <1>1, <1>2 DEF Members, Mid, Moving, Target
<1>5. Value(s) = Old(t, s)
  BY <1>1, <1>3, ValueOfLocked
<1>6. Value(s)' = Old(t, s)'
  BY <1>1, <1>3, NewValueOfLocked
<1>7. Value(s)' = Value(s)
  BY <1>1, <1>5, <1>6 DEF Old
<1>8. Argument(t)' = Argument(t)
  BY <1>1 DEF Argument
<1>9. Asked(t)' = Asked(t)
  BY <1>1 DEF Asked, BodyPcs
<1> QED BY <1>1, <1>4, <1>7, <1>8, <1>9, ChangeIsQuiet

-----------------------------------------------------------------------------
(* Steps of the client with its own values, and its calls.                 *)

LEMMA OwnStep ==
  ASSUME VInv, NEW t \in Threads,
         \/ \E b \in Blocks, i \in Parts : Make(t, b, i)
         \/ \E i \in Parts : Alias(t, i)
         \/ DropArg(t)
  PROVE  Registers!Set(t, arg'[t])
<1>1. Client(t) \/ Step(t)
  BY DEF Client, Step
<1>2. OthersStay(t) /\ VInv'
  BY <1>1, StepIsLocal, StepKeepsVInv
<1>3. /\ pc[t] \in {"idle", "drop_arg"} /\ pc'[t] = "idle" /\ UNCHANGED <<ptr, pi>>
  BY KnowsOf DEF Make, Alias, DropArg, Return, shared, Types
<1>4. Vals' = Vals /\ WritesOwn(t)
  BY <1>2, <1>3, NoneChanged DEF Moving
<1>5. /\ Argument(t)' = arg'[t] /\ Asked(t) = NoCall /\ Asked(t)' = NoCall
  BY <1>3 DEF Argument, Asked, BodyPcs
<1>6. Args' = [Args EXCEPT ![t] = arg'[t]] /\ Calls' = Calls /\ Calls[t] = NoCall
  BY <1>2, <1>4, <1>5, SeenByOne
<1> QED BY <1>4, <1>6 DEF Registers!Set, Vals, Args, Calls

LEMMA CallAsks ==
  ASSUME VInv, NEW t \in Threads, NEW o \in {"load", "swap", "cas"}, NEW s \in Slots, NEW r \in Slots,
         Call(t, o, s, r)
  PROVE  Registers!Ask(t, o, s, r)
<1>1. Client(t)
  BY DEF Client
<1>2. OthersStay(t) /\ VInv'
  BY <1>1, StepIsLocal, StepKeepsVInv
<1>3. /\ pc[t] = "idle" /\ pc'[t] = "lock1" /\ UNCHANGED <<ptr, pi, arg>>
      /\ op'[t] = o /\ p'[t] = s /\ v'[t] = r
  BY KnowsOf DEF Call, shared, local, Types
<1>4. Vals' = Vals /\ WritesOwn(t)
  BY <1>2, <1>3, NoneChanged DEF Moving
<1>5. /\ Argument(t)' = Argument(t) /\ Asked(t) = NoCall
      /\ Asked(t)' = [op |-> o, p |-> s, v |-> r]
  BY <1>3 DEF Argument, Asked, BodyPcs
<1>6. /\ Args' = Args /\ Calls' = [Calls EXCEPT ![t] = [op |-> o, p |-> s, v |-> r]]
      /\ Calls[t] = NoCall
  BY <1>2, <1>4, <1>5, SeenByOne
<1> QED BY <1>4, <1>6 DEF Registers!Ask, Vals, Args, Calls

-----------------------------------------------------------------------------
(* The steps in which the operations take effect.                          *)

LEMMA ReadPiLoads ==
  ASSUME VInv, NEW t \in Threads, ReadPi(t), NEW s \in Slots, s = p[t]
  PROVE  Registers!Do(t)
<1>1. /\ pc[t] = "read_pi" /\ pc'[t] = "unlock" /\ UNCHANGED <<ptr, pi, p, v, op>>
      /\ arg' = [arg EXCEPT ![t].pi = pi[s]] /\ op[t] = "load"
      /\ arg[t] = [ptr |-> ptr[s], pi |-> NoBlock]
      /\ ValueTypes /\ InBody(t) /\ Step(t)
  BY KnowsOf DEF ReadPi, shared, call, Goto, Types, InBody, BodyPcs, Step, OpOK, HandsOK
<1>2. OthersStay(t) /\ VInv'
  BY <1>1, StepIsLocal, StepKeepsVInv
<1>3. Vals' = Vals /\ WritesOwn(t)
  BY <1>1, <1>2, NoneChanged DEF Moving
<1>4. Value(s) = Members(s) /\ Vals[s] = Value(s)
  BY <1>1, ValueOfLocked DEF Mid, Moving, Vals
<1>5. arg'[t] = Members(s)
  BY <1>1 DEF ValueTypes, Members
<1>6. /\ Argument(t)' = Vals[s] /\ Asked(t) = [op |-> "load", p |-> s, v |-> v[t]]
      /\ Asked(t)' = NoCall
  BY <1>1, <1>4, <1>5 DEF Argument, Asked, BodyPcs
<1>7. /\ Args' = [Args EXCEPT ![t] = Vals[s]] /\ Calls' = [Calls EXCEPT ![t] = NoCall]
      /\ Calls[t] = [op |-> "load", p |-> s, v |-> v[t]]
  BY <1>2, <1>3, <1>6, SeenByOne
<1>8. Calls[t] # NoCall
  BY <1>7 DEF NoCall
<1>9. Registers!Load(t, s)
  BY <1>3, <1>7 DEF Registers!Load, Vals, Args
<1> QED BY <1>7, <1>8, <1>9 DEF Registers!Do, Calls

LEMMA SwapPiExchanges ==
  ASSUME VInv, NEW t \in Threads, SwapPi(t), NEW s \in Slots, s = p[t]
  PROVE  Registers!Do(t)
<1>1. /\ pc[t] = "swap_pi" /\ pc'[t] = "unlock" /\ UNCHANGED <<ptr, p, v, op>>
      /\ arg' = [arg EXCEPT ![t].pi = pi[s]] /\ pi' = [pi EXCEPT ![s] = arg[t].pi]
      /\ op[t] = "swap" /\ arg[t] \in Values
      /\ ValueTypes /\ InBody(t) /\ Step(t)
  BY KnowsOf DEF SwapPi, call, Goto, Types, InBody, BodyPcs, Step, OpOK
<1>2. /\ pi'[s] = arg[t].pi /\ \A r \in Slots \ {s} : pi'[r] = pi[r]
      /\ arg'[t] = [ptr |-> arg[t].ptr, pi |-> pi[s]]
  BY <1>1 DEF ValueTypes, Values
<1>3. OthersStay(t) /\ VInv' /\ WritesOwn(t)
  BY <1>1, <1>2, StepIsLocal, StepKeepsVInv DEF WritesOwn, Members
<1>4. InBody(t)' /\ Mid(t, s) /\ ~Mid(t, s)'
  BY <1>1 DEF InBody, BodyPcs, Mid, Moving
<1>5. \A r \in Slots \ {s} : Members(r)' = Members(r) /\ ~Mid(t, r) /\ ~Mid(t, r)'
  BY <1>1, <1>2 DEF Members, Mid, Moving
<1>6. Value(s) = [ptr |-> arg[t].ptr, pi |-> pi[s]] /\ Vals[s] = Value(s)
  BY <1>1, <1>4, ValueOfLocked DEF Old, Vals
<1>7. Value(s)' = [ptr |-> ptr[s], pi |-> arg[t].pi]
  <2>1. Value(s)' = Members(s)'
    BY <1>1, <1>3, <1>4, NewValueOfLocked
  <2> QED BY <1>1, <1>2, <2>1 DEF Members
<1>8. Argument(t) = [ptr |-> ptr[s], pi |-> arg[t].pi]
  BY <1>1 DEF Argument
<1>9. /\ Argument(t)' = Vals[s] /\ Asked(t)' = NoCall
      /\ Asked(t) = [op |-> "swap", p |-> s, v |-> v[t]]
  BY <1>1, <1>2, <1>6 DEF Argument, Asked, BodyPcs
<1>10. /\ Args' = [Args EXCEPT ![t] = Vals[s]] /\ Calls' = [Calls EXCEPT ![t] = NoCall]
       /\ Calls[t] = [op |-> "swap", p |-> s, v |-> v[t]] /\ Args[t] = Argument(t)
  BY <1>3, <1>9, SeenByOne
<1>11. Vals' = [Vals EXCEPT ![s] = Args[t]]
  BY <1>3, <1>5, <1>7, <1>8, <1>10, OneChanged
<1>12. Calls[t] # NoCall
  BY <1>10 DEF NoCall
<1>13. Registers!Exchange(t, s)
  BY <1>10, <1>11 DEF Registers!Exchange, Vals, Args
<1> QED BY <1>10, <1>12, <1>13 DEF Registers!Do, Calls

LEMMA PutPiExchanges ==
  ASSUME VInv, NEW t \in Threads, PutPi(t), NEW s \in Slots, s = p[t], NEW r \in Slots, r = v[t]
  PROVE  Registers!Do(t)
<1>1. /\ pc[t] = "put_pi" /\ pc'[t] = "unlock" /\ UNCHANGED <<ptr, x, p, v, op>>
      /\ arg' = [arg EXCEPT ![t] = NoValue] /\ pi' = [pi EXCEPT ![s] = arg[t].pi]
      /\ op[t] = "cas" /\ arg[t] \in Values /\ ptr[s] = arg[t].ptr
      /\ (s # r => x[t] = Members(r)) /\ ValueTypes /\ InBody(t) /\ Step(t)
  BY KnowsOf DEF PutPi, call, Goto, Types, InBody, BodyPcs, Step, OpOK, CasPcs, HandsOK
<1>2. /\ pi'[s] = arg[t].pi /\ \A q \in Slots \ {s} : pi'[q] = pi[q]
      /\ arg'[t] = NoValue
  BY <1>1 DEF ValueTypes
<1>3. OthersStay(t) /\ VInv' /\ WritesOwn(t)
  BY <1>1, <1>2, StepIsLocal, StepKeepsVInv DEF WritesOwn, Members
<1>4. InBody(t)' /\ Mid(t, s) /\ ~Mid(t, s)'
  BY <1>1 DEF InBody, BodyPcs, Mid, Moving, Target
<1>5. \A q \in Slots \ {s} : Members(q)' = Members(q) /\ ~Mid(t, q) /\ ~Mid(t, q)'
  BY <1>1, <1>2 DEF Members, Mid, Moving, Target
<1>6. Value(s) = x[t]
  BY <1>1, <1>4, ValueOfLocked DEF Old
<1>7. Value(r) = Value(s)
  <2>1. CASE s = r
    BY <2>1
  <2>2. CASE s # r
    BY <1>1, <1>5, <1>6, <2>2, ValueOfLocked
  <2> QED BY <2>1, <2>2
<1>8. Value(s)' = arg[t]
  <2>1. Value(s)' = Members(s)'
    BY <1>1, <1>3, <1>4, NewValueOfLocked
  <2>2. Members(s)' = [ptr |-> arg[t].ptr, pi |-> arg[t].pi]
    BY <1>1, <1>2 DEF Members
  <2> QED BY <1>1, <2>1, <2>2 DEF Values
<1>9. /\ Argument(t) = arg[t] /\ Argument(t)' = NoValue /\ Asked(t)' = NoCall
      /\ Asked(t) = [op |-> "cas", p |-> s, v |-> r]
  BY <1>1, <1>2 DEF Argument, Asked, BodyPcs
<1>10. /\ Args' = [Args EXCEPT ![t] = NoValue] /\ Calls' = [Calls EXCEPT ![t] = NoCall]
       /\ Calls[t] = [op |-> "cas", p |-> s, v |-> r] /\ Args[t] = arg[t]
  BY <1>3, <1>9, SeenByOne
<1>11. Vals' = [Vals EXCEPT ![s] = Args[t]] /\ Vals[s] = Vals[r]
  BY <1>3, <1>5, <1>7, <1>8, <1>10, OneChanged DEF Vals
<1>12. Calls[t] # NoCall
  BY <1>10 DEF NoCall
<1>13. Registers!CompareExchange(t, s, r)
  BY <1>10, <1>11 DEF Registers!CompareExchange, Vals, Args
<1> QED BY <1>10, <1>12, <1>13 DEF Registers!Do, Calls

LEMMA CopyPiFails ==
  ASSUME VInv, NEW t \in Threads, CopyPi(t), NEW s \in Slots, s = p[t], NEW r \in Slots, r = v[t]
  PROVE  Registers!Do(t)
<1>1. /\ pc[t] = "copy_pi" /\ pc'[t] = "unlock" /\ UNCHANGED <<ptr, arg, x, p, v, op>>
      /\ pi' = [pi EXCEPT ![r] = pi[s]]
      /\ op[t] = "cas" /\ ptr[r] = ptr[s] /\ s # r
      /\ x[t] # Members(s) /\ ValueTypes /\ InBody(t) /\ Step(t)
  BY KnowsOf DEF CopyPi, call, local, Goto, Types, InBody, BodyPcs, Step, OpOK, CasPcs, HandsOK
<1>2. pi'[r] = pi[s] /\ \A q \in Slots \ {r} : pi'[q] = pi[q]
  BY <1>1 DEF ValueTypes
<1>3. OthersStay(t) /\ VInv' /\ WritesOwn(t)
  BY <1>1, <1>2, StepIsLocal, StepKeepsVInv DEF WritesOwn, Members
<1>4. InBody(t)' /\ Mid(t, r) /\ ~Mid(t, r)'
  BY <1>1 DEF InBody, BodyPcs, Mid, Moving, Target
<1>5. \A q \in Slots \ {r} : Members(q)' = Members(q) /\ ~Mid(t, q) /\ ~Mid(t, q)'
  BY <1>1, <1>2 DEF Members, Mid, Moving, Target
<1>6. Value(r) = x[t] /\ Value(s) = Members(s)
  BY <1>1, <1>4, <1>5, ValueOfLocked DEF Old
<1>7. Value(r)' = Value(s)
  <2>1. Value(r)' = Members(r)'
    BY <1>1, <1>3, <1>4, NewValueOfLocked
  <2> QED BY <1>1, <1>2, <1>6, <2>1 DEF Members
<1>8. /\ Argument(t)' = Argument(t) /\ Asked(t)' = NoCall
      /\ Asked(t) = [op |-> "cas", p |-> s, v |-> r]
  BY <1>1 DEF Argument, Asked, BodyPcs
<1>9. /\ Args' = Args /\ Calls' = [Calls EXCEPT ![t] = NoCall]
      /\ Calls[t] = [op |-> "cas", p |-> s, v |-> r]
  BY <1>3, <1>8, SeenByOne
<1>10. Vals' = [Vals EXCEPT ![r] = Vals[s]] /\ Vals[s] # Vals[r]
  BY <1>1, <1>3, <1>5, <1>6, <1>7, OneChanged DEF Vals
<1>11. Calls[t] # NoCall
  BY <1>9 DEF NoCall
<1>12. Registers!CompareExchange(t, s, r)
  BY <1>9, <1>10 DEF Registers!CompareExchange, Vals, Args
<1> QED BY <1>9, <1>11, <1>12 DEF Registers!Do, Calls

-----------------------------------------------------------------------------
(* The refinement.                                                         *)

LEMMA InitRefines == Init => Registers!Init
<1> SUFFICES ASSUME Init PROVE Registers!Init
  OBVIOUS
<1>1. \A s \in Slots : Value(s) = NoValue
  BY ValueAtRest DEF Init, MembersAtRest, Mid, Moving, Members, NoValue
<1>2. \A t \in Threads : Argument(t) = NoValue /\ Asked(t) = NoCall
  BY DEF Init, Argument, Asked, BodyPcs
<1> QED BY <1>1, <1>2 DEF Registers!Init

LEMMA StepRefines ==
  ASSUME VInv, NEW t \in Threads, Client(t) \/ Step(t)
  PROVE  Registers!Next \/ UNCHANGED Seen
<1>1. InBody(t) => p[t] \in Slots /\ v[t] \in Slots
  BY KnowsOf
<1>2. VInv'
  BY StepKeepsVInv
<1>3. CASE Client(t) \/ DropArg(t)
  <2>1. arg'[t] \in Values
    BY <1>2, KnowsOf DEF VInv, ValueTypes
  <2>2. CASE \/ \E b \in Blocks, i \in Parts : Make(t, b, i)
             \/ \E i \in Parts : Alias(t, i)
             \/ DropArg(t)
    BY <2>1, <2>2, OwnStep DEF Registers!Next
  <2>3. CASE Reset(t)
    BY <2>3, ControlIsQuiet
  <2>4. CASE \E o \in {"load", "swap", "cas"}, s, r \in Slots : Call(t, o, s, r)
    BY <2>4, CallAsks DEF Registers!Next
  <2> QED BY <1>3, <2>2, <2>3, <2>4 DEF Client
<1>4. CASE Lock1(t) \/ Lock2(t) \/ Compare(t) \/ Unlock(t) \/ DropX(t) \/ TakePtr(t) \/ ReadPtr(t)
  BY <1>4, ControlIsQuiet, ReadPtrIsQuiet
<1>5. CASE SwapPtr(t) \/ TakePi(t) \/ PutPtr(t) \/ CopyPtr(t)
  <2>1. p[t] \in Slots /\ Target(t) \in Slots
    BY <1>1, <1>5 DEF SwapPtr, TakePi, PutPtr, CopyPtr, InBody, BodyPcs, Target
  <2> QED BY <1>5, <2>1, SwapPtrIsQuiet, TakePiIsQuiet, HalfIsQuiet
<1>6. CASE ReadPi(t) \/ SwapPi(t) \/ PutPi(t) \/ CopyPi(t)
  <2>1. p[t] \in Slots /\ v[t] \in Slots
    BY <1>1, <1>6 DEF ReadPi, SwapPi, PutPi, CopyPi, InBody, BodyPcs
  <2>2. Registers!Do(t)
    BY <1>6, <2>1, ReadPiLoads, SwapPiExchanges, PutPiExchanges, CopyPiFails
  <2> QED BY <2>2 DEF Registers!Next
<1> QED BY <1>3, <1>4, <1>5, <1>6 DEF Step

LEMMA NextRefines == VInv /\ [Next]_vars => [Registers!Next]_(Registers!state)
<1> SUFFICES ASSUME VInv, [Next]_vars
             PROVE  Registers!Next \/ UNCHANGED Seen
  BY DEF Seen, Registers!state, Vals, Args, Calls
<1>1. CASE UNCHANGED vars
  <2>1. /\ \A u \in Threads : Argument(u)' = Argument(u) /\ Asked(u)' = Asked(u)
        /\ \A s \in Slots : Value(s)' = Value(s)
    BY <1>1 DEF vars, Argument, Asked, Value, Target
  <2> QED BY <2>1 DEF Seen, Vals, Args, Calls
<1>2. CASE Next
  BY <1>2, StepRefines DEF Next
<1> QED BY <1>1, <1>2

(* Every operation reads and writes its one or two shared_ptrs in a single *)
(* step, for any number of threads, any pool and any hash.                 *)
THEOREM CallsAreAtomic == Spec => ImplementsRegisters
<1>1. Init => Registers!Init
  BY InitRefines
<1>2. VInv /\ [Next]_vars => [Registers!Next]_(Registers!state)
  BY NextRefines
<1> QED BY <1>1, <1>2, ValuesInvariant, PTL DEF Spec, Registers!Spec, ImplementsRegisters
=============================================================================
