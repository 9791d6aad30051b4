---------------------------- MODULE OutPtrProofs ----------------------------
(***************************************************************************)
(* out_ptr_t and inout_ptr_t, for any objects and deleters: an adaptor     *)
(* loses no object, deletes none twice, and calls the deleter that belongs *)
(* to it, whatever the callee does and whatever throws.                    *)
(***************************************************************************)
EXTENDS OutPtr, TLAPS

(* Between adaptors the smart pointer owns all there is.                   *)
IdleOK ==
  /\ live = {ptr} \ {NoObject}
  /\ block = IF kind \in Shared /\ ptr # NoObject
               THEN [ptr |-> ptr, del |-> due[ptr]] ELSE NoBlock
  /\ ptr # NoObject /\ kind \notin Shared => del = due[ptr]
  /\ own = NoObject /\ arg = NoDeleter

(* What the next callee finds: the deleters that it works for.             *)
LendsOK ==
  /\ kind \in Replacing <=> arg # NoDeleter
  /\ kind \notin Shared => del # NoDeleter
  /\ inout => kind \notin Shared

(* While an adaptor lends, the object is lent, and belongs to the new      *)
(* deleter if there is one.                                                *)
CalleeOK ==
  /\ LendsOK
  /\ live = {Lent} \ {NoObject}
  /\ Lent # NoObject => due[Lent] = IF kind \in Replacing THEN arg ELSE del
  /\ block = IF kind = "shared" THEN [ptr |-> NoObject, del |-> arg] ELSE NoBlock
  /\ kind \in InPlace => own = NoObject
  /\ kind \in Released \cup {"any_shared"} => ptr = NoObject

(* What was owned is due for deletion; everything else is empty.           *)
NothingElse == ptr = NoObject /\ block = NoBlock /\ own = NoObject

AllocateOK == LendsOK /\ NothingElse /\ kind = "shared"

DeleteOK ==
  /\ live = {dying.obj} /\ dying.by = due[dying.obj]
  /\ NothingElse
  /\ then = "idle" => arg = NoDeleter
  /\ then = "callee" => LendsOK /\ kind # "shared"
  /\ then = "allocate" => LendsOK /\ kind = "shared"
  /\ then = "terminated" => kind = "any_shared"

IInv ==
  /\ TypeOK
  /\ \A o \in live : due[o] # NoDeleter
  /\ unwinding => pc = "end"
  /\ pc = "idle" => IdleOK
  /\ pc = "allocate" => AllocateOK /\ live = {}
  /\ pc \in {"callee", "end"} => CalleeOK
  /\ pc = "delete" => DeleteOK
  /\ pc = "terminated" => kind = "any_shared" /\ live = {}

-----------------------------------------------------------------------------
(* The invariant is inductive.                                             *)

LEMMA InitIInv == Init => IInv
<1> SUFFICES ASSUME Init PROVE IInv
  OBVIOUS
<1>1. TypeOK
  BY DEF Init, TypeOK, Blocks, NoBlock, NoCall
<1>2. IdleOK
  BY DEF Init, IdleOK
<1> QED BY <1>1, <1>2 DEF Init, IInv

LEMMA OwnStep ==
  ASSUME IInv, NEW k \in Kinds, NEW o \in Objects, NEW d \in Deleters, Own(k, o, d)
  PROVE  IInv'
<1>1. TypeOK'
  BY OutPtrAssumption DEF Own, IInv, TypeOK, Blocks, NoBlock, calls
<1>2. pc' = "idle" /\ IdleOK' /\ ~unwinding' /\ \A q \in live' : due'[q] # NoDeleter
  BY OutPtrAssumption DEF Own, IInv, TypeOK, IdleOK, NoBlock
<1> QED BY <1>1, <1>2 DEF IInv

LEMMA EmptyStep ==
  ASSUME IInv, NEW k \in Kinds, NEW d \in Deleters, Empty(k, d)
  PROVE  IInv'
<1>1. TypeOK'
  BY DEF Empty, IInv, TypeOK, Blocks, calls, objects
<1>2. pc' = "idle" /\ IdleOK' /\ ~unwinding' /\ \A q \in live' : due'[q] # NoDeleter
  BY DEF Empty, IInv, IdleOK, NoBlock, objects
<1> QED BY <1>1, <1>2 DEF IInv

(* A smart pointer is emptied, after which the program is at place q.      *)
LEMMA Emptied ==
  ASSUME IInv, pc = "idle", NEW q, ResetThen(q), UNCHANGED objects
  PROVE  /\ ptr' = NoObject /\ block' = NoBlock /\ del' = del
         /\ \/ /\ live = {} /\ pc' = q /\ UNCHANGED calls
            \/ /\ pc' = "delete" /\ then' = q /\ dying' \in [obj : Objects, by : Deleters]
               /\ live = {dying'.obj} /\ dying'.by = due[dying'.obj]
<1> USE OutPtrAssumption DEF IInv, TypeOK, IdleOK, NoBlock
<1>1. CASE block # NoBlock
  <2>1. block = [ptr |-> ptr, del |-> due[ptr]] /\ ptr \in Objects /\ due[ptr] \in Deleters
    BY <1>1
  <2>2. dying' = [obj |-> ptr, by |-> due[ptr]] /\ pc' = "delete" /\ then' = q
    BY <1>1, <2>1 DEF ResetThen
  <2> QED BY <2>1, <2>2 DEF ResetThen
<1>2. CASE block = NoBlock
  <2>1. ptr # NoObject => ptr \in Objects /\ del = due[ptr] /\ due[ptr] \in Deleters
    BY <1>2
  <2>2. CASE ptr = NoObject
    BY <1>2, <2>2 DEF ResetThen
  <2>3. CASE ptr # NoObject
    <3>1. dying' = [obj |-> ptr, by |-> del] /\ pc' = "delete" /\ then' = q
      BY <1>2, <2>3 DEF ResetThen
    <3> QED BY <2>1, <2>3, <3>1 DEF ResetThen
  <2> QED BY <2>2, <2>3
<1> QED BY <1>1, <1>2

LEMMA ResetStep ==
  ASSUME IInv, Reset
  PROVE  IInv'
<1>1. pc = "idle" /\ ResetThen("idle") /\ UNCHANGED <<adaptor, objects, unwinding>>
  BY DEF Reset
<1>2. TypeOK'
  BY <1>1, Emptied DEF IInv, TypeOK, Blocks, NoBlock, adaptor, objects, calls
<1>3. CASE pc' = "idle"
  BY <1>1, <1>2, <1>3, Emptied DEF IInv, IdleOK, adaptor, objects, NoBlock
<1>4. CASE pc' = "delete"
  BY <1>1, <1>2, <1>4, Emptied DEF IInv, IdleOK, DeleteOK, NothingElse, adaptor, objects
<1> QED BY <1>1, <1>3, <1>4, Emptied

LEMMA OutInitStep ==
  ASSUME IInv, NEW d \in Deleters, OutInit(d)
  PROVE  IInv'
<1> DEFINE q == IF kind = "shared" THEN "allocate" ELSE "callee"
<1>1. /\ pc = "idle" /\ ResetThen(q) /\ UNCHANGED <<kind, live, due, unwinding>> /\ UNCHANGED objects
      /\ kind \in Shared \/ del # NoDeleter
      /\ inout' = FALSE /\ own' = NoObject
      /\ arg' = IF kind \in Replacing THEN d ELSE NoDeleter
  BY DEF OutInit, Ready, objects
<1> HIDE DEF q
<1>2. /\ ptr' = NoObject /\ block' = NoBlock /\ del' = del
      /\ \/ live = {} /\ pc' = q /\ UNCHANGED calls
         \/ /\ pc' = "delete" /\ then' = q /\ dying' \in [obj : Objects, by : Deleters]
            /\ live = {dying'.obj} /\ dying'.by = due[dying'.obj]
  BY <1>1, Emptied
<1>3. TypeOK'
  BY <1>1, <1>2 DEF IInv, TypeOK, Blocks, NoBlock, calls, q
<1>4. LendsOK' /\ ~unwinding' /\ \A o \in live' : due'[o] # NoDeleter
  BY <1>1, <1>2, OutPtrAssumption DEF IInv, LendsOK
<1>5. CASE pc' = "delete"
  BY <1>1, <1>2, <1>3, <1>4, <1>5 DEF IInv, DeleteOK, NothingElse, q
<1>6. CASE pc' = "allocate"
  BY <1>1, <1>2, <1>3, <1>4, <1>6 DEF IInv, AllocateOK, NothingElse, q
<1>7. CASE pc' = "callee"
  BY <1>1, <1>2, <1>3, <1>4, <1>7 DEF IInv, CalleeOK, Lent, q
<1> QED BY <1>2, <1>5, <1>6, <1>7 DEF q

LEMMA InoutInitStep ==
  ASSUME IInv, NEW d \in Deleters, InoutInit(d)
  PROVE  IInv'
<1> USE OutPtrAssumption
<1>1. TypeOK'
  BY DEF InoutInit, IInv, TypeOK, calls
<1>2. LendsOK'
  BY DEF InoutInit, LendsOK
<1>3. /\ live' = {Lent'} \ {NoObject} /\ block' = NoBlock /\ kind' # "shared"
      /\ kind' \in InPlace => own' = NoObject
      /\ kind' \in Released \cup {"any_shared"} => ptr' = NoObject
      /\ Lent' # NoObject => due'[Lent'] = IF kind' \in Replacing THEN arg' ELSE del'
      /\ \A o \in live' : due'[o] # NoDeleter
  BY DEF InoutInit, IInv, TypeOK, IdleOK, Lent, InPlace, Released, Shared, Replacing
<1>4. pc' = "callee" /\ ~unwinding'
  BY DEF InoutInit, IInv
<1> QED BY <1>1, <1>2, <1>3, <1>4 DEF IInv, CalleeOK

LEMMA AllocateStep ==
  ASSUME IInv, Allocate \/ AllocateThrows
  PROVE  IInv'
<1>1. TypeOK'
  BY DEF Allocate, AllocateThrows, IInv, TypeOK, Blocks, adaptor, smart, objects, calls
<1>2. CASE Allocate
  BY <1>1, <1>2 DEF Allocate, IInv, AllocateOK, CalleeOK, LendsOK, NothingElse, Lent, InPlace, Shared,
     adaptor, objects
<1>3. CASE AllocateThrows
  BY <1>1, <1>3 DEF AllocateThrows, IInv, AllocateOK, IdleOK, NothingElse, NoBlock, smart, objects
<1> QED BY <1>2, <1>3

LEMMA DeleteStep ==
  ASSUME IInv, Delete
  PROVE  IInv'
<1>1. /\ DeleteOK /\ pc' = then /\ live' = {} /\ ~unwinding
      /\ UNCHANGED <<kind, inout, own, arg, ptr, del, block, due, then, unwinding>>
  BY DEF Delete, IInv, DeleteOK, adaptor, smart
<1>2. TypeOK'
  BY OutPtrAssumption DEF Delete, IInv, TypeOK, adaptor, smart, NoCall
<1>3. CASE then = "idle"
  BY <1>1, <1>2, <1>3 DEF IInv, DeleteOK, IdleOK, NothingElse, NoBlock
<1>4. CASE then = "allocate"
  BY <1>1, <1>2, <1>4 DEF IInv, DeleteOK, AllocateOK, NothingElse, LendsOK
<1>5. CASE then = "callee"
  BY <1>1, <1>2, <1>5 DEF IInv, DeleteOK, CalleeOK, LendsOK, NothingElse, Lent
<1>6. CASE then = "terminated"
  BY <1>1, <1>2, <1>6 DEF IInv, DeleteOK
<1> QED BY <1>3, <1>4, <1>5, <1>6 DEF IInv, TypeOK

LEMMA CalleeFreesStep ==
  ASSUME IInv, CalleeFrees
  PROVE  IInv'
<1>1. TypeOK'
  BY DEF CalleeFrees, Lend, IInv, TypeOK, calls
<1>2. CalleeOK' /\ live' = {}
  BY DEF CalleeFrees, Lend, IInv, CalleeOK, LendsOK, Lent
<1> QED BY <1>1, <1>2 DEF CalleeFrees, IInv

LEMMA CalleeMakesStep ==
  ASSUME IInv, NEW o \in Objects, CalleeMakes(o)
  PROVE  IInv'
<1> USE OutPtrAssumption
<1>1. TypeOK'
  BY DEF CalleeMakes, Lend, IInv, TypeOK, calls
<1>2. live' = {o} /\ Lent' = o /\ due'[o] = IF kind \in Replacing THEN arg ELSE del
  BY DEF CalleeMakes, Lend, IInv, TypeOK, CalleeOK, Lent
<1>3. due'[o] # NoDeleter
  BY <1>2 DEF IInv, CalleeOK, LendsOK, CalleeMakes, Replacing, Shared
<1>4. CalleeOK'
  BY <1>2 DEF CalleeMakes, Lend, IInv, CalleeOK, LendsOK, InPlace, Released
<1> QED BY <1>1, <1>2, <1>3, <1>4 DEF CalleeMakes, IInv

LEMMA CalleeEndsStep ==
  ASSUME IInv, CalleeEnds
  PROVE  IInv'
BY DEF CalleeEnds, IInv, TypeOK, CalleeOK, LendsOK, Lent, adaptor, smart, objects, calls

(* The adaptor gives back what it has lent, in every specialization.       *)
LEMMA EndStep ==
  ASSUME IInv, EndRaw \/ EndDeleter \/ EndShared \/ EndAnyUnique \/ EndAnyShared
  PROVE  IInv'
<1> USE OutPtrAssumption
<1>1. /\ pc = "end" /\ pc' = "idle" /\ UNCHANGED <<kind, live, due, dying, then, inout>>
      /\ own' = NoObject /\ arg' = NoDeleter /\ unwinding' = FALSE
      /\ CalleeOK /\ ptr' = Lent
  BY DEF EndRaw, EndDeleter, EndShared, EndAnyUnique, EndAnyShared, EndAdaptor, IInv, Lent, InPlace,
     Released, AllocatesLate, objects, calls
<1>2. /\ del' = IF kind \in {"deleter", "any_deleter"} /\ ptr' # NoObject THEN arg ELSE del
      /\ block' = IF kind \in Shared /\ ptr' # NoObject THEN [ptr |-> ptr', del |-> arg] ELSE NoBlock
  BY <1>1 DEF EndRaw, EndDeleter, EndShared, EndAnyUnique, EndAnyShared, CalleeOK, Lent, InPlace, Shared,
     Released, Replacing, AllocatesLate
<1>3. Lent \in Objects \cup {NoObject}
  BY DEF IInv, TypeOK, Lent
<1>4. TypeOK'
  BY <1>1, <1>2, <1>3 DEF IInv, TypeOK, Blocks, NoBlock
<1>5. IdleOK'
  BY <1>1, <1>2 DEF CalleeOK, IdleOK, Shared, Replacing
<1> QED BY <1>1, <1>4, <1>5 DEF IInv

LEMMA EndAnySharedThrowsStep ==
  ASSUME IInv, EndAnySharedThrows
  PROVE  IInv'
<1> USE OutPtrAssumption
<1>1. /\ Lent \in Objects /\ arg \in Deleters /\ live = {Lent} /\ due[Lent] = arg
      /\ ptr = NoObject /\ block = NoBlock /\ kind = "any_shared"
  BY DEF EndAnySharedThrows, AllocatesLate, IInv, TypeOK, CalleeOK, LendsOK, Lent, Replacing
<1>2. TypeOK'
  BY <1>1 DEF EndAnySharedThrows, EndAdaptor, IInv, TypeOK, Blocks, smart, objects
<1>3. DeleteOK'
  BY <1>1 DEF EndAnySharedThrows, EndAdaptor, DeleteOK, NothingElse, smart, objects
<1> QED BY <1>1, <1>2, <1>3 DEF EndAnySharedThrows, EndAdaptor, IInv, objects

LEMMA NextIInv == IInv /\ [Next]_vars => IInv'
<1> SUFFICES ASSUME IInv, [Next]_vars PROVE IInv'
  OBVIOUS
<1>1. CASE UNCHANGED vars
  BY <1>1 DEF vars, IInv, TypeOK, IdleOK, AllocateOK, CalleeOK, DeleteOK, LendsOK, NothingElse, Lent
<1>2. CASE Client
  BY <1>2, EmptyStep, OwnStep, ResetStep, OutInitStep, InoutInitStep DEF Client
<1>3. CASE Callee
  BY <1>3, CalleeFreesStep, CalleeMakesStep, CalleeEndsStep DEF Callee
<1>4. CASE Library
  BY <1>4, DeleteStep, AllocateStep, EndStep, EndAnySharedThrowsStep DEF Library
<1> QED BY <1>1, <1>2, <1>3, <1>4 DEF Next

LEMMA InductiveInvariant == Spec => []IInv
BY InitIInv, NextIInv, PTL DEF Spec

-----------------------------------------------------------------------------
(* What follows.                                                           *)

(* When the adaptor is gone, by whatever way, its smart pointer owns all   *)
(* that there is.                                                          *)
THEOREM AdaptorsLoseNothing == Spec => []OwnsWhatIsLeft
<1>1. IInv => OwnsWhatIsLeft
  BY DEF IInv, IdleOK, OwnsWhatIsLeft
<1> QED BY <1>1, InductiveInvariant, PTL

(* Every object is deleted while it exists, with the deleter that was      *)
(* handed over with it.                                                    *)
THEOREM DeletersMatch == Spec => []DeletesItsOwn
<1>1. IInv => DeletesItsOwn
  BY DEF IInv, DeleteOK, CalleeOK, DeletesItsOwn
<1> QED BY <1>1, InductiveInvariant, PTL

(* The specialization for shared_ptr never ends the program.               *)
THEOREM TerminatesOnlyLate == Spec => []OnlyLateAllocationTerminates
<1>1. IInv => OnlyLateAllocationTerminates
  BY DEF IInv, CalleeOK, OnlyLateAllocationTerminates
<1> QED BY <1>1, InductiveInvariant, PTL
=============================================================================
