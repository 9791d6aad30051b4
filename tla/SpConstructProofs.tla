-------------------------- MODULE SpConstructProofs --------------------------
(***************************************************************************)
(* SpConstruct for arrays of every length: whatever throws, what was made  *)
(* is unmade.  Only FreesOnlyWhatIsAllocated needs the assumption that the *)
(* one allocation whose failure is handled wrongly (see the README,        *)
(* construct_no_memory) succeeds.                                          *)
(***************************************************************************)
EXTENDS SpConstruct, TLAPS

USE DEF Made, Joint, Arrays

LEMMA InitIInv == Init => IInv
BY ConstructAssumption
   DEF Init, IInv, TypeOK, PlaceOK, NothingLost, DestroysWhatExists

(* Making: every step up to the existence of a shared_ptr.                 *)
LEMMA MakingKeepsIInv ==
  ASSUME IInv,
         \/ \E k \in Kinds, n \in 0..MaxLength : StartOwn(k, n) \/ StartMake(k, n)
         \/ Allocate \/ AllocateThrows \/ Construct \/ ConstructThrows
         \/ Constructed \/ AllocateBlock \/ AllocateBlockThrows
  PROVE  IInv'
<1> USE ConstructAssumption
        DEF IInv, TypeOK, PlaceOK, NothingLost, DestroysWhatExists, Goto
<1>1. CASE \E k \in Kinds, n \in 0..MaxLength : StartOwn(k, n) \/ StartMake(k, n)
  <2> PICK k \in Kinds, n \in 0..MaxLength : StartOwn(k, n) \/ StartMake(k, n)
    BY <1>1
  <2>1. n \in Nat /\ pc = "idle" /\ objs = {} /\ storage = "none" /\ block = "none"
          /\ first = 0 /\ i = 0
    BY DEF StartOwn, StartMake
  <2>2. CASE StartOwn(k, n)
    BY <2>1, <2>2 DEF StartOwn
  <2>3. CASE StartMake(k, n)
    BY <2>1, <2>3 DEF StartMake
  <2> QED
    BY <2>2, <2>3
<1>2. CASE Allocate
  BY <1>2 DEF Allocate
<1>3. CASE AllocateThrows
  BY <1>3 DEF AllocateThrows
<1>4. CASE Construct
  BY <1>4 DEF Construct
<1>5. CASE ConstructThrows
  BY <1>5 DEF ConstructThrows
<1>6. CASE Constructed
  BY <1>6 DEF Constructed
<1>7. CASE AllocateBlock
  BY <1>7 DEF AllocateBlock
<1>8. CASE AllocateBlockThrows
  BY <1>8 DEF AllocateBlockThrows
<1> QED
  BY <1>1, <1>2, <1>3, <1>4, <1>5, <1>6, <1>7, <1>8

(* What a loop leaves when it destroys the first element before it, or the *)
(* last.                                                                   *)
LEMMA LoopStep ==
  ASSUME NEW a \in Nat, NEW b \in Nat, a < b
  PROVE  /\ (a + 1)..b \ {a + 1} = ((a + 1) + 1)..b
         /\ (a + 1)..b \ {b} = (a + 1)..(b - 1)
OBVIOUS

LEMMA LoopEnd ==
  ASSUME NEW a \in Nat
  PROVE  (a + 1)..a = {}
OBVIOUS

(* A step of a loop changes nothing but the elements and its own position. *)
LEMMA LoopKeepsIInv ==
  ASSUME IInv, pc \in {"unwind", "delete", "dispose"}, first < i,
         DestroyFirst \/ DestroyLast,
         pc' = pc, kind' = kind, len' = len, storage' = storage, block' = block
  PROVE  IInv'
<1>1. TypeOK /\ PlaceOK /\ objs = (first + 1)..i
  BY DEF IInv, DestroysWhatExists
<1>2. first \in Nat /\ i \in Nat /\ len \in Nat /\ first < i /\ i <= len
  BY <1>1, ConstructAssumption DEF TypeOK
<1>3. objs' = (first' + 1)..i' /\ first' \in 0..len /\ i' \in 0..len
  <2>1. CASE DestroyFirst
    BY <1>1, <1>2, <2>1, LoopStep DEF DestroyFirst
  <2>2. CASE DestroyLast
    BY <1>1, <1>2, <2>2, LoopStep DEF DestroyLast
  <2> QED
    BY <2>1, <2>2
<1>4. objs' \subseteq 1..len
  BY <1>1 DEF TypeOK, DestroyFirst, DestroyLast
<1>5. TypeOK'
  BY <1>1, <1>3, <1>4 DEF TypeOK
<1>6. PlaceOK'
  BY <1>1 DEF PlaceOK
<1>7. NothingLost'
  BY <1>1 DEF NothingLost
<1>8. DestroysWhatExists'
  BY <1>3, <1>5 DEF DestroysWhatExists
<1> QED
  BY <1>5, <1>6, <1>7, <1>8 DEF IInv

(* Ending: the loops that destroy, and the release of an owned object.     *)
LEMMA EndingKeepsIInv ==
  ASSUME IInv, Unwind \/ Delete \/ Release \/ Dispose \/ Destroy \/ Again
  PROVE  IInv'
<1>1. first \in Nat /\ i \in Nat /\ len \in Nat
  BY ConstructAssumption DEF IInv, DestroysWhatExists, TypeOK
<1>2. CASE first < i /\ (Unwind \/ Delete \/ Dispose)
  <2>1. /\ pc \in {"unwind", "delete", "dispose"}
        /\ DestroyFirst \/ DestroyLast
        /\ pc' = pc /\ kind' = kind /\ len' = len /\ storage' = storage /\ block' = block
    BY <1>1, <1>2 DEF Unwind, Delete, Dispose, Goto
  <2> QED
    BY <1>2, <2>1, LoopKeepsIInv
<1>3. CASE first = i /\ (Unwind \/ Delete \/ Dispose)
  <2>1. (first + 1)..i = {}
    BY <1>1, <1>3, LoopEnd
  <2> USE DEF IInv, TypeOK, PlaceOK, NothingLost, DestroysWhatExists, Goto
  <2>2. CASE Unwind
    BY <1>1, <1>3, <2>1, <2>2 DEF Unwind
  <2>3. CASE Delete
    BY <1>1, <1>3, <2>1, <2>3 DEF Delete
  <2>4. CASE Dispose
    BY <1>1, <1>3, <2>1, <2>4 DEF Dispose
  <2> QED
    BY <1>3, <2>2, <2>3, <2>4
<1>4. CASE Release \/ Destroy \/ Again
  <2> USE ConstructAssumption
          DEF IInv, TypeOK, PlaceOK, NothingLost, DestroysWhatExists, Goto
  <2>1. CASE Release
    BY <2>1 DEF Release
  <2>2. CASE Destroy
    BY <2>2 DEF Destroy
  <2>3. CASE Again
    BY <2>3 DEF Again
  <2> QED
    BY <1>4, <2>1, <2>2, <2>3
<1> QED
  BY <1>1, <1>2, <1>3, <1>4 DEF Unwind, Delete, Dispose

LEMMA StepKeepsIInv ==
  ASSUME IInv, [Next]_vars
  PROVE  IInv'
<1>1. CASE Next
  BY <1>1, MakingKeepsIInv, EndingKeepsIInv DEF Next
<1>2. CASE UNCHANGED vars
  BY <1>2 DEF vars, IInv, TypeOK, PlaceOK, NothingLost, DestroysWhatExists
<1> QED
  BY <1>1, <1>2

(* IInv holds in every reachable state, for arrays of any length.          *)
THEOREM ConstructInvariant == Spec => []IInv
<1>1. IInv /\ [Next]_vars => IInv'
  BY StepKeepsIInv
<1> QED
  BY InitIInv, <1>1, PTL DEF Spec

(* What a failed construction made is unmade, and a unique_ptr keeps its   *)
(* object.                                                                 *)
THEOREM ConstructLosesNothing == Spec => []NothingLost
<1>1. IInv => NothingLost
  BY DEF IInv
<1> QED
  BY <1>1, ConstructInvariant, PTL

(* Every loop that destroys finds exactly the elements that exist.         *)
THEOREM DestroysOnlyWhatExists == Spec => []DestroysWhatExists
<1>1. IInv => DestroysWhatExists
  BY DEF IInv
<1> QED
  BY <1>1, ConstructInvariant, PTL

(* Where a thrown allocation or a loop goes on with memory that exists.    *)
LEMMA StepFreesWhatIsAllocated ==
  ASSUME IInv, FreesWhatIsAllocated, "consteval" \notin MayNotAllocate, [Next]_vars
  PROVE  FreesWhatIsAllocated'
<1> USE DEF FreesWhatIsAllocated, Goto
<1>1. CASE \E k \in Kinds, n \in 0..MaxLength : StartOwn(k, n) \/ StartMake(k, n)
  BY <1>1 DEF StartOwn, StartMake
<1>2. CASE Allocate \/ AllocateThrows \/ Construct \/ ConstructThrows \/ Constructed
  BY <1>2 DEF Allocate, AllocateThrows, Construct, ConstructThrows, Constructed, IInv, PlaceOK
<1>3. CASE AllocateBlock \/ AllocateBlockThrows \/ Release \/ Again
  BY <1>3 DEF AllocateBlock, AllocateBlockThrows, Release, Again, IInv, PlaceOK, NothingLost
<1>4. CASE Unwind \/ Delete
  BY <1>4 DEF Unwind, Delete
<1>5. CASE Dispose \/ Destroy
  BY <1>5 DEF Dispose, Destroy, IInv, PlaceOK
<1>6. CASE UNCHANGED vars
  BY <1>6 DEF vars
<1> QED
  BY <1>1, <1>2, <1>3, <1>4, <1>5, <1>6 DEF Next

(* What is given back to an allocator is what it has allocated, whatever   *)
(* has thrown on the way.                                                  *)
THEOREM FreesOnlyWhatIsAllocated ==
  ASSUME "consteval" \notin MayNotAllocate
  PROVE  Spec => []FreesWhatIsAllocated
<1>1. Init => FreesWhatIsAllocated
  BY DEF Init, FreesWhatIsAllocated
<1>2. IInv /\ FreesWhatIsAllocated /\ [Next]_vars => FreesWhatIsAllocated'
  BY StepFreesWhatIsAllocated
<1> QED
  BY <1>1, <1>2, ConstructInvariant, PTL DEF Spec

(* Elements die before their memory is given back, and the control block   *)
(* after both.                                                             *)
THEOREM ConstructEndsInOrder == Spec => EndsInOrder
<1> DEFINE InOrder ==
      /\ storage # "none" /\ storage' = "none" /\ pc \notin {"thrown", "ended"} => objs = {}
      /\ block = "built" /\ block' = "none" =>
           objs = {} /\ (kind \notin Joint => storage = "none")
<1>1. IInv /\ [Next]_vars => [InOrder]_vars
  <2> SUFFICES ASSUME IInv, Next
               PROVE  InOrder
    BY DEF vars
  <2> USE DEF IInv, TypeOK, PlaceOK, NothingLost, DestroysWhatExists
  <2>1. CASE \E k \in Kinds, n \in 0..MaxLength : StartOwn(k, n) \/ StartMake(k, n)
    BY <2>1 DEF StartOwn, StartMake
  <2>2. CASE Allocate \/ AllocateThrows \/ Construct \/ ConstructThrows \/ Constructed
    BY <2>2 DEF Allocate, AllocateThrows, Construct, ConstructThrows, Constructed
  <2>3. CASE AllocateBlock \/ AllocateBlockThrows \/ Release \/ Again
    BY <2>3 DEF AllocateBlock, AllocateBlockThrows, Release, Again
  <2>4. CASE Unwind \/ Delete
    BY <2>4 DEF Unwind, Delete
  <2>5. CASE Dispose \/ Destroy
    BY <2>5 DEF Dispose, Destroy
  <2> QED
    BY <2>1, <2>2, <2>3, <2>4, <2>5 DEF Next
<1> QED
  BY <1>1, ConstructInvariant, PTL DEF Spec, EndsInOrder, InOrder

(* The last element alive is the first to be destroyed, by delete[] and by *)
(* the control blocks other than the one for overwrite.                    *)
THEOREM LastMadeDiesFirst == Spec => LastDiesFirst
<1> DEFINE Backwards ==
      objs' # objs /\ objs' \subseteq objs /\ pc \in {"delete", "dispose"} /\ kind # "overwrite"
        => \A k \in objs, l \in objs \ objs' : k <= l
<1>1. IInv /\ [Next]_vars => [Backwards]_vars
  <2> SUFFICES ASSUME IInv, Next, objs' # objs, pc \in {"delete", "dispose"}, kind # "overwrite"
               PROVE  \A k \in objs, l \in objs \ objs' : k <= l
    BY DEF vars
  <2>1. DestroyLast
    <3> USE DEF Goto
    <3>1. CASE Delete
      BY <3>1 DEF Delete, IInv, PlaceOK, DestroyLast
    <3>2. CASE Dispose
      BY <3>2 DEF Dispose
    <3>3. CASE Unwind \/ Allocate \/ AllocateThrows \/ Construct \/ ConstructThrows \/ Constructed
      BY <3>3 DEF Unwind, Allocate, AllocateThrows, Construct, ConstructThrows, Constructed
    <3>4. CASE AllocateBlock \/ AllocateBlockThrows \/ Release \/ Destroy \/ Again
      BY <3>4 DEF AllocateBlock, AllocateBlockThrows, Release, Destroy, Again
    <3>5. CASE \E k \in Kinds, n \in 0..MaxLength : StartOwn(k, n) \/ StartMake(k, n)
      BY <3>5 DEF StartOwn, StartMake
    <3> QED
      BY <3>1, <3>2, <3>3, <3>4, <3>5 DEF Next
  <2>2. /\ objs = (first + 1)..i /\ objs \ objs' \subseteq {i}
        /\ first \in Nat /\ i \in Nat
    BY <2>1, ConstructAssumption DEF IInv, DestroysWhatExists, TypeOK, DestroyLast
  <2> QED
    BY <2>2
<1> QED
  BY <1>1, ConstructInvariant, PTL DEF Spec, LastDiesFirst, Backwards
=============================================================================
