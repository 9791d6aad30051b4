------------------------------- MODULE OutPtr -------------------------------
(***************************************************************************)
(* out_ptr_t and inout_ptr_t: an adaptor lends a smart pointer to a        *)
(* function that writes through a raw pointer (a callee, below), and takes *)
(* over what that has left when the adaptor dies.  The callee may throw,   *)
(* and so may every allocation of a control block.  Deleters do not: the   *)
(* library requires it of their calls, moves and assignments.              *)
(*                                                                         *)
(* _Impl has a specialization for each kind of smart pointer (Kinds):      *)
(*   "raw"        T*, lent in place                                        *)
(*   "raw_conv"   T*, through a pointer of another type                    *)
(*   "unique"     unique_ptr, lent in place                                *)
(*   "deleter"    the same, with a replacement deleter                     *)
(*   "shared"     shared_ptr, lent in place, with a block made beforehand  *)
(* and three uses of the primary template, through a pointer of its own:   *)
(*   "any_unique"  a unique_ptr                                            *)
(*   "any_deleter" the same, with a replacement deleter                    *)
(*   "any_shared"  a shared_ptr, whose reset(p, d) allocates               *)
(* The client uses the adaptors on one smart pointer, one after another.   *)
(***************************************************************************)
EXTENDS Integers

CONSTANTS Objects, Deleters, NoObject, NoDeleter

InPlace   == {"raw", "unique", "deleter", "shared"}
RawKinds  == {"raw", "raw_conv"}
Shared    == {"shared", "any_shared"}
Released  == {"any_unique", "any_deleter"}
Uniques   == {"unique", "deleter"} \cup Released
Kinds     == RawKinds \cup Uniques \cup Shared
Replacing == {"deleter", "any_deleter", "shared", "any_shared"}   \* given a deleter

ASSUME OutPtrAssumption == NoObject \notin Objects /\ NoDeleter \notin Deleters

VARIABLES
  kind, inout,  \* of smart pointer and _Impl, and of adaptor
  ptr, del,     \* the pointer of the smart pointer, the deleter of a unique_ptr
  block,        \* the control block of a shared_ptr, if there is one
  own, arg,     \* _M_ptr and the deleter of the adaptor
  live,         \* the objects that exist
  due,          \* the deleter each of them has been handed over with
  dying, then,  \* the running call of a deleter, and where it returns to
  unwinding,    \* the callee has thrown
  pc

smart   == <<ptr, del, block>>
adaptor == <<kind, inout, own, arg>>
objects == <<live, due>>
calls   == <<dying, then>>
vars    == <<kind, inout, ptr, del, block, own, arg, live, due, dying, then, unwinding, pc>>

NoBlock == [ptr |-> NoObject, del |-> NoDeleter]
NoCall  == [obj |-> NoObject, by |-> NoDeleter]

Init ==
  /\ kind \in Kinds /\ inout = FALSE
  /\ ptr = NoObject /\ block = NoBlock
  /\ del = NoDeleter
  /\ own = NoObject /\ arg = NoDeleter
  /\ live = {} /\ due = [o \in Objects |-> NoDeleter]
  /\ dying = NoCall /\ then = "idle"
  /\ unwinding = FALSE
  /\ pc = "idle"

(* unique_ptr::reset, or the release of a shared_ptr's block: forget, then *)
(* call the deleter of the one or the other on what is not null.           *)
ResetThen(p) ==
  LET call == IF block # NoBlock THEN [obj |-> block.ptr, by |-> block.del]
              ELSE [obj |-> ptr, by |-> del]
  IN  /\ ptr' = NoObject
      /\ block' = NoBlock
      /\ UNCHANGED del
      /\ IF call.obj = NoObject
           THEN pc' = p /\ UNCHANGED calls
           ELSE pc' = "delete" /\ dying' = call /\ then' = p

(* The deleter.                                                            *)
Delete ==
  /\ pc = "delete"
  /\ live' = live \ {dying.obj}
  /\ dying' = NoCall
  /\ pc' = then
  /\ UNCHANGED <<adaptor, smart, due, then, unwinding>>

-----------------------------------------------------------------------------
(* The client, between adaptors.                                           *)

(* A smart pointer of kind k that owns an object with a deleter; who has a *)
(* raw pointer keeps the deleter in mind.                                  *)
Own(k, o, d) ==
  /\ pc = "idle" /\ ptr = NoObject
  /\ o \notin live
  /\ kind' = k
  /\ live' = live \cup {o} /\ due' = [due EXCEPT ![o] = d]
  /\ ptr' = o
  /\ del' = IF k \in Shared THEN NoDeleter ELSE d
  /\ block' = IF k \in Shared THEN [ptr |-> o, del |-> d] ELSE NoBlock
  /\ UNCHANGED <<inout, own, arg, calls, unwinding, pc>>

(* An empty one; an empty unique_ptr has its deleter.                      *)
Empty(k, d) ==
  /\ pc = "idle" /\ ptr = NoObject
  /\ kind' = k
  /\ del' = IF k \in Shared THEN NoDeleter ELSE d
  /\ UNCHANGED <<inout, ptr, block, own, arg, objects, calls, unwinding, pc>>

Reset ==
  /\ pc = "idle" /\ ptr # NoObject
  /\ ResetThen("idle")
  /\ UNCHANGED <<adaptor, objects, unwinding>>

-----------------------------------------------------------------------------
(* The adaptor is made.                                                    *)

(* Whether a block is allocated only when the adaptor dies.                *)
(* Mutant: the specialization for shared_ptr does so too.                  *)
AllocatesLateAll(k) == k \in Shared
AllocatesLate(k) == k = "any_shared"

Ready == pc = "idle" /\ (kind \in Shared \/ del # NoDeleter)

(* out_ptr_t: reset.  A raw pointer is overwritten, and so must be null.   *)
OutInit(d) ==
  /\ Ready
  /\ kind \in RawKinds => ptr = NoObject
  /\ inout' = FALSE
  /\ arg' = IF kind \in Replacing THEN d ELSE NoDeleter
  /\ own' = NoObject
  /\ ResetThen(IF kind = "shared" THEN "allocate" ELSE "callee")
  /\ UNCHANGED <<kind, objects, unwinding>>

(* inout_ptr_t: what is lent in place stays there, raw_conv is copied, and *)
(* the primary template releases.  A new deleter is for the old object too.*)
InoutInit(d) ==
  /\ pc = "idle" /\ del # NoDeleter
  /\ kind \notin Shared
  /\ inout' = TRUE
  /\ arg' = IF kind \in Replacing THEN d ELSE NoDeleter
  /\ own' = IF kind \in InPlace THEN NoObject ELSE ptr
  /\ ptr' = IF kind \in Released THEN NoObject ELSE ptr
  /\ due' = IF kind \in Replacing /\ ptr # NoObject THEN [due EXCEPT ![ptr] = d] ELSE due
  /\ pc' = "callee"
  /\ UNCHANGED <<kind, del, block, live, calls, unwinding>>

(* "A new control block is allocated in the constructor, so that if        *)
(* allocation fails it doesn't throw an exception from the destructor."    *)
Allocate ==
  /\ pc = "allocate"
  /\ block' = [ptr |-> NoObject, del |-> arg]
  /\ pc' = "callee"
  /\ UNCHANGED <<adaptor, ptr, del, objects, calls, unwinding>>

AllocateThrows ==
  /\ pc = "allocate"
  /\ arg' = NoDeleter
  /\ pc' = "idle"
  /\ UNCHANGED <<kind, inout, own, smart, objects, calls, unwinding>>

-----------------------------------------------------------------------------
(* The callee has a pointer to Lent.                                       *)

Lent == IF kind \in InPlace THEN ptr ELSE own

Lend(o) ==
  IF kind \in InPlace THEN ptr' = o /\ UNCHANGED own ELSE own' = o /\ UNCHANGED ptr

CalleeFrees ==
  /\ pc = "callee" /\ inout
  /\ Lent # NoObject
  /\ live' = live \ {Lent}
  /\ Lend(NoObject)
  /\ UNCHANGED <<kind, inout, arg, del, block, due, calls, unwinding, pc>>

CalleeMakes(o) ==
  /\ pc = "callee"
  /\ Lent = NoObject
  /\ o \notin live
  /\ live' = live \cup {o}
  /\ due' = [due EXCEPT ![o] = IF kind \in Replacing THEN arg ELSE del]
  /\ Lend(o)
  /\ UNCHANGED <<kind, inout, arg, del, block, calls, unwinding, pc>>

CalleeEnds ==
  /\ pc = "callee"
  /\ unwinding' \in BOOLEAN
  /\ pc' = "end"
  /\ UNCHANGED <<adaptor, smart, objects, calls>>

-----------------------------------------------------------------------------
(* ~_Impl.                                                                 *)

EndAdaptor ==
  /\ own' = NoObject /\ arg' = NoDeleter
  /\ unwinding' = FALSE
  /\ UNCHANGED <<kind, inout>>

EndRaw ==
  /\ pc = "end" /\ kind \in {"raw", "raw_conv", "unique"}
  /\ ptr' = Lent
  /\ EndAdaptor
  /\ pc' = "idle"
  /\ UNCHANGED <<del, block, objects, calls>>

(* Mutant: the new deleter is forgotten.                                   *)
EndDeleterKeeps ==
  /\ pc = "end" /\ kind = "deleter"
  /\ EndAdaptor
  /\ pc' = "idle"
  /\ UNCHANGED <<smart, objects, calls>>

EndDeleter ==
  /\ pc = "end" /\ kind = "deleter"
  /\ del' = IF ptr # NoObject THEN arg ELSE del
  /\ EndAdaptor
  /\ pc' = "idle"
  /\ UNCHANGED <<ptr, block, objects, calls>>

(* The block learns its pointer, or is destroyed without its deleter.      *)
EndShared ==
  /\ pc = "end" /\ kind = "shared" /\ ~AllocatesLate(kind)
  /\ block' = IF ptr # NoObject THEN [block EXCEPT !.ptr = ptr] ELSE NoBlock
  /\ EndAdaptor
  /\ pc' = "idle"
  /\ UNCHANGED <<ptr, del, objects, calls>>

(* reset(p), or assigned a unique_ptr(p, d), unless p is null.             *)
EndAnyUnique ==
  /\ pc = "end" /\ kind \in Released
  /\ ptr' = own
  /\ del' = IF kind \in Replacing /\ own # NoObject THEN arg ELSE del
  /\ EndAdaptor
  /\ pc' = "idle"
  /\ UNCHANGED <<block, objects, calls>>

(* reset(p, d), unless p is null.                                          *)
EndAnyShared ==
  /\ pc = "end" /\ AllocatesLate(kind)
  /\ ptr' = Lent
  /\ block' = IF Lent # NoObject THEN [ptr |-> Lent, del |-> arg] ELSE NoBlock
  /\ EndAdaptor
  /\ pc' = "idle"
  /\ UNCHANGED <<del, objects, calls>>

(* Mutant: an exception leaves p as it is.                                 *)
EndAnySharedThrowsOnly ==
  /\ pc = "end" /\ AllocatesLate(kind) /\ Lent # NoObject
  /\ pc' = IF unwinding THEN "terminated" ELSE "idle"
  /\ EndAdaptor
  /\ UNCHANGED <<smart, objects, calls>>

(* Its allocation throws, and the constructor calls d(p); an exception     *)
(* during another one ends the program.                                    *)
EndAnySharedThrows ==
  /\ pc = "end" /\ AllocatesLate(kind) /\ Lent # NoObject
  /\ dying' = [obj |-> Lent, by |-> arg]
  /\ then' = IF unwinding THEN "terminated" ELSE "idle"
  /\ pc' = "delete"
  /\ EndAdaptor
  /\ UNCHANGED <<smart, objects>>

-----------------------------------------------------------------------------
Client ==
  \/ \E k \in Kinds, d \in Deleters :
       Empty(k, d) \/ \E o \in Objects : Own(k, o, d)
  \/ Reset
  \/ \E d \in Deleters : OutInit(d) \/ InoutInit(d)

Callee == CalleeFrees \/ (\E o \in Objects : CalleeMakes(o)) \/ CalleeEnds

Library ==
  \/ Delete \/ Allocate \/ AllocateThrows
  \/ EndRaw \/ EndDeleter \/ EndShared \/ EndAnyUnique
  \/ EndAnyShared \/ EndAnySharedThrows

Next == Client \/ Callee \/ Library

Spec == Init /\ [][Next]_vars

-----------------------------------------------------------------------------
(* Properties.                                                             *)

Blocks == [ptr : Objects \cup {NoObject}, del : Deleters \cup {NoDeleter}]

(* Type invariant; no deleter is called on a null pointer.                 *)
TypeOK ==
  /\ kind \in Kinds /\ inout \in BOOLEAN
  /\ ptr \in Objects \cup {NoObject} /\ own \in Objects \cup {NoObject}
  /\ del \in Deleters \cup {NoDeleter} /\ arg \in Deleters \cup {NoDeleter}
  /\ block \in Blocks
  /\ live \subseteq Objects /\ due \in [Objects -> Deleters \cup {NoDeleter}]
  /\ dying \in [obj : Objects \cup {NoObject}, by : Deleters \cup {NoDeleter}]
  /\ then \in {"idle", "allocate", "callee", "terminated"}
  /\ unwinding \in BOOLEAN
  /\ pc \in {"idle", "delete", "allocate", "callee", "end", "terminated"}
  /\ pc = "delete" => dying \in [obj : Objects, by : Deleters]

(* Whatever has thrown, when the adaptor is gone its smart pointer owns    *)
(* all that there is: no object is left to nobody or owned when dead, and  *)
(* a block is there for an object, and for nothing else.                   *)
OwnsWhatIsLeft ==
  pc = "idle" =>
    /\ live = {ptr} \ {NoObject}
    /\ block = IF kind \in Shared /\ ptr # NoObject
                 THEN [ptr |-> ptr, del |-> due[ptr]] ELSE NoBlock

(* A deleter is called on an object that exists, never on null, and is the *)
(* one that was handed over with it; at most one object waits for one.     *)
DeletesItsOwn ==
  /\ TypeOK
  /\ pc = "delete" => dying.obj \in live /\ dying.by = due[dying.obj]
  /\ pc = "callee" => live = {Lent} \ {NoObject}

(* The specialization for shared_ptr throws in its constructor only, so    *)
(* that it never ends the program: its block is there before the callee    *)
(* runs, and until then no deleter is due.                                 *)
OnlyLateAllocationTerminates ==
  /\ pc = "terminated" => kind = "any_shared" /\ live = {}
  /\ pc \in {"callee", "end"} /\ kind = "shared" => block = [ptr |-> NoObject, del |-> arg]
=============================================================================
