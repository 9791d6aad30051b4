----------------------------- MODULE SpConstruct -----------------------------
(***************************************************************************)
(* Making a shared_ptr and ending what it owns, when any allocation and    *)
(* any element's constructor may throw: the constructors of __shared_count,*)
(* the control blocks they build, and cest_allocate_shared.                *)
(*                                                                         *)
(* One object or array is made at a time, in one of these ways (Kinds):    *)
(*   "pointer"    shared_ptr(p): _Sp_counted_ptr                           *)
(*   "deleter"    shared_ptr(p, d, a), shared_ptr<T[]>(p)                  *)
(*   "unique"     shared_ptr(unique_ptr&&)                                 *)
(*   "inplace"    make_shared<T>, allocate_shared<T>                       *)
(*   "array"      make_shared<T[]>, allocate_shared<T[]>                   *)
(*   "overwrite"  make_shared_for_overwrite<T[]>                           *)
(*   "consteval"  all the make functions, during constant evaluation       *)
(* Elements are numbered from 1, and a loop over them has a step for each. *)
(***************************************************************************)
EXTENDS Integers

CONSTANTS
  MaxLength,      \* of an array
  Kinds,          \* the ways that are used
  MayNotAllocate  \* those whose allocation of the elements may throw

Made   == {"pointer", "deleter", "unique"}     \* the client made the object
Joint  == {"inplace", "array", "overwrite"}    \* one allocation for all
Arrays == {"deleter", "array", "overwrite", "consteval"}

ASSUME ConstructAssumption ==
  /\ MaxLength \in Nat
  /\ Kinds \subseteq Made \cup Joint \cup {"consteval"}

VARIABLES
  kind, len,   \* what is made
  objs,        \* the elements that exist
  storage,     \* of the elements: "none", "held", or the "client"'s
  block,       \* the control block: "none" or "built"
  first, i,    \* a loop has elements first + 1 to i before it
  pc

vars == <<kind, len, objs, storage, block, first, i, pc>>

Init ==
  /\ kind = "none" /\ len = 0
  /\ objs = {}
  /\ storage = "none" /\ block = "none"
  /\ first = 0 /\ i = 0
  /\ pc = "idle"

Goto(p) == pc' = p /\ UNCHANGED <<kind, len>>

-----------------------------------------------------------------------------
(* Construction.                                                           *)

(* The client calls a constructor with an object of its own.               *)
StartOwn(k, n) ==
  /\ pc = "idle"
  /\ k \in Made
  /\ k \notin Arrays => n = 1
  /\ kind' = k /\ len' = n
  /\ objs' = 1..n
  /\ storage' = "client"
  /\ i' = n
  /\ pc' = "allocate_block"
  /\ UNCHANGED <<block, first>>

(* The client calls a make function.                                       *)
StartMake(k, n) ==
  /\ pc = "idle"
  /\ k \notin Made
  /\ k \notin Arrays => n = 1
  /\ kind' = k /\ len' = n
  /\ pc' = "allocate"
  /\ UNCHANGED <<objs, storage, block, first, i>>

Allocate ==
  /\ pc = "allocate"
  /\ storage' = "held"
  /\ Goto("construct")
  /\ UNCHANGED <<objs, block, first, i>>

(* Mutant: the guard exists before the allocation.                         *)
AllocateThrowsGuarded ==
  /\ pc = "allocate" /\ kind \in MayNotAllocate
  /\ Goto("unwind")
  /\ UNCHANGED <<objs, storage, block, first, i>>

(* No guard exists yet; but cest_allocate_shared allocates in its try      *)
(* block, and its handler runs the deleter on a null pointer.              *)
AllocateThrows ==
  /\ pc = "allocate" /\ kind \in MayNotAllocate
  /\ Goto(IF kind = "consteval" THEN "delete" ELSE "thrown")
  /\ UNCHANGED <<objs, storage, block, first, i>>

Construct ==
  /\ pc = "construct" /\ i < len
  /\ objs' = objs \cup {i + 1}
  /\ i' = i + 1
  /\ Goto("construct")
  /\ UNCHANGED <<storage, block, first>>

(* Mutant: the deleter of the handler is told of all the elements.         *)
ConstructThrowsAll ==
  /\ pc = "construct" /\ i < len
  /\ i' = len
  /\ Goto(IF kind = "consteval" THEN "delete" ELSE "unwind")
  /\ UNCHANGED <<objs, storage, block, first>>

(* cest_allocate_shared runs its deleter with the number of elements made. *)
ConstructThrows ==
  /\ pc = "construct" /\ i < len
  /\ Goto(IF kind = "consteval" THEN "delete" ELSE "unwind")
  /\ UNCHANGED <<objs, storage, block, first, i>>

(* The block of a joint allocation is built behind its elements.           *)
Constructed ==
  /\ pc = "construct" /\ i = len
  /\ IF kind \in Joint
       THEN block' = "built" /\ Goto("owned")
       ELSE Goto("allocate_block") /\ UNCHANGED block
  /\ UNCHANGED <<objs, storage, first, i>>

AllocateBlock ==
  /\ pc = "allocate_block"
  /\ block' = "built"
  /\ storage' = "held"
  /\ Goto("owned")
  /\ UNCHANGED <<objs, first, i>>

(* Mutant: no handler.                                                     *)
AllocateBlockThrowsOut ==
  /\ pc = "allocate_block"
  /\ Goto("thrown")
  /\ UNCHANGED <<objs, storage, block, first, i>>

(* The handler deletes p or calls the deleter on it; a unique_ptr has not  *)
(* been released yet.                                                      *)
AllocateBlockThrows ==
  /\ pc = "allocate_block"
  /\ Goto(IF kind = "unique" THEN "thrown" ELSE "delete")
  /\ UNCHANGED <<objs, storage, block, first, i>>

-----------------------------------------------------------------------------
(* Loops that destroy: the guard of _M_init and destroy_n start with the   *)
(* first element, all the others with the last.                            *)

DestroyFirst ==
  /\ objs' = objs \ {first + 1}
  /\ first' = first + 1
  /\ UNCHANGED i

DestroyLast ==
  /\ objs' = objs \ {i}
  /\ i' = i - 1
  /\ UNCHANGED first

(* The elements made so far, then (the outer guard) the memory.            *)
Unwind ==
  /\ pc = "unwind"
  /\ \/ first < i /\ DestroyFirst /\ Goto("unwind") /\ UNCHANGED storage
     \/ first = i /\ storage' = "none" /\ Goto("thrown") /\ UNCHANGED <<objs, first, i>>
  /\ UNCHANGED block

(* Mutant: elements die in the order in which they were made.              *)
DeleteForward ==
  /\ pc = "delete"
  /\ \/ first < i /\ DestroyFirst /\ Goto("delete") /\ UNCHANGED storage
     \/ /\ first = i
        /\ storage' = "none"
        /\ Goto(IF block = "built" THEN "destroy" ELSE "thrown")
        /\ UNCHANGED <<objs, first, i>>
  /\ UNCHANGED block

(* delete, delete[], a deleter: the elements, then their memory.           *)
Delete ==
  /\ pc = "delete"
  /\ \/ first < i /\ DestroyLast /\ Goto("delete") /\ UNCHANGED storage
     \/ /\ first = i
        /\ storage' = "none"
        /\ Goto(IF block = "built" THEN "destroy" ELSE "thrown")
        /\ UNCHANGED <<objs, first, i>>
  /\ UNCHANGED block

-----------------------------------------------------------------------------
(* The last owner goes: _M_dispose, and _M_destroy when the last weak_ptr  *)
(* goes too.                                                               *)

Release ==
  /\ pc = "owned"
  /\ Goto(IF kind \in Joint THEN "dispose" ELSE "delete")
  /\ UNCHANGED <<objs, storage, block, first, i>>

(* Mutant: memory is given back, but no destructor runs.                   *)
DisposeNothing ==
  /\ pc = "dispose"
  /\ Goto("destroy")
  /\ UNCHANGED <<objs, first, i, storage, block>>

Dispose ==
  /\ pc = "dispose"
  /\ \/ first < i /\ kind = "overwrite" /\ DestroyFirst /\ Goto("dispose")
     \/ first < i /\ kind # "overwrite" /\ DestroyLast /\ Goto("dispose")
     \/ first = i /\ Goto("destroy") /\ UNCHANGED <<objs, first, i>>
  /\ UNCHANGED <<storage, block>>

Destroy ==
  /\ pc = "destroy"
  /\ block' = "none"
  /\ storage' = "none"
  /\ Goto("ended")
  /\ UNCHANGED <<objs, first, i>>

(* The client deals with what it still has and starts again.               *)
Again ==
  /\ pc \in {"thrown", "ended"}
  /\ kind' = "none" /\ len' = 0
  /\ objs' = {}
  /\ storage' = "none"
  /\ first' = 0 /\ i' = 0
  /\ pc' = "idle"
  /\ UNCHANGED block

Next ==
  \/ \E k \in Kinds, n \in 0..MaxLength : StartOwn(k, n) \/ StartMake(k, n)
  \/ Allocate \/ AllocateThrows
  \/ Construct \/ ConstructThrows \/ Constructed
  \/ AllocateBlock \/ AllocateBlockThrows
  \/ Unwind \/ Delete
  \/ Release \/ Dispose \/ Destroy
  \/ Again

Spec == Init /\ [][Next]_vars

-----------------------------------------------------------------------------
(* Properties.                                                             *)

(* Type invariant; all positions lie in the array.                         *)
TypeOK ==
  /\ kind \in Kinds \cup {"none"} /\ len \in 0..MaxLength
  /\ objs \subseteq 1..len
  /\ storage \in {"none", "held", "client"} /\ block \in {"none", "built"}
  /\ first \in 0..len /\ i \in 0..len
  /\ pc \in {"idle", "allocate", "construct", "allocate_block", "owned", "unwind",
             "delete", "dispose", "destroy", "thrown", "ended"}

(* Wherever a step threw, everything made is unmade, and nothing else: the *)
(* exceptions are a unique_ptr, which then still owns its object, and a    *)
(* shared_ptr that exists.                                                 *)
NothingLost ==
  /\ pc \in {"idle", "thrown", "ended"} => block = "none"
  /\ pc \in {"thrown", "ended"} =>
       IF pc = "thrown" /\ kind = "unique"
         THEN objs = 1..len /\ storage = "client"
         ELSE objs = {} /\ storage = "none"
  /\ pc = "owned" => objs = 1..len /\ storage = "held" /\ block = "built"

(* A loop stays inside the array and destroys each element that exists,    *)
(* once: never one whose constructor threw or has not run.                 *)
DestroysWhatExists ==
  /\ TypeOK
  /\ pc \in {"unwind", "delete", "dispose"} => objs = (first + 1)..i

(* Memory is given back only if it was allocated.                          *)
FreesWhatIsAllocated ==
  /\ pc \in {"unwind", "delete"} => storage # "none"
  /\ pc = "destroy" => block = "built"

(* Memory is given back after the lives of the elements in it, and the     *)
(* control block, which keeps the deleter, after both.                     *)
EndsInOrder ==
  [][/\ storage # "none" /\ storage' = "none" /\ pc \notin {"thrown", "ended"} => objs = {}
     /\ block = "built" /\ block' = "none" =>
          objs = {} /\ (kind \notin Joint => storage = "none")]_vars

(* The elements of an array die in the reverse order of construction, with *)
(* two exceptions: destroy_n, and an array that was never finished.        *)
LastDiesFirst ==
  [][objs' # objs /\ objs' \subseteq objs /\ pc \in {"delete", "dispose"}
       /\ kind # "overwrite" => \A k \in objs, l \in objs \ objs' : k <= l]_vars

-----------------------------------------------------------------------------
(* The inductive invariant: what each place of the code knows.             *)

PlaceOK ==
  /\ pc # "idle" => kind \in Kinds
  /\ pc = "idle" => objs = {} /\ storage = "none" /\ first = 0 /\ i = 0
  /\ pc = "allocate" =>
       kind \notin Made /\ objs = {} /\ storage = "none" /\ block = "none" /\ first = 0 /\ i = 0
  /\ pc = "construct" =>
       kind \notin Made /\ objs = 1..i /\ storage = "held" /\ block = "none" /\ first = 0
  /\ pc = "allocate_block" =>
       /\ kind \notin Joint /\ objs = 1..len /\ first = 0 /\ i = len
       /\ storage = (IF kind \in Made THEN "client" ELSE "held") /\ block = "none"
  /\ pc = "owned" => first = 0 /\ i = len
  /\ pc = "unwind" => kind \in Joint /\ block = "none"
  /\ pc = "delete" => kind \notin Joint /\ (kind = "unique" => block = "built")
  /\ pc = "dispose" => kind \in Joint /\ storage = "held" /\ block = "built"
  /\ pc = "destroy" => objs = {} /\ (kind \notin Joint => storage = "none")

IInv == PlaceOK /\ NothingLost /\ DestroysWhatExists
=============================================================================
