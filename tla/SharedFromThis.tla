--------------------------- MODULE SharedFromThis ---------------------------
(***************************************************************************)
(* enable_shared_from_this, and shared_ptr operations that run into each   *)
(* other in one thread: the release of a last owner calls a deleter, this  *)
(* calls a destructor, and both call the library again while the operation *)
(* that released is not finished.                                          *)
(*                                                                         *)
(* An object has a member shared_ptr (a list node's next) and, as its base,*)
(* the weak_ptr _M_weak_this.  It is on the heap and deleted by its block, *)
(* or static and only lent to blocks whose deleter does nothing to it.     *)
(* What the library has still to do is a stack of frames, the head on top. *)
(* Operations that no client code can interrupt are single steps here; how *)
(* they interleave with those of other threads is SpCountedBase's matter.  *)
(***************************************************************************)
EXTENDS Integers, Sequences, FiniteSets

CONSTANTS
  Objects, Blocks,
  Ptrs, WeakPtrs,           \* the client's own shared_ptrs and weak_ptrs
  NoObject, NoBlock,
  MaxUse, MaxWeak,          \* __max of _S_chk, and of _M_weak_add_ref
  MaxDepth                  \* of frames under which the client still calls

ASSUME SharedFromThisAssumption ==
  /\ NoObject \notin Objects /\ NoBlock \notin Blocks
  /\ Objects \cap Ptrs = {}
  /\ MaxUse \in Nat \ {0} /\ MaxWeak \in Nat \ {0, 1} /\ MaxDepth \in Nat
  /\ IsFiniteSet(Objects) /\ IsFiniteSet(Ptrs) /\ IsFiniteSet(WeakPtrs)

VARIABLES
  life,        \* of each object: "none", "alive", "ending"
  weakThis,    \* _M_weak_this: its block
  obj, owns,   \* of each block: its object, and whether its deleter deletes
  use, weak,   \* the counts; a block whose weak count is zero does not exist
  sp,          \* the block of each shared_ptr, of the client or in an object
  wp,          \* the block of each of the client's weak_ptrs
  stack,       \* the frames
  trapped      \* the program has ended in __builtin_trap

objects == <<life, weakThis>>
blocks  == <<obj, owns>>
vars    == <<life, weakThis, obj, owns, use, weak, sp, wp, stack, trapped>>

Slots      == Ptrs \cup Objects
BlocksOrNo == Blocks \cup {NoBlock}

Init ==
  /\ life = [o \in Objects |-> "none"]
  /\ weakThis = [o \in Objects |-> NoBlock]
  /\ obj = [b \in Blocks |-> NoObject] /\ owns = [b \in Blocks |-> FALSE]
  /\ use = [b \in Blocks |-> 0] /\ weak = [b \in Blocks |-> 0]
  /\ sp = [s \in Slots |-> NoBlock]
  /\ wp = [w \in WeakPtrs |-> NoBlock]
  /\ stack = <<>>
  /\ trapped = FALSE

-----------------------------------------------------------------------------
(* Counts and frames.                                                      *)

Frame(at, on, b) == [at |-> at, on |-> on, blk |-> b]
Rest == Tail(stack)
AtTop(at) == ~trapped /\ stack # <<>> /\ Head(stack).at = at

(* Client code runs: outside of the library, or in a deleter or destructor.*)
Calling ==
  /\ ~trapped
  /\ stack # <<>> => Head(stack).at = "body" /\ Len(stack) <= MaxDepth

(* The target of an unfinished assignment.                                 *)
Awaits(s) == \E k \in DOMAIN stack : stack[k].at = "store" /\ stack[k].on = s

(* It must be left alone.                                                  *)
Usable(s) ==
  /\ s \in Objects => life[s] = "alive"
  /\ ~Awaits(s)

(* Counters wrap around.                                                   *)
Inc(u, b) == IF b = NoBlock THEN u ELSE [u EXCEPT ![b] = (@ + 1) % (MaxUse + 1)]
Dec(u, b) == IF b = NoBlock THEN u ELSE [u EXCEPT ![b] = @ - 1]

(* Mutant: the limit is taken to be one higher.                            *)
ChkOneHigher(b) == trapped' = (b # NoBlock /\ use[b] = MaxUse + 1)

(* _S_chk: the count before the increment must not be the highest.         *)
Chk(b) == trapped' = (b # NoBlock /\ use[b] = MaxUse)

(* Release b, use being u after what came before, then go on with rest.    *)
Release(u, b, rest) ==
  /\ use' = Dec(u, b)
  /\ stack' = IF b # NoBlock /\ u[b] = 1
                THEN <<Frame("body", obj[b], b)>> \o rest ELSE rest

(* The weak counts become w; a block that has none left is freed.          *)
WeakCounts(w) ==
  /\ weak' = w
  /\ obj' = [b \in Blocks |-> IF w[b] = 0 THEN NoObject ELSE obj[b]]
  /\ owns' = [b \in Blocks |-> w[b] # 0 /\ owns[b]]

-----------------------------------------------------------------------------
(* New owners.                                                             *)

(* Mutant: a block that exists is taken to have owners.                    *)
ExpiredIfNone(b) == b = NoBlock

Expired(b) == b = NoBlock \/ use[b] = 0

(* A shared_ptr to a new object on the heap.                               *)
Make(s, o, b) ==
  /\ Calling
  /\ s # o /\ life[o] = "none"
  /\ Usable(s) /\ sp[s] = NoBlock
  /\ weak[b] = 0
  /\ life' = [life EXCEPT ![o] = "alive"]
  /\ weakThis' = [weakThis EXCEPT ![o] = b]
  /\ obj' = [obj EXCEPT ![b] = o] /\ owns' = [owns EXCEPT ![b] = TRUE]
  /\ use' = [use EXCEPT ![b] = 1] /\ weak' = [weak EXCEPT ![b] = 2]
  /\ sp' = [sp EXCEPT ![s] = b]
  /\ UNCHANGED <<wp, stack, trapped>>

MakeStatic(o) ==
  /\ Calling
  /\ life[o] = "none"
  /\ life' = [life EXCEPT ![o] = "alive"]
  /\ UNCHANGED <<weakThis, blocks, use, weak, sp, wp, stack, trapped>>

(* _M_assign: set _M_weak_this only when it has no owner to refer to.      *)
(* Mutants: always; only the first time.                                   *)
AssignsAlways(o) == TRUE
AssignsOnce(o) == weakThis[o] = NoBlock
Assigns(o) == Expired(weakThis[o])

(* A shared_ptr to an object that exists, with a deleter that does nothing.*)
(* The block that _M_weak_this had before may be freed.                    *)
Adopt(s, o, b) ==
  /\ Calling
  /\ life[o] = "alive"
  /\ Usable(s) /\ sp[s] = NoBlock
  /\ weak[b] = 0
  /\ use' = [use EXCEPT ![b] = 1]
  /\ sp' = [sp EXCEPT ![s] = b]
  /\ LET w == IF Assigns(o) THEN [Dec(weak, weakThis[o]) EXCEPT ![b] = 2]
              ELSE [weak EXCEPT ![b] = 1]
     IN  /\ weakThis' = IF Assigns(o) THEN [weakThis EXCEPT ![o] = b] ELSE weakThis
         /\ weak' = w
         /\ obj' = [c \in Blocks |-> IF c = b THEN o ELSE IF w[c] = 0 THEN NoObject ELSE obj[c]]
         /\ owns' = [c \in Blocks |-> c # b /\ w[c] # 0 /\ owns[c]]
  /\ UNCHANGED <<life, wp, stack, trapped>>

(* It throws bad_weak_ptr if there is no owner, and changes nothing.       *)
SharedFromThis(s, o) ==
  /\ Calling
  /\ life[o] = "alive" /\ ~Expired(weakThis[o])
  /\ Usable(s) /\ sp[s] = NoBlock
  /\ sp' = [sp EXCEPT ![s] = weakThis[o]]
  /\ use' = Inc(use, weakThis[o])
  /\ Chk(weakThis[o])
  /\ UNCHANGED <<objects, blocks, weak, wp, stack>>

(* It traps on the count that wraps around.                                *)
WeakAddRef(b) ==
  /\ weak' = [weak EXCEPT ![b] = (@ + 1) % (MaxWeak + 1)]
  /\ trapped' = (weak[b] = MaxWeak)

WeakFromThis(w, o) ==
  /\ Calling
  /\ life[o] = "alive" /\ weakThis[o] # NoBlock
  /\ wp[w] = NoBlock
  /\ wp' = [wp EXCEPT ![w] = weakThis[o]]
  /\ WeakAddRef(weakThis[o])
  /\ UNCHANGED <<objects, blocks, use, sp, stack>>

Lock(s, w) ==
  /\ Calling
  /\ Usable(s) /\ sp[s] = NoBlock
  /\ ~Expired(wp[w])
  /\ sp' = [sp EXCEPT ![s] = wp[w]]
  /\ use' = Inc(use, wp[w])
  /\ Chk(wp[w])
  /\ UNCHANGED <<objects, blocks, weak, wp, stack>>

ResetWeak(w) ==
  /\ Calling
  /\ wp[w] # NoBlock
  /\ wp' = [wp EXCEPT ![w] = NoBlock]
  /\ WeakCounts(Dec(weak, wp[w]))
  /\ UNCHANGED <<objects, use, sp, stack, trapped>>

-----------------------------------------------------------------------------
(* Assignments.                                                            *)

(* Mutant: the new block is not counted.                                   *)
CopyAssignUncounted(s, r) ==
  /\ Calling
  /\ Usable(s) /\ Usable(r) /\ sp[r] # sp[s]
  /\ Release(use, sp[s], <<Frame("store", s, sp[r])>> \o stack)
  /\ UNCHANGED <<objects, blocks, weak, sp, wp, trapped>>

(* Count the new block, release the old one, then store.                   *)
CopyAssign(s, r) ==
  /\ Calling
  /\ Usable(s) /\ Usable(r) /\ sp[r] # sp[s]
  /\ Chk(sp[r])
  /\ Release(Inc(use, sp[r]), sp[s], <<Frame("store", s, sp[r])>> \o stack)
  /\ UNCHANGED <<objects, blocks, weak, sp, wp>>

Store ==
  /\ AtTop("store")
  /\ sp' = [sp EXCEPT ![Head(stack).on] = Head(stack).blk]
  /\ stack' = Rest
  /\ UNCHANGED <<objects, blocks, use, weak, wp, trapped>>

(* Mutant: the source keeps what it gave away.                             *)
MoveAssignKeepsSource(s, r) ==
  /\ Calling
  /\ Usable(s) /\ Usable(r) /\ s # r
  /\ sp[s] # NoBlock \/ sp[r] # NoBlock
  /\ sp' = [sp EXCEPT ![s] = sp[r]]
  /\ Release(use, sp[s], stack)
  /\ UNCHANGED <<objects, blocks, weak, wp, trapped>>

(* Both through a temporary: the target has its new value when the old one *)
(* is released, so that a deleter may use and even end it.                 *)
MoveAssign(s, r) ==
  /\ Calling
  /\ Usable(s) /\ Usable(r) /\ s # r
  /\ sp[s] # NoBlock \/ sp[r] # NoBlock
  /\ sp' = [sp EXCEPT ![s] = sp[r], ![r] = NoBlock]
  /\ Release(use, sp[s], stack)
  /\ UNCHANGED <<objects, blocks, weak, wp, trapped>>

Reset(s) ==
  /\ Calling
  /\ Usable(s) /\ sp[s] # NoBlock
  /\ sp' = [sp EXCEPT ![s] = NoBlock]
  /\ Release(use, sp[s], stack)
  /\ UNCHANGED <<objects, blocks, weak, wp, trapped>>

-----------------------------------------------------------------------------
(* Ends: the deleter, or the destructor of a static object, is a body of   *)
(* client code; then come the member, the base, and the owners' reference. *)

Destructor(o) == <<Frame("member", o, NoBlock), Frame("base", o, NoBlock)>>

EndStatic(o) ==
  /\ ~trapped /\ stack = <<>>
  /\ life[o] = "alive"
  /\ \A b \in Blocks : owns[b] => obj[b] # o
  /\ stack' = Destructor(o)
  /\ UNCHANGED <<objects, blocks, use, weak, sp, wp, trapped>>

(* A client must not have an object destroyed that has the target of an    *)
(* unfinished assignment: the store would be into memory that is gone.     *)
EndBody ==
  /\ AtTop("body")
  /\ owns[Head(stack).blk] => ~Awaits(Head(stack).on)
  /\ LET f == Head(stack)
     IN  stack' = (IF owns[f.blk] THEN Destructor(f.on) ELSE <<>>)
                    \o <<Frame("weak", f.on, f.blk)>> \o Rest
  /\ UNCHANGED <<objects, blocks, use, weak, sp, wp, trapped>>

EndMember ==
  /\ AtTop("member")
  /\ LET o == Head(stack).on
     IN  /\ life' = [life EXCEPT ![o] = "ending"]
         /\ sp' = [sp EXCEPT ![o] = NoBlock]
         /\ Release(use, sp[o], Rest)
  /\ UNCHANGED <<weakThis, blocks, weak, wp, trapped>>

EndBase ==
  /\ AtTop("base")
  /\ LET o == Head(stack).on
     IN  /\ life' = [life EXCEPT ![o] = "none"]
         /\ weakThis' = [weakThis EXCEPT ![o] = NoBlock]
         /\ WeakCounts(Dec(weak, weakThis[o]))
  /\ stack' = Rest
  /\ UNCHANGED <<use, sp, wp, trapped>>

(* _M_destroy runs when no weak_ptr is left.                               *)
EndOwners ==
  /\ AtTop("weak")
  /\ WeakCounts(Dec(weak, Head(stack).blk))
  /\ stack' = Rest
  /\ UNCHANGED <<objects, use, sp, wp, trapped>>

-----------------------------------------------------------------------------
Client ==
  \/ \E s \in Slots, o \in Objects, b \in Blocks : Make(s, o, b) \/ Adopt(s, o, b)
  \/ \E o \in Objects : MakeStatic(o) \/ EndStatic(o)
  \/ \E s \in Slots, o \in Objects : SharedFromThis(s, o)
  \/ \E s, r \in Slots : CopyAssign(s, r) \/ MoveAssign(s, r)
  \/ \E s \in Slots : Reset(s)
  \/ \E w \in WeakPtrs :
       \/ \E s \in Slots : Lock(s, w)
       \/ \E o \in Objects : WeakFromThis(w, o)
       \/ ResetWeak(w)

Library == Store \/ EndBody \/ EndMember \/ EndBase \/ EndOwners

Next == Client \/ Library

Spec == Init /\ [][Next]_vars

-----------------------------------------------------------------------------
(* Properties.                                                             *)

Frames == {stack[k] : k \in DOMAIN stack}

(* Type invariant; no count is decremented below zero.                     *)
TypeOK ==
  /\ life \in [Objects -> {"none", "alive", "ending"}]
  /\ weakThis \in [Objects -> BlocksOrNo]
  /\ obj \in [Blocks -> Objects \cup {NoObject}] /\ owns \in [Blocks -> BOOLEAN]
  /\ use \in [Blocks -> 0..MaxUse] /\ weak \in [Blocks -> 0..MaxWeak]
  /\ sp \in [Slots -> BlocksOrNo] /\ wp \in [WeakPtrs -> BlocksOrNo]
  /\ trapped \in BOOLEAN
  /\ \A f \in Frames : f.at \in {"body", "member", "base", "weak", "store"}

(* The pending stores, the target of which still names the old block.      *)
Stores == {k \in DOMAIN stack : stack[k].at = "store"}
Busy   == {stack[k].on : k \in Stores}

Owners(b) ==
  Cardinality({s \in Slots \ Busy : sp[s] = b}) + Cardinality({k \in Stores : stack[k].blk = b})
Watchers(b) ==
  Cardinality({o \in Objects : weakThis[o] = b}) + Cardinality({w \in WeakPtrs : wp[w] = b})
Ending(b) == \E f \in Frames : f.at \in {"body", "weak"} /\ f.blk = b

(* The counts are exact at every point where client code runs, also under  *)
(* unfinished operations, unless a counter has overflowed and the program  *)
(* has ended: a count that came back to zero would go unnoticed.           *)
CountsExact ==
  /\ TypeOK
  /\ trapped \/ \A b \in Blocks :
       /\ use[b] = Owners(b)
       /\ weak[b] = Watchers(b) + (IF use[b] > 0 \/ Ending(b) THEN 1 ELSE 0)

(* What a shared_ptr owns is there: its block is not being ended, and the  *)
(* object of a block that deletes is alive, whoever calls from where.      *)
OwnersSeeObject ==
  trapped \/ \A s \in Slots \ Busy :
    sp[s] # NoBlock =>
      /\ ~Ending(sp[s])
      /\ owns[sp[s]] => life[obj[sp[s]]] = "alive"

(* An object ends once, and a block is ended while it exists, once.        *)
EndsOnce ==
  \A k, l \in DOMAIN stack :
    /\ stack[k].at \in {"body", "weak"} => trapped \/ weak[stack[k].blk] > 0
    /\ k # l /\ stack[k].at = stack[l].at /\ stack[k].at # "store" =>
         IF stack[k].at \in {"body", "weak"} THEN stack[k].blk # stack[l].blk
         ELSE stack[k].on # stack[l].on

(* The first owner of an object stays the one whose block _M_weak_this has *)
(* while it is alive: an unrelated owner does not replace it.              *)
FirstOwnerStays ==
  [][\A o \in Objects :
       ~Expired(weakThis[o]) /\ life'[o] = "alive" => weakThis'[o] = weakThis[o]]_vars

(* Whenever an object gets a new owner, shared_from_this() works after it. *)
NewOwnerShares ==
  [][\A b \in Blocks :
       weak[b] = 0 /\ weak'[b] > 0 => use'[weakThis'[obj'[b]]] > 0]_vars
=============================================================================
