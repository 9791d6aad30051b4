------------------------------ MODULE SpLocker ------------------------------
(***************************************************************************)
(* The free functions that make operations on an ordinary shared_ptr       *)
(* atomic: atomic_load, atomic_store, atomic_exchange and                  *)
(* atomic_compare_exchange_strong of bits/shared_ptr_atomic.h.  Each holds *)
(* an _Sp_locker: one mutex, or two, of a pool, chosen by hashing the      *)
(* addresses.  Under it a shared_ptr is read and written as anywhere else, *)
(* its pointer in one step and its control block in another.               *)
(*                                                                         *)
(* The pool is in the library's binary.  As there, the lower key is locked *)
(* first, and equal keys are locked once.  Counts are as in SpAtomic.      *)
(***************************************************************************)
EXTENDS Integers, FiniteSets

CONSTANTS
  Threads, Slots, Keys,     \* Slots: the shared_ptrs that are shared
  Blocks, Parts,
  NoBlock, NoPtr, NoThread, NoSlot

ASSUME LockerAssumption ==
  /\ Keys \subseteq 0..255     \* _M_key1 and _M_key2 are unsigned char
  /\ NoBlock \notin Blocks
  /\ NoPtr \notin Blocks \X Parts
  /\ NoThread \notin Threads /\ NoSlot \notin Slots
  /\ IsFiniteSet(Slots) /\ IsFiniteSet(Threads)

VARIABLES
  key,       \* the key of each address
  holder,    \* the thread that holds each mutex
  ptr, pi,   \* the members of each shared_ptr
  use,       \* the count of each block
  arg,       \* of each thread: __r or __w, or the result
  x,         \* __x
  p, v,      \* the addresses passed
  op, pc

shared == <<ptr, pi>>
local  == <<arg, x>>
call   == <<p, v, op>>
vars   == <<key, holder, ptr, pi, use, arg, x, p, v, op, pc>>

Ptrs       == (Blocks \X Parts) \cup {NoPtr}
BlocksOrNo == Blocks \cup {NoBlock}
Values     == [ptr : Ptrs, pi : BlocksOrNo]
NoValue    == [ptr |-> NoPtr, pi |-> NoBlock]

Init ==
  /\ key \in [Slots -> Keys]
  /\ holder = [k \in Keys |-> NoThread]
  /\ ptr = [s \in Slots |-> NoPtr] /\ pi = [s \in Slots |-> NoBlock]
  /\ use = [b \in Blocks |-> 0]
  /\ arg = [t \in Threads |-> NoValue] /\ x = [t \in Threads |-> NoValue]
  /\ p = [t \in Threads |-> NoSlot] /\ v = [t \in Threads |-> NoSlot]
  /\ op = [t \in Threads |-> "none"]
  /\ pc = [t \in Threads |-> "idle"]

-----------------------------------------------------------------------------
(* Control, counts, and the client.                                        *)

Goto(t, place) == pc' = [pc EXCEPT ![t] = place] /\ UNCHANGED <<key, call>>

Return(t) ==
  /\ op' = [op EXCEPT ![t] = "none"]
  /\ p' = [p EXCEPT ![t] = NoSlot] /\ v' = [v EXCEPT ![t] = NoSlot]
  /\ pc' = [pc EXCEPT ![t] = "idle"]
  /\ UNCHANGED key

AddRef(b) == use' = IF b = NoBlock THEN use ELSE [use EXCEPT ![b] = @ + 1]

(* The deleter runs when the count becomes zero.                           *)
Unref(b) == use' = IF b = NoBlock THEN use ELSE [use EXCEPT ![b] = @ - 1]

Make(t, b, i) ==
  /\ pc[t] = "idle"
  /\ arg[t] = NoValue
  /\ use[b] = 0
  /\ use' = [use EXCEPT ![b] = 1]
  /\ arg' = [arg EXCEPT ![t] = [ptr |-> <<b, i>>, pi |-> b]]
  /\ UNCHANGED <<key, holder, shared, x, call, pc>>

(* shared_ptr(std::move(arg), part).                                       *)
Alias(t, i) ==
  /\ pc[t] = "idle"
  /\ arg[t] # NoValue
  /\ arg' = [arg EXCEPT ![t].ptr = <<arg[t].pi, i>>]
  /\ UNCHANGED <<key, holder, shared, use, x, call, pc>>

Reset(t) ==
  /\ pc[t] = "idle"
  /\ arg[t] # NoValue
  /\ Goto(t, "drop_arg")
  /\ UNCHANGED <<holder, shared, use, local>>

(* A second address is passed to a compare-exchange.                       *)
Call(t, o, s, r) ==
  /\ pc[t] = "idle"
  /\ o = "load" => arg[t] = NoValue
  /\ o # "cas" => s = r
  /\ op' = [op EXCEPT ![t] = o]
  /\ p' = [p EXCEPT ![t] = s] /\ v' = [v EXCEPT ![t] = r]
  /\ pc' = [pc EXCEPT ![t] = "lock1"]
  /\ UNCHANGED <<key, holder, shared, use, local>>

-----------------------------------------------------------------------------
(* _Sp_locker.                                                             *)

MyKeys(t) == {key[p[t]], key[v[t]]}

(* Mutant: the keys are locked in the order of the arguments.              *)
FirstKeyAsGiven(t) == key[p[t]]

FirstKey(t) == IF key[p[t]] <= key[v[t]] THEN key[p[t]] ELSE key[v[t]]

Take(t, k) ==
  /\ holder[k] = NoThread
  /\ holder' = [holder EXCEPT ![k] = t]

Body(t) == IF op[t] = "load" THEN "read_ptr" ELSE IF op[t] = "swap" THEN "swap_ptr" ELSE "compare"

Lock1(t) ==
  /\ pc[t] = "lock1"
  /\ Take(t, FirstKey(t))
  /\ Goto(t, IF MyKeys(t) = {FirstKey(t)} THEN Body(t) ELSE "lock2")
  /\ UNCHANGED <<shared, use, local>>

Lock2(t) ==
  /\ pc[t] = "lock2"
  /\ \E k \in MyKeys(t) \ {FirstKey(t)} : Take(t, k)
  /\ Goto(t, Body(t))
  /\ UNCHANGED <<shared, use, local>>

(* The destructor, before that of __x, and that of the parameter.          *)
Unlock(t) ==
  /\ pc[t] = "unlock"
  /\ holder' = [k \in Keys |-> IF holder[k] = t THEN NoThread ELSE holder[k]]
  /\ IF op[t] = "cas" THEN Goto(t, "drop_x") ELSE Return(t)
  /\ UNCHANGED <<shared, use, local>>

DropX(t) ==
  /\ pc[t] = "drop_x"
  /\ Unref(x[t].pi)
  /\ x' = [x EXCEPT ![t] = NoValue]
  /\ Goto(t, "drop_arg")
  /\ UNCHANGED <<holder, shared, arg>>

DropArg(t) ==
  /\ pc[t] = "drop_arg"
  /\ Unref(arg[t].pi)
  /\ arg' = [arg EXCEPT ![t] = NoValue]
  /\ Return(t)
  /\ UNCHANGED <<holder, shared, x>>

-----------------------------------------------------------------------------
(* atomic_load: a copy.  atomic_store and atomic_exchange: a swap.         *)

(* Mutant: the lock is released between the two members.                   *)
ReadPtrUnlocks(t) ==
  /\ pc[t] = "read_ptr"
  /\ arg' = [arg EXCEPT ![t].ptr = ptr[p[t]]]
  /\ holder' = [k \in Keys |-> IF holder[k] = t THEN NoThread ELSE holder[k]]
  /\ Goto(t, "read_pi")
  /\ UNCHANGED <<shared, use, x>>

ReadPtr(t) ==
  /\ pc[t] = "read_ptr"
  /\ arg' = [arg EXCEPT ![t].ptr = ptr[p[t]]]
  /\ Goto(t, "read_pi")
  /\ UNCHANGED <<holder, shared, use, x>>

ReadPi(t) ==
  /\ pc[t] = "read_pi"
  /\ arg' = [arg EXCEPT ![t].pi = pi[p[t]]]
  /\ AddRef(pi[p[t]])
  /\ Goto(t, "unlock")
  /\ UNCHANGED <<holder, shared, x>>

SwapPtr(t) ==
  /\ pc[t] = "swap_ptr"
  /\ arg' = [arg EXCEPT ![t].ptr = ptr[p[t]]]
  /\ ptr' = [ptr EXCEPT ![p[t]] = arg[t].ptr]
  /\ Goto(t, "swap_pi")
  /\ UNCHANGED <<holder, pi, use, x>>

(* Mutant: an assignment, which releases the old value, in place of swap.  *)
SwapPiAssigns(t) ==
  /\ pc[t] = "swap_pi"
  /\ Unref(pi[p[t]])
  /\ arg' = [arg EXCEPT ![t] = NoValue]
  /\ pi' = [pi EXCEPT ![p[t]] = arg[t].pi]
  /\ Goto(t, "unlock")
  /\ UNCHANGED <<holder, ptr, x>>

(* "Use swap so that **__p not destroyed while lock held."                 *)
SwapPi(t) ==
  /\ pc[t] = "swap_pi"
  /\ arg' = [arg EXCEPT ![t].pi = pi[p[t]]]
  /\ pi' = [pi EXCEPT ![p[t]] = arg[t].pi]
  /\ Goto(t, "unlock")
  /\ UNCHANGED <<holder, ptr, use, x>>

-----------------------------------------------------------------------------
(* atomic_compare_exchange_strong(p, v, w).                                *)

(* Mutant: the owners are compared, and not the pointers.                  *)
EqualOwners(t) == pi[p[t]] = pi[v[t]]

Equal(t) == ptr[p[t]] = ptr[v[t]] /\ pi[p[t]] = pi[v[t]]

Compare(t) ==
  /\ pc[t] = "compare"
  /\ Goto(t, IF Equal(t) THEN "take_p" ELSE "take_v")
  /\ UNCHANGED <<holder, shared, use, local>>

(* __x = std::move of *__p, or of *__v.                                    *)
Target(t) == IF pc[t] \in {"take_v", "take_v_pi", "copy_ptr", "copy_pi"} THEN v[t] ELSE p[t]

TakePtr(t) ==
  /\ pc[t] \in {"take_p", "take_v"}
  /\ x' = [x EXCEPT ![t].ptr = ptr[Target(t)]]
  /\ Goto(t, IF pc[t] = "take_p" THEN "take_p_pi" ELSE "take_v_pi")
  /\ UNCHANGED <<holder, shared, use, arg>>

TakePi(t) ==
  /\ pc[t] \in {"take_p_pi", "take_v_pi"}
  /\ x' = [x EXCEPT ![t].pi = pi[Target(t)]]
  /\ pi' = [pi EXCEPT ![Target(t)] = NoBlock]
  /\ ptr' = [ptr EXCEPT ![Target(t)] = NoPtr]
  /\ Goto(t, IF pc[t] = "take_p_pi" THEN "put_ptr" ELSE "copy_ptr")
  /\ UNCHANGED <<holder, use, arg>>

(* *__p = std::move(__w).                                                  *)
PutPtr(t) ==
  /\ pc[t] = "put_ptr"
  /\ ptr' = [ptr EXCEPT ![p[t]] = arg[t].ptr]
  /\ Goto(t, "put_pi")
  /\ UNCHANGED <<holder, pi, use, local>>

(* Mutant: __w keeps what it is moved from.                                *)
PutPiCopies(t) ==
  /\ pc[t] = "put_pi"
  /\ pi' = [pi EXCEPT ![p[t]] = arg[t].pi]
  /\ Goto(t, "unlock")
  /\ UNCHANGED <<holder, ptr, use, local>>

PutPi(t) ==
  /\ pc[t] = "put_pi"
  /\ pi' = [pi EXCEPT ![p[t]] = arg[t].pi]
  /\ arg' = [arg EXCEPT ![t] = NoValue]
  /\ Goto(t, "unlock")
  /\ UNCHANGED <<holder, ptr, use, x>>

(* *__v = *__p.                                                            *)
CopyPtr(t) ==
  /\ pc[t] = "copy_ptr"
  /\ ptr' = [ptr EXCEPT ![v[t]] = ptr[p[t]]]
  /\ Goto(t, "copy_pi")
  /\ UNCHANGED <<holder, pi, use, local>>

CopyPi(t) ==
  /\ pc[t] = "copy_pi"
  /\ pi' = [pi EXCEPT ![v[t]] = pi[p[t]]]
  /\ AddRef(pi[p[t]])
  /\ Goto(t, "unlock")
  /\ UNCHANGED <<holder, ptr, local>>

-----------------------------------------------------------------------------
Client(t) ==
  \/ \E b \in Blocks, i \in Parts : Make(t, b, i)
  \/ \E i \in Parts : Alias(t, i)
  \/ Reset(t)
  \/ \E o \in {"load", "swap", "cas"}, s, r \in Slots : Call(t, o, s, r)

Step(t) ==
  \/ Lock1(t) \/ Lock2(t) \/ Unlock(t) \/ DropX(t) \/ DropArg(t)
  \/ ReadPtr(t) \/ ReadPi(t) \/ SwapPtr(t) \/ SwapPi(t)
  \/ Compare(t) \/ TakePtr(t) \/ TakePi(t)
  \/ PutPtr(t) \/ PutPi(t) \/ CopyPtr(t) \/ CopyPi(t)

Next == \E t \in Threads : Client(t) \/ Step(t)

Spec == Init /\ [][Next]_vars

-----------------------------------------------------------------------------
(* Properties.                                                             *)

BodyPcs == {"read_ptr", "read_pi", "swap_ptr", "swap_pi", "compare", "take_p", "take_p_pi",
            "take_v", "take_v_pi", "put_ptr", "put_pi", "copy_ptr", "copy_pi", "unlock"}
InBody(t) == pc[t] \in BodyPcs

(* Type invariant; no count is decremented below zero.                     *)
TypeOK ==
  /\ key \in [Slots -> Keys] /\ holder \in [Keys -> Threads \cup {NoThread}]
  /\ ptr \in [Slots -> Ptrs] /\ pi \in [Slots -> BlocksOrNo]
  /\ use \in [Blocks -> Nat]
  /\ arg \in [Threads -> Values] /\ x \in [Threads -> Values]
  /\ p \in [Threads -> Slots \cup {NoSlot}] /\ v \in [Threads -> Slots \cup {NoSlot}]
  /\ op \in [Threads -> {"none", "load", "swap", "cas"}]
  /\ pc \in [Threads -> BodyPcs \cup {"idle", "lock1", "lock2", "drop_x", "drop_arg"}]

(* Two operations never work on one shared_ptr at the same time, also when *)
(* two threads pass the same two in different order, or addresses collide. *)
BodiesAreExclusive ==
  \A t, u \in Threads :
    t # u /\ InBody(t) /\ InBody(u) => {p[t], v[t]} \cap {p[u], v[u]} = {}

(* A thread that cannot go on, because another one holds its mutex.        *)
Blocked(t) ==
  \/ pc[t] = "lock1" /\ holder[FirstKey(t)] # NoThread
  \/ pc[t] = "lock2" /\ \A k \in MyKeys(t) \ {FirstKey(t)} : holder[k] # NoThread

(* No deadlock: threads inside operations never all wait for each other.   *)
SomebodyRuns ==
  (\E t \in Threads : pc[t] # "idle") => \E t \in Threads : pc[t] # "idle" /\ ~Blocked(t)

Refs(b) ==
  Cardinality({s \in Slots : pi[s] = b}) + Cardinality({t \in Threads : arg[t].pi = b})
    + Cardinality({t \in Threads : x[t].pi = b})

(* Every reference is counted, those in the middle of a move too.          *)
CountsAreHolders == TypeOK /\ \A b \in Blocks : use[b] = Refs(b)

(* No deleter runs under a mutex, where it might wait for the mutex.       *)
NoDeleterUnderLock ==
  [][\A b \in Blocks : use[b] > 0 /\ use'[b] = 0 =>
       \E t \in Threads : pc'[t] # pc[t] /\ \A k \in Keys : holder[k] # t]_vars

(* The value of a shared_ptr: in the middle of an operation still the one  *)
(* from before.                                                            *)
Value(s) ==
  IF \E t \in Threads : pc[t] \in {"put_ptr", "put_pi", "copy_ptr", "copy_pi"} /\ Target(t) = s
    THEN x[CHOOSE t \in Threads :
             pc[t] \in {"put_ptr", "put_pi", "copy_ptr", "copy_pi"} /\ Target(t) = s]
  ELSE IF \E t \in Threads : pc[t] = "swap_pi" /\ p[t] = s
    THEN [ptr |-> arg[CHOOSE t \in Threads : pc[t] = "swap_pi" /\ p[t] = s].ptr, pi |-> pi[s]]
  ELSE [ptr |-> ptr[s], pi |-> pi[s]]

Argument(t) ==
  IF pc[t] = "read_pi" THEN NoValue
  ELSE IF pc[t] = "swap_pi" THEN [ptr |-> ptr[p[t]], pi |-> arg[t].pi]
  ELSE arg[t]

NoCall == [op |-> "none", p |-> NoSlot, v |-> NoSlot]

(* A call has had its effect when its last shared_ptr is written or read.  *)
Asked(t) ==
  IF pc[t] \in {"lock1", "lock2"} \cup (BodyPcs \ {"unlock"})
    THEN [op |-> op[t], p |-> p[t], v |-> v[t]] ELSE NoCall

(* Every operation reads and writes its one or two shared_ptrs in a single *)
(* step, pointer and control block together.                               *)
Registers == INSTANCE SharedRegisters WITH
  val <- [s \in Slots |-> Value(s)],
  arg <- [t \in Threads |-> Argument(t)],
  asked <- [t \in Threads |-> Asked(t)]
ImplementsRegisters == Registers!Spec
=============================================================================
