------------------------------ MODULE SpAtomic ------------------------------
(***************************************************************************)
(* atomic<shared_ptr<T>>: _Sp_atomic of bits/shared_ptr_atomic.h.  The     *)
(* pointer and the control block are two words; the lowest bit of the      *)
(* second one is a spin lock over both.  One action is one access to the   *)
(* shared words or one call on a count.                                    *)
(*                                                                         *)
(* The counts of a block are those of SpCountedBase, whose operations are  *)
(* single steps here: a count, and a block that is alive until the count   *)
(* returns to zero (when the deleter runs).  atomic<weak_ptr<T>> is the    *)
(* same code on the weak count.  Memory is sequentially consistent.        *)
(*                                                                         *)
(* A thread has two shared_ptrs of its own: arg[t] is what it passes by    *)
(* value or gets back, exp[t] the expected value of a compare-exchange.    *)
(***************************************************************************)
EXTENDS Integers, FiniteSets

CONSTANTS
  Threads, Blocks, Parts,   \* an object has several parts to point to
  NoBlock, NoPtr,
  Ops,                      \* what the threads call: "load", "swap", "cas", "wait"
  Cxx26,                    \* __glibcxx_constexpr_memory >= 202506L
  Proxy                     \* waiting is on a proxy, not on the word itself

ASSUME AtomicAssumption ==
  /\ NoBlock \notin Blocks
  /\ NoPtr \notin Blocks \X Parts
  /\ Ops \subseteq {"load", "swap", "cas", "wait"}
  /\ Cxx26 \in BOOLEAN /\ Proxy \in BOOLEAN
  /\ IsFiniteSet(Threads)

VARIABLES
  word,    \* _M_refcount._M_val: a block, and the lock bit
  ptr,     \* _M_ptr
  use,     \* the count of each block
  alive,   \* the blocks whose deleter has not run
  arg, exp, snk,   \* of each thread: its values, and __sink
  cur,     \* __current of lock(), later __pi
  seen,    \* the word that unlock() or wait() has loaded
  stale,   \* the threads whose proxy was notified since they looked
  op,      \* the operation a thread is in
  pc       \* where

objects == <<use, alive>>
shared  == <<word, ptr>>
values  == <<arg, exp, snk>>
sleep   == <<seen, stale>>
control == <<cur, op, pc>>
vars    == <<word, ptr, use, alive, arg, exp, snk, cur, seen, stale, op, pc>>

Ptrs       == (Blocks \X Parts) \cup {NoPtr}
BlocksOrNo == Blocks \cup {NoBlock}
Values     == [ptr : Ptrs, pi : BlocksOrNo]
NoValue    == [ptr |-> NoPtr, pi |-> NoBlock]
Words      == [pi : BlocksOrNo, locked : BOOLEAN]
Unlocked(b) == [pi |-> b, locked |-> FALSE]

Init ==
  /\ word  = Unlocked(NoBlock)
  /\ ptr   = NoPtr
  /\ use   = [b \in Blocks |-> 0]
  /\ alive = {}
  /\ arg   = [t \in Threads |-> NoValue]
  /\ exp   = [t \in Threads |-> NoValue]
  /\ snk   = [t \in Threads |-> NoValue]
  /\ cur   = [t \in Threads |-> NoBlock]
  /\ seen  = [t \in Threads |-> Unlocked(NoBlock)]
  /\ stale = {}
  /\ op    = [t \in Threads |-> "none"]
  /\ pc    = [t \in Threads |-> "idle"]

-----------------------------------------------------------------------------
(* Counts and control.                                                     *)

(* _S_add_ref: nothing to count for a null block.                          *)
AddRef(b) ==
  /\ use' = IF b = NoBlock THEN use ELSE [use EXCEPT ![b] = @ + 1]
  /\ UNCHANGED alive

Unref(b) ==
  /\ use'   = IF b = NoBlock THEN use ELSE [use EXCEPT ![b] = @ - 1]
  /\ alive' = IF b # NoBlock /\ use[b] = 1 THEN alive \ {b} ELSE alive

Goto(t, p) ==
  /\ pc' = [pc EXCEPT ![t] = p]
  /\ UNCHANGED <<cur, op>>

GotoIn(t, o, p) ==
  /\ pc' = [pc EXCEPT ![t] = p]
  /\ op' = [op EXCEPT ![t] = o]
  /\ UNCHANGED cur

(* The caller goes on, without what the operation had in registers.        *)
Return(t, p) ==
  /\ pc'   = [pc EXCEPT ![t] = p]
  /\ op'   = [op EXCEPT ![t] = "none"]
  /\ cur'  = [cur EXCEPT ![t] = NoBlock]
  /\ seen' = [seen EXCEPT ![t] = Unlocked(NoBlock)]
  /\ stale' = stale \ {t}

At(t, o, p) == op[t] = o /\ pc[t] = p
Idle(t)     == pc[t] = "idle"

-----------------------------------------------------------------------------
(* What a thread does with its own shared_ptrs.                            *)

Make(t, b, i) ==
  /\ Idle(t)
  /\ arg[t] = NoValue
  /\ b \notin alive
  /\ alive' = alive \cup {b}
  /\ use' = [use EXCEPT ![b] = 1]
  /\ arg' = [arg EXCEPT ![t] = [ptr |-> <<b, i>>, pi |-> b]]
  /\ UNCHANGED <<shared, exp, snk, sleep, control>>

(* shared_ptr(std::move(arg), p): another part, the same block.            *)
Alias(t, i) ==
  /\ Idle(t)
  /\ arg[t] # NoValue
  /\ arg' = [arg EXCEPT ![t].ptr = <<arg[t].pi, i>>]
  /\ UNCHANGED <<shared, objects, exp, snk, sleep, control>>

CopyToExpected(t) ==
  /\ Idle(t)
  /\ exp[t] = NoValue
  /\ arg[t] # NoValue
  /\ exp' = [exp EXCEPT ![t] = arg[t]]
  /\ AddRef(arg[t].pi)
  /\ UNCHANGED <<shared, arg, snk, sleep, control>>

MoveFromExpected(t) ==
  /\ Idle(t)
  /\ arg[t] = NoValue
  /\ exp[t] # NoValue
  /\ arg' = [arg EXCEPT ![t] = exp[t]]
  /\ exp' = [exp EXCEPT ![t] = NoValue]
  /\ UNCHANGED <<shared, objects, snk, sleep, control>>

Reset(t) ==
  /\ Idle(t)
  /\ arg[t] # NoValue
  /\ Goto(t, "drop_arg")
  /\ UNCHANGED <<shared, objects, values, sleep>>

(* The result of load() initialises a new shared_ptr.  A compare-exchange  *)
(* hands its parameter on by value; the parameter itself, one more owner   *)
(* of arg[t] until the call returns, is left out.                          *)
Call(t, o) ==
  /\ Idle(t)
  /\ o = "load" => arg[t] = NoValue
  /\ GotoIn(t, o, "lock")
  /\ UNCHANGED <<shared, objects, values, sleep>>

(* The end of the atomic object, when no thread uses it, and the default   *)
(* construction of the next one.                                           *)
Destruct(t) ==
  /\ Idle(t)
  /\ \A u \in Threads : pc[u] \in {"idle", "drop_arg"} /\ op[u] = "none"
  /\ word.pi # NoBlock
  /\ word' = Unlocked(NoBlock)
  /\ ptr' = NoPtr
  /\ Unref(word.pi)
  /\ UNCHANGED <<values, sleep, control>>

-----------------------------------------------------------------------------
(* lock() and unlock().                                                    *)

(* Spin until a load shows the bit clear.                                  *)
Spin(t) ==
  /\ pc[t] = "lock"
  /\ ~word.locked
  /\ cur' = [cur EXCEPT ![t] = word.pi]
  /\ pc' = [pc EXCEPT ![t] = "lock_cas"]
  /\ UNCHANGED <<shared, objects, values, sleep, op>>

(* Mutant: test, then set: the bit is stored and not exchanged.            *)
LockTestAndSet(t) ==
  /\ pc[t] = "lock_cas"
  /\ word' = [word EXCEPT !.locked = TRUE]
  /\ Goto(t, "held")
  /\ UNCHANGED <<ptr, objects, values, sleep>>

(* Flip the bit from 0 to 1; on failure try again with the new block and,  *)
(* whatever the bit was, with the bit clear.                               *)
LockCas(t) ==
  /\ pc[t] = "lock_cas"
  /\ \/ /\ word = Unlocked(cur[t])
        /\ word' = [word EXCEPT !.locked = TRUE]
        /\ Goto(t, "held")
     \/ /\ word # Unlocked(cur[t])
        /\ cur' = [cur EXCEPT ![t] = word.pi]
        /\ UNCHANGED <<word, op, pc>>
  /\ UNCHANGED <<ptr, objects, values, sleep>>

(* What follows unlock() in each operation.                                *)
AfterUnlock(t) ==
  \/ op[t] = "load"  /\ Return(t, "idle")
  \/ op[t] = "cas"   /\ Goto(t, "drop_snk") /\ UNCHANGED sleep
  \/ op[t] = "wait"  /\ Goto(t, "wait_read") /\ UNCHANGED sleep
  \/ op[t] = "woken" /\ Goto(t, "drop_arg") /\ UNCHANGED sleep
  \/ op[t] = "same"  /\ GotoIn(t, "wait", "sleep") /\ UNCHANGED sleep

UnlockLoad(t) ==
  /\ Cxx26 /\ pc[t] = "unlock"
  /\ seen' = [seen EXCEPT ![t] = word]
  /\ Goto(t, "unlock_cas")
  /\ UNCHANGED <<shared, objects, values, stale>>

UnlockCas(t) ==
  /\ pc[t] = "unlock_cas"
  /\ \/ /\ word = seen[t]
        /\ word' = Unlocked(word.pi)
        /\ AfterUnlock(t)
     \/ /\ word # seen[t]
        /\ seen' = [seen EXCEPT ![t] = [word EXCEPT !.locked = TRUE]]
        /\ UNCHANGED <<word, stale, control>>
  /\ UNCHANGED <<ptr, objects, values>>

(* Before C++26: fetch_sub(1).                                             *)
UnlockSub(t) ==
  /\ ~Cxx26 /\ pc[t] = "unlock"
  /\ word' = Unlocked(word.pi)
  /\ AfterUnlock(t)
  /\ UNCHANGED <<ptr, objects, values>>

(* Mutant: the old block is not handed to the caller.                      *)
SwapUnlockForgets(t) ==
  /\ pc[t] = "swap_unlock"
  /\ word' = Unlocked(arg[t].pi)
  /\ \/ op[t] = "swap" /\ Return(t, "notify")
     \/ op[t] = "cas"  /\ GotoIn(t, "exchanged", "drop_arg") /\ UNCHANGED sleep
  /\ UNCHANGED <<ptr, objects, values>>

(* One exchange stores the new block and clears the bit.                   *)
SwapUnlock(t) ==
  /\ pc[t] = "swap_unlock"
  /\ word' = Unlocked(arg[t].pi)
  /\ arg' = [arg EXCEPT ![t].pi = word.pi]
  /\ \/ op[t] = "swap" /\ Return(t, "notify")
     \/ op[t] = "cas"  /\ GotoIn(t, "exchanged", "drop_arg") /\ UNCHANGED sleep
  /\ UNCHANGED <<ptr, objects, exp, snk>>

-----------------------------------------------------------------------------
(* load(), swap() (store and exchange), compare_exchange_strong().         *)

(* Mutant: the lock is released before the reference is counted.           *)
ReadPtrThenUnlock(t) ==
  /\ At(t, "load", "held")
  /\ arg' = [arg EXCEPT ![t].ptr = ptr]
  /\ word' = Unlocked(word.pi)
  /\ Goto(t, "add_ref")
  /\ UNCHANGED <<ptr, objects, exp, snk, sleep>>

ReadPtr(t) ==
  /\ At(t, "load", "held")
  /\ arg' = [arg EXCEPT ![t].ptr = ptr]
  /\ Goto(t, "add_ref")
  /\ UNCHANGED <<shared, objects, exp, snk, sleep>>

LoadAddRef(t) ==
  /\ At(t, "load", "add_ref")
  /\ arg' = [arg EXCEPT ![t].pi = cur[t]]
  /\ AddRef(cur[t])
  /\ Goto(t, "unlock")
  /\ UNCHANGED <<shared, exp, snk, sleep>>

SwapPtr(t) ==
  /\ At(t, "swap", "held")
  /\ ptr' = arg[t].ptr
  /\ arg' = [arg EXCEPT ![t].ptr = ptr]
  /\ Goto(t, "swap_unlock")
  /\ UNCHANGED <<word, objects, exp, snk, sleep>>

Matches(t, v) == ptr = v.ptr /\ cur[t] = v.pi

(* Mutant: only the control blocks are compared.                           *)
CompareBlock(t) ==
  /\ At(t, "cas", "held")
  /\ Goto(t, IF cur[t] = exp[t].pi THEN "set_ptr" ELSE "take_current")
  /\ UNCHANGED <<shared, objects, values, sleep>>

(* Mutant: a failed comparison returns without unlock().                   *)
CompareKeepsLock(t) ==
  /\ At(t, "cas", "held")
  /\ Goto(t, IF Matches(t, exp[t]) THEN "set_ptr" ELSE "drop_snk")
  /\ UNCHANGED <<shared, objects, values, sleep>>

Compare(t) ==
  /\ At(t, "cas", "held")
  /\ Goto(t, IF Matches(t, exp[t]) THEN "set_ptr" ELSE "take_current")
  /\ UNCHANGED <<shared, objects, values, sleep>>

SetPtr(t) ==
  /\ At(t, "cas", "set_ptr")
  /\ ptr' = arg[t].ptr
  /\ Goto(t, "swap_unlock")
  /\ UNCHANGED <<word, objects, values, sleep>>

(* Mutant: without __sink the old expected value dies under the lock.      *)
TakeCurrentNoSink(t) ==
  /\ At(t, "cas", "take_current")
  /\ exp' = [exp EXCEPT ![t] = [ptr |-> ptr, pi |-> NoBlock]]
  /\ Unref(exp[t].pi)
  /\ Goto(t, "add_ref")
  /\ UNCHANGED <<shared, arg, snk, sleep>>

(* __sink keeps the old expected value until the lock is released.         *)
TakeCurrent(t) ==
  /\ At(t, "cas", "take_current")
  /\ snk' = [snk EXCEPT ![t] = exp[t]]
  /\ exp' = [exp EXCEPT ![t] = [ptr |-> ptr, pi |-> NoBlock]]
  /\ Goto(t, "add_ref")
  /\ UNCHANGED <<shared, objects, arg, sleep>>

ExpectedAddRef(t) ==
  /\ At(t, "cas", "add_ref")
  /\ exp' = [exp EXCEPT ![t].pi = cur[t]]
  /\ AddRef(cur[t])
  /\ Goto(t, "unlock")
  /\ UNCHANGED <<shared, arg, snk, sleep>>

(* The destructors of __sink, and of the parameter.                        *)
DropSink(t) ==
  /\ pc[t] = "drop_snk"
  /\ Unref(snk[t].pi)
  /\ snk' = [snk EXCEPT ![t] = NoValue]
  /\ Goto(t, "drop_arg")
  /\ UNCHANGED <<shared, arg, exp, sleep>>

DropArg(t) ==
  /\ pc[t] = "drop_arg"
  /\ Unref(arg[t].pi)
  /\ arg' = [arg EXCEPT ![t] = NoValue]
  /\ Return(t, IF op[t] = "exchanged" THEN "notify" ELSE "idle")
  /\ UNCHANGED <<shared, exp, snk>>

-----------------------------------------------------------------------------
(* wait(old) and notify.  A thread that has changed the value calls        *)
(* notify_all(); it may call notify_one() at any time.                     *)

CompareOld(t) ==
  /\ At(t, "wait", "held")
  /\ IF Matches(t, arg[t]) THEN Goto(t, "unlock") ELSE GotoIn(t, "woken", "unlock")
  /\ UNCHANGED <<shared, objects, values, sleep>>

(* Mutant: the lock bit takes part in the comparison.                      *)
WaitReadWithBit(t) ==
  /\ pc[t] = "wait_read"
  /\ seen' = [seen EXCEPT ![t] = word]
  /\ stale' = stale \ {t}
  /\ IF word # Unlocked(arg[t].pi)
       THEN GotoIn(t, "woken", "drop_arg")
       ELSE GotoIn(t, "recheck", "lock")
  /\ UNCHANGED <<shared, objects, values>>

(* Load the word and evaluate the predicate on it: in C++26 the word is    *)
(* compared, lock bit included, with the old block; before, the block      *)
(* decides only if it changed, else the lock is taken to compare _M_ptr.   *)
WaitRead(t) ==
  /\ pc[t] = "wait_read"
  /\ seen' = [seen EXCEPT ![t] = word]
  /\ stale' = stale \ {t}
  /\ \/ Cxx26 /\ word # Unlocked(arg[t].pi) /\ GotoIn(t, "woken", "drop_arg")
     \/ Cxx26 /\ word = Unlocked(arg[t].pi) /\ Goto(t, "sleep")
     \/ ~Cxx26 /\ word.pi # arg[t].pi /\ GotoIn(t, "woken", "drop_arg")
     \/ ~Cxx26 /\ word.pi = arg[t].pi /\ GotoIn(t, "recheck", "lock")
  /\ UNCHANGED <<shared, objects, values>>

(* Mutant: _M_ptr is not compared.                                         *)
RecheckBlock(t) ==
  /\ At(t, "recheck", "held")
  /\ GotoIn(t, IF cur[t] = arg[t].pi THEN "same" ELSE "woken", "unlock")
  /\ UNCHANGED <<shared, objects, values, sleep>>

Recheck(t) ==
  /\ At(t, "recheck", "held")
  /\ GotoIn(t, IF Matches(t, arg[t]) THEN "same" ELSE "woken", "unlock")
  /\ UNCHANGED <<shared, objects, values, sleep>>

(* Mutant: it sleeps whatever has happened since WaitRead.                 *)
SleepBlindly(t) ==
  /\ pc[t] = "sleep"
  /\ Goto(t, "asleep")
  /\ UNCHANGED <<shared, objects, values, sleep>>

(* __wait_impl sleeps unless the proxy was notified, or the word changed,  *)
(* since WaitRead.                                                         *)
Sleep(t) ==
  /\ pc[t] = "sleep"
  /\ Goto(t, IF (Proxy /\ t \in stale) \/ (~Proxy /\ word # seen[t])
               THEN "wait_read" ELSE "asleep")
  /\ UNCHANGED <<shared, objects, values, sleep>>

Waiters == {t \in Threads : op[t] \in {"wait", "recheck", "same"}}
Asleep  == {t \in Threads : pc[t] = "asleep"}

(* Thread t wakes the threads in W and goes on; a proxy is notified too.   *)
Wake(t, W) ==
  /\ stale' = IF Proxy THEN stale \cup Waiters ELSE stale
  /\ pc' = [u \in Threads |->
              IF u \in W THEN "wait_read" ELSE IF u = t THEN "idle" ELSE pc[u]]
  /\ UNCHANGED <<shared, objects, values, seen, cur, op>>

NotifyAll(t) ==
  /\ pc[t] = "notify"
  /\ Wake(t, Asleep)

(* The waiters of a proxy are all woken.                                   *)
NotifyOne(t) ==
  /\ Idle(t)
  /\ Asleep # {}
  /\ IF Proxy THEN Wake(t, Asleep) ELSE \E u \in Asleep : Wake(t, {u})

-----------------------------------------------------------------------------
Client(t) ==
  \/ \E b \in Blocks, i \in Parts : Make(t, b, i)
  \/ \E i \in Parts : Alias(t, i)
  \/ CopyToExpected(t) \/ MoveFromExpected(t) \/ Reset(t)
  \/ \E o \in Ops : Call(t, o)
  \/ Destruct(t) \/ NotifyOne(t)

Step(t) ==
  \/ Spin(t) \/ LockCas(t) \/ UnlockLoad(t) \/ UnlockCas(t) \/ UnlockSub(t)
  \/ SwapUnlock(t)
  \/ ReadPtr(t) \/ LoadAddRef(t) \/ SwapPtr(t)
  \/ Compare(t) \/ SetPtr(t) \/ TakeCurrent(t) \/ ExpectedAddRef(t)
  \/ DropSink(t) \/ DropArg(t)
  \/ CompareOld(t) \/ WaitRead(t) \/ Recheck(t) \/ Sleep(t) \/ NotifyAll(t)

Next == \E t \in Threads : Client(t) \/ Step(t)

Spec == Init /\ [][Next]_vars

(* A thread inside an operation keeps running.                             *)
FairSpec == Spec /\ \A t \in Threads : WF_vars(Step(t))

-----------------------------------------------------------------------------
(* Properties.                                                             *)

Pcs == {"idle", "lock", "lock_cas", "held", "unlock", "unlock_cas", "swap_unlock",
        "add_ref", "set_ptr", "take_current", "drop_snk", "drop_arg",
        "wait_read", "sleep", "asleep", "notify"}

(* Type invariant; no count is decremented below zero.                     *)
TypeOK ==
  /\ word \in Words /\ ptr \in Ptrs
  /\ use \in [Blocks -> Nat] /\ alive \subseteq Blocks
  /\ arg \in [Threads -> Values] /\ exp \in [Threads -> Values]
  /\ snk \in [Threads -> Values]
  /\ cur \in [Threads -> BlocksOrNo]
  /\ seen \in [Threads -> Words] /\ stale \subseteq Threads
  /\ op \in [Threads -> {"none", "load", "swap", "cas", "exchanged",
                         "wait", "recheck", "same", "woken"}]
  /\ pc \in [Threads -> Pcs]

HoldingPcs == {"held", "add_ref", "set_ptr", "take_current",
               "unlock", "unlock_cas", "swap_unlock"}
Holding(t) == pc[t] \in HoldingPcs

(* The bit is a lock: one thread at a time is between lock() and unlock(), *)
(* the bit is set exactly then, and meanwhile the word keeps the block     *)
(* that lock() returned, so that unlock() never tries twice.               *)
LockIsExclusive ==
  /\ word.locked = \E t \in Threads : Holding(t)
  /\ \A t, u \in Threads : Holding(t) /\ Holding(u) => t = u
  /\ \A t \in Threads : Holding(t) => cur[t] = word.pi
  /\ \A t \in Threads : pc[t] = "unlock_cas" => seen[t] = word

Refs(b) ==
  (IF word.pi = b THEN 1 ELSE 0)
    + Cardinality({t \in Threads : arg[t].pi = b})
    + Cardinality({t \in Threads : exp[t].pi = b})
    + Cardinality({t \in Threads : snk[t].pi = b})

(* The word owns one reference and every value of a thread one, also while *)
(* they are exchanged or half copied; the deleter runs when none is left.  *)
CountsAreHolders ==
  \A b \in Blocks : use[b] = Refs(b) /\ (b \in alive <=> use[b] > 0)

(* A reader that has taken the lock, and not yet counted itself, counts on *)
(* the reference of the word: the block it will add to is alive.           *)
NoDeadValue ==
  \A t \in Threads :
    /\ Holding(t) /\ cur[t] # NoBlock => cur[t] \in alive
    /\ arg[t].pi # NoBlock => arg[t].pi \in alive
    /\ exp[t].pi # NoBlock => exp[t].pi \in alive

(* No deleter runs under the lock: neither __sink nor the parameter dies   *)
(* before unlock(), so a deleter may use the same atomic object.           *)
NoDeleterUnderLock ==
  [][alive \subseteq alive' \/ \A t \in Threads : Holding(t) => pc'[t] = pc[t]]_vars

(* The value: during a swap still the one before, until the exchange of    *)
(* the word.  The old pointer is then in the hands of the swapping thread. *)
Value ==
  IF \E t \in Threads : pc[t] = "swap_unlock"
    THEN LET t == CHOOSE u \in Threads : pc[u] = "swap_unlock"
         IN  [ptr |-> IF op[t] = "swap" THEN arg[t].ptr ELSE exp[t].ptr, pi |-> word.pi]
    ELSE [ptr |-> ptr, pi |-> word.pi]

(* What a thread has passed to an operation, or got from it.               *)
Argument(t) ==
  IF At(t, "swap", "swap_unlock") THEN [ptr |-> ptr, pi |-> arg[t].pi]
  ELSE IF At(t, "load", "add_ref") \/ op[t] = "exchanged" THEN NoValue
  ELSE arg[t]

Expected(t) == IF At(t, "cas", "add_ref") THEN snk[t] ELSE exp[t]

(* Two words behave as one: every operation reads and writes the pair in   *)
(* one step, and what it returns is the pair of that step.                 *)
Register == INSTANCE AtomicValue WITH
  val <- Value,
  arg <- [t \in Threads |-> Argument(t)],
  exp <- [t \in Threads |-> Expected(t)]
ImplementsAtomicValue == Register!Spec

(* wait() decides to return only when the value differs from __old: "wake  *)
(* up if either of the values changed".                                    *)
WaitReturnsOnChange ==
  [][\A t \in Threads : op[t] # "woken" /\ op'[t] = "woken" => Value # arg[t]]_vars

(* No waiter sleeps for ever on a value that has changed, when every       *)
(* change is followed by notify_all().                                     *)
WaitersWake ==
  \A t \in Threads : ~<>[](pc[t] = "asleep" /\ Value # arg[t])

(* The same, when the change is one of the control block.                  *)
WaitersSeeNewBlock ==
  \A t \in Threads : ~<>[](pc[t] = "asleep" /\ word.pi # arg[t].pi)

(* The lock is never kept: no operation ends, sleeps or runs a deleter     *)
(* without giving it back.                                                 *)
LockIsReleased == word.locked ~> ~word.locked
=============================================================================
