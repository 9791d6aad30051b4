--------------------------- MODULE SpAtomicOrders ---------------------------
(***************************************************************************)
(* The memory orders of _Sp_atomic in C++26 (before it, unlock() subtracts *)
(* the lock bit in one instruction).  _M_ptr is a plain member: what       *)
(* separates its reads and writes is the lock bit, whose compare-exchanges *)
(* have an order each.  Four history variables say which accesses of       *)
(* _M_ptr happen before what a thread does next; they never constrain a    *)
(* step of SpAtomic.                                                       *)
(*                                                                         *)
(* Every change of the word is a read-modify-write, so that it continues   *)
(* the release sequences before it: what has been released into the word   *)
(* stays there, whatever the order of later changes.  The counts of a      *)
(* block are added to with __ATOMIC_ACQ_REL.                               *)
(***************************************************************************)
EXTENDS SpAtomic

CONSTANT Write   \* the last write of _M_ptr

ASSUME OrdersAssumption == Write \notin Threads /\ Cxx26

VARIABLES
  reads,     \* the threads that have read _M_ptr since
  knows,     \* of each thread: the write, and the threads whose last read, it comes after
  carried,   \* the same, of whoever acquires the word
  counted    \* the same, of whoever changes the count of a block

orders  == <<reads, knows, carried, counted>>
allVars == <<vars, orders>>

Nobody == [b \in Blocks |-> {}]

(* An object is constructed, and destroyed, when no other thread uses it.  *)
Alone ==
  /\ reads' = {}
  /\ knows' = [t \in Threads |-> {Write}]
  /\ carried' = {}
  /\ counted' = Nobody

OrdersInit ==
  /\ Init
  /\ reads = {}
  /\ knows = [t \in Threads |-> {Write}]
  /\ carried = {}
  /\ counted = Nobody

-----------------------------------------------------------------------------
(* What an access, and an operation with an order, does to them.           *)

ReadAccess(t) ==
  /\ reads' = reads \cup {t}
  /\ knows' = [u \in Threads |-> IF u = t THEN knows[u] \cup {t} ELSE knows[u] \ {t}]
  /\ carried' = carried \ {t}
  /\ counted' = [b \in Blocks |-> counted[b] \ {t}]

WriteAccess(t) ==
  /\ reads' = {}
  /\ knows' = [u \in Threads |-> IF u = t THEN {Write} ELSE {}]
  /\ carried' = {}
  /\ counted' = Nobody

Acquires(o) == o \in {"acquire", "acq_rel", "seq_cst"}
Releases(o) == o \in {"release", "acq_rel", "seq_cst"}

ChangeWord(t, o) ==
  /\ knows' = IF Acquires(o) THEN [knows EXCEPT ![t] = @ \cup carried] ELSE knows
  /\ carried' = IF Releases(o) THEN carried \cup knows[t] ELSE carried
  /\ UNCHANGED <<reads, counted>>

ReadWord(t, o) ==
  /\ knows' = IF Acquires(o) THEN [knows EXCEPT ![t] = @ \cup carried] ELSE knows
  /\ UNCHANGED <<reads, carried, counted>>

(* Also when memory is reused: its release happens before the allocation.  *)
ChangeCount(t, b) ==
  IF b = NoBlock THEN UNCHANGED orders
  ELSE LET both == knows[t] \cup counted[b]
       IN  /\ knows' = [knows EXCEPT ![t] = both]
           /\ counted' = [counted EXCEPT ![b] = both]
           /\ UNCHANGED <<reads, carried>>

-----------------------------------------------------------------------------
(* The orders that the operations choose; o and o2 are the caller's.       *)

(* Mutant: load(relaxed) locks with the caller's order.                    *)
LockOrdersAsked(t) == IF op[t] = "load" THEN {"relaxed", "seq_cst"} ELSE {"acquire"}

(* load() upgrades what it is given to acquire, unless it is seq_cst.      *)
LockOrders(t) ==
  IF op[t] \in {"load", "recheck"} THEN {"acquire", "seq_cst"} ELSE {"acquire"}

UnlockOrders(t) ==
  IF op[t] = "cas" THEN {"relaxed", "acquire", "seq_cst"} ELSE {"relaxed"}

(* Mutant: the order of the caller, relaxed say, is not upgraded.          *)
SwapUnlockOrdersAsked == {"relaxed", "seq_cst"}

SwapUnlockOrders == {"release", "seq_cst"}

WaitOrders == {"relaxed", "acquire", "seq_cst"}

-----------------------------------------------------------------------------
OrderedClient(t) ==
  \/ \E b \in Blocks, i \in Parts : Make(t, b, i) /\ ChangeCount(t, b)
  \/ CopyToExpected(t) /\ ChangeCount(t, arg[t].pi)
  \/ Destruct(t) /\ Alone
  \/ /\ \/ \E i \in Parts : Alias(t, i)
        \/ MoveFromExpected(t) \/ Reset(t) \/ NotifyOne(t)
        \/ \E o \in Ops : Call(t, o)
     /\ UNCHANGED orders

OrderedLock(t) ==
  \/ (Spin(t) \/ UnlockLoad(t)) /\ UNCHANGED orders
  \/ /\ LockCas(t)
     /\ \/ word' = word /\ UNCHANGED orders
        \/ word' # word /\ \E o \in LockOrders(t) : ChangeWord(t, o)
  \/ /\ UnlockCas(t)
     /\ \/ word' = word /\ UNCHANGED orders
        \/ word' # word /\ \E o \in UnlockOrders(t) : ChangeWord(t, o)
  \/ SwapUnlock(t) /\ \E o \in SwapUnlockOrders : ChangeWord(t, o)

OrderedBody(t) ==
  \/ (ReadPtr(t) \/ Compare(t) \/ TakeCurrent(t)) /\ ReadAccess(t)
  \/ (CompareOld(t) \/ Recheck(t)) /\ ReadAccess(t)
  \/ (SwapPtr(t) \/ SetPtr(t)) /\ WriteAccess(t)
  \/ (LoadAddRef(t) \/ ExpectedAddRef(t)) /\ ChangeCount(t, cur[t])
  \/ DropSink(t) /\ ChangeCount(t, snk[t].pi)
  \/ DropArg(t) /\ ChangeCount(t, arg[t].pi)
  \/ WaitRead(t) /\ \E o \in WaitOrders : ReadWord(t, o)
  \/ (Sleep(t) \/ NotifyAll(t)) /\ UNCHANGED orders

OrderedStep(t) == OrderedLock(t) \/ OrderedBody(t)

OrdersNext == \E t \in Threads : OrderedClient(t) \/ OrderedStep(t)

OrdersSpec ==
  /\ OrdersInit /\ [][OrdersNext]_allVars
  /\ \A t \in Threads : WF_allVars(OrderedStep(t))

-----------------------------------------------------------------------------
(* Properties.                                                             *)

(* "The correct value of _M_ptr is visible after locking": between lock()  *)
(* and unlock() a thread comes after the last write of _M_ptr, so that it  *)
(* neither misses that write nor writes beside it.                         *)
LockShowsLastWrite == \A t \in Threads : Holding(t) => Write \in knows[t]

(* No read of _M_ptr races with a write: who is about to write comes after *)
(* every read since the last write.                                        *)
ReadsComeBeforeWrite ==
  \A t \in Threads :
    At(t, "swap", "held") \/ At(t, "cas", "set_ptr") => reads \subseteq knows[t]
=============================================================================
