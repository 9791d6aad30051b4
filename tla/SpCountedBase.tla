--------------------------- MODULE SpCountedBase ---------------------------
(***************************************************************************)
(* The reference counts of shared_ptr and weak_ptr: _Sp_counted_base,      *)
(* __shared_count and __weak_count of bits/shared_ptr_base.h, run by       *)
(* several threads.  One action is one atomic instruction on a control     *)
(* block, or one virtual call on it (_M_dispose, _M_destroy); what a       *)
(* thread does between two of them touches only its own variables.         *)
(*                                                                         *)
(* sref and wref record the counted references: sref[p] is the _M_pi of    *)
(* the shared_ptr p, and sref[t] that of the temporary of thread t (the    *)
(* __tmp of operator=, the temporary of reset and move assignment).  A     *)
(* pointer whose count was given up is NoBlock from that moment: it        *)
(* dangles until it is overwritten.                                        *)
(*                                                                         *)
(* Clients keep the library's contract: two threads may use one shared_ptr *)
(* or weak_ptr at the same time only to read it (CanRead, CanWrite).       *)
(*                                                                         *)
(* _S_single and constant evaluation are the atomic policy with one thread *)
(* and no fast path: their test and plain increment in lock() are a load   *)
(* and an exchange with nothing in between.                                *)
(*                                                                         *)
(* _S_chk is not in this module: counts are unbounded here and stay below  *)
(* the number of references.                                               *)
(***************************************************************************)
EXTENDS Integers, FiniteSets

CONSTANTS
  Threads, SharedPtrs, WeakPtrs,   \* who runs, and the smart pointers they use
  Blocks,                          \* addresses of control blocks, reused
  NoBlock, NoSlot,
  Policy,                          \* _Lp: _S_mutex or _S_atomic
  UniqueFastPath                   \* the double-word test of _M_release is built

ASSUME ConstantsAssumption ==
  /\ IsFiniteSet(Threads) /\ IsFiniteSet(SharedPtrs) /\ IsFiniteSet(WeakPtrs)
  /\ Threads \cap SharedPtrs = {}
  /\ Threads \cap WeakPtrs = {}
  /\ SharedPtrs \cap WeakPtrs = {}
  /\ NoSlot \notin Threads \cup SharedPtrs \cup WeakPtrs
  /\ NoBlock \notin Blocks
  /\ Policy \in {"mutex", "atomic"}
  /\ UniqueFastPath \in BOOLEAN
  /\ UniqueFastPath => Policy = "atomic"

VARIABLES
  use, weak,    \* _M_use_count and _M_weak_count of each block
  mutex,        \* the blocks whose __mutex is locked (policy _S_mutex)
  life,         \* of a block: "free" memory, object "alive", or "disposed"
  sref, wref,   \* the counted shared and weak references
  pc,           \* what a thread does next
  blk,          \* the block it works on
  tgt,          \* the slot whose reference it releases, or that lock() fills
  src,          \* the slot that fills tgt, or the weak_ptr lock() reads
  cnt           \* __count of _M_add_ref_lock_nothrow

counts  == <<use, weak, mutex, life>>
refs    == <<sref, wref>>
control == <<pc, blk, tgt, src, cnt>>
vars    == <<use, weak, mutex, life, sref, wref, pc, blk, tgt, src, cnt>>

SharedSlots == SharedPtrs \cup Threads
WeakSlots   == WeakPtrs \cup Threads

Shared(b) == {s \in SharedSlots : sref[s] = b}
Weak(b)   == {s \in WeakSlots : wref[s] = b}

Init ==
  /\ use    = [b \in Blocks |-> 0]
  /\ weak   = [b \in Blocks |-> 0]
  /\ mutex  = {}
  /\ life   = [b \in Blocks |-> "free"]
  /\ sref   = [s \in SharedSlots |-> NoBlock]
  /\ wref   = [s \in WeakSlots |-> NoBlock]
  /\ pc     = [t \in Threads |-> "idle"]
  /\ blk    = [t \in Threads |-> NoBlock]
  /\ tgt    = [t \in Threads |-> NoSlot]
  /\ src    = [t \in Threads |-> NoSlot]
  /\ cnt    = [t \in Threads |-> 0]

-----------------------------------------------------------------------------
(* Control.  *)

Locking == {"cas", "mutex_wait", "mutex_add", "mutex_reset"}

CanRead(s)  == \A u \in Threads : /\ s # tgt[u]
                                  /\ s = src[u] => pc[u] \in Locking
CanWrite(s) == \A u \in Threads : s # tgt[u] /\ s # src[u]

(* Thread t starts step p of an operation on block b.                      *)
Begin(t, p, b, d, s) ==
  /\ pc[t] = "idle"
  /\ pc'  = [pc EXCEPT ![t] = p]
  /\ blk' = [blk EXCEPT ![t] = b]
  /\ tgt' = [tgt EXCEPT ![t] = d]
  /\ src' = [src EXCEPT ![t] = s]
  /\ UNCHANGED cnt

Goto(t, p) ==
  /\ pc' = [pc EXCEPT ![t] = p]
  /\ UNCHANGED <<blk, tgt, src, cnt>>

Return(t) ==
  /\ pc'  = [pc EXCEPT ![t] = "idle"]
  /\ blk' = [blk EXCEPT ![t] = NoBlock]
  /\ tgt' = [tgt EXCEPT ![t] = NoSlot]
  /\ src' = [src EXCEPT ![t] = NoSlot]
  /\ cnt' = [cnt EXCEPT ![t] = 0]

(* A release returns; an assignment still stores the new _M_pi.            *)
Released(t) == IF tgt[t] = t THEN Return(t) ELSE Goto(t, "store")

ReleaseStart == IF UniqueFastPath THEN "load_both" ELSE "dec_use"

-----------------------------------------------------------------------------
(* Operations of shared_ptr.                                               *)

(* shared_ptr(p) into an empty p: a new control block, counts 1 and 1.     *)
New(t, p, b) ==
  /\ pc[t] = "idle" /\ CanWrite(p)
  /\ sref[p] = NoBlock
  /\ life[b] = "free"
  /\ life' = [life EXCEPT ![b] = "alive"]
  /\ use'  = [use EXCEPT ![b] = 1]
  /\ weak' = [weak EXCEPT ![b] = 1]
  /\ sref' = [sref EXCEPT ![p] = b]
  /\ UNCHANGED <<mutex, wref, control>>

(* Mutant: the copy is not counted.                                        *)
CopySharedUncounted(t, q, p) ==
  /\ pc[t] = "idle" /\ CanRead(q) /\ CanWrite(p)
  /\ sref[p] = NoBlock
  /\ sref[q] # NoBlock
  /\ sref' = [sref EXCEPT ![p] = sref[q]]
  /\ UNCHANGED <<counts, wref, control>>

(* Copy construction, or copy assignment to an empty shared_ptr.           *)
CopyShared(t, q, p) ==
  /\ pc[t] = "idle" /\ CanRead(q) /\ CanWrite(p)
  /\ sref[p] = NoBlock
  /\ sref[q] # NoBlock
  /\ use'  = [use EXCEPT ![sref[q]] = @ + 1]
  /\ sref' = [sref EXCEPT ![p] = sref[q]]
  /\ UNCHANGED <<weak, mutex, life, wref, control>>

(* Copy assignment over a reference to another block: add to the new one,  *)
(* release the old one, then store.                                        *)
AssignShared(t, q, p) ==
  /\ CanRead(q) /\ CanWrite(p)
  /\ sref[p] # NoBlock
  /\ sref[q] # sref[p]
  /\ use' = IF sref[q] = NoBlock THEN use ELSE [use EXCEPT ![sref[q]] = @ + 1]
  /\ sref' = [sref EXCEPT ![t] = sref[q]]
  /\ Begin(t, ReleaseStart, sref[p], p, t)
  /\ UNCHANGED <<weak, mutex, life, wref>>

(* reset() and the destructor: the temporary takes the reference.          *)
ResetShared(t, p) ==
  /\ CanWrite(p)
  /\ sref[p] # NoBlock
  /\ sref' = [sref EXCEPT ![p] = NoBlock, ![t] = sref[p]]
  /\ Begin(t, ReleaseStart, sref[p], t, NoSlot)
  /\ UNCHANGED <<counts, wref>>

(* swap(), and move construction when p is empty.                          *)
SwapShared(t, q, p) ==
  /\ pc[t] = "idle" /\ CanWrite(q) /\ CanWrite(p)
  /\ sref[q] # sref[p]
  /\ sref' = [sref EXCEPT ![p] = sref[q], ![q] = sref[p]]
  /\ UNCHANGED <<counts, wref, control>>

(* Move assignment: a temporary takes q, is swapped with p and dies.       *)
MoveAssignShared(t, q, p) ==
  /\ CanWrite(q) /\ CanWrite(p)
  /\ q # p
  /\ sref[p] # NoBlock
  /\ sref' = [sref EXCEPT ![p] = sref[q], ![q] = NoBlock, ![t] = sref[p]]
  /\ Begin(t, ReleaseStart, sref[p], t, NoSlot)
  /\ UNCHANGED <<counts, wref>>

-----------------------------------------------------------------------------
(* Operations of weak_ptr.                                                 *)

(* What a weak_ptr may be made from: another one or a shared_ptr.          *)
Sources ==
  {sref[q] : q \in {s \in SharedPtrs : CanRead(s)}}
    \cup {wref[v] : v \in {s \in WeakPtrs : CanRead(s)}}

(* Construction from b, or assignment of b to an empty weak_ptr.           *)
CopyWeak(t, b, w) ==
  /\ pc[t] = "idle" /\ CanWrite(w)
  /\ wref[w] = NoBlock
  /\ b # NoBlock
  /\ weak' = [weak EXCEPT ![b] = @ + 1]
  /\ wref' = [wref EXCEPT ![w] = b]
  /\ UNCHANGED <<use, mutex, life, sref, control>>

(* Copy assignment: as for shared_ptr, but with no test for the same       *)
(* block, so self-assignment adds and releases too.                        *)
AssignWeak(t, b, w) ==
  /\ CanWrite(w)
  /\ wref[w] # NoBlock
  /\ weak' = IF b = NoBlock THEN weak ELSE [weak EXCEPT ![b] = @ + 1]
  /\ wref' = [wref EXCEPT ![t] = b]
  /\ Begin(t, "weak_dec", wref[w], w, t)
  /\ UNCHANGED <<use, mutex, life, sref>>

ResetWeak(t, w) ==
  /\ CanWrite(w)
  /\ wref[w] # NoBlock
  /\ wref' = [wref EXCEPT ![w] = NoBlock, ![t] = wref[w]]
  /\ Begin(t, "weak_dec", wref[w], t, NoSlot)
  /\ UNCHANGED <<counts, sref>>

SwapWeak(t, v, w) ==
  /\ pc[t] = "idle" /\ CanWrite(v) /\ CanWrite(w)
  /\ wref[v] # wref[w]
  /\ wref' = [wref EXCEPT ![w] = wref[v], ![v] = wref[w]]
  /\ UNCHANGED <<counts, sref, control>>

(* Move assignment of the same type goes through a temporary.              *)
MoveAssignWeak(t, v, w) ==
  /\ CanWrite(v) /\ CanWrite(w)
  /\ v # w
  /\ wref[w] # NoBlock
  /\ wref' = [wref EXCEPT ![w] = wref[v], ![v] = NoBlock, ![t] = wref[w]]
  /\ Begin(t, "weak_dec", wref[w], t, NoSlot)
  /\ UNCHANGED <<counts, sref>>

(* A converting move assigns the __weak_count: release, then steal.        *)
ConvertMoveWeak(t, v, w) ==
  /\ CanWrite(v) /\ CanWrite(w)
  /\ v # w
  /\ wref[w] # NoBlock
  /\ Begin(t, "weak_dec", wref[w], w, v)
  /\ UNCHANGED <<counts, refs>>

-----------------------------------------------------------------------------
(* Releasing references.                                                   *)

(* Mutant: only the use count is compared with one.                        *)
LoadBothUseOnly(t) ==
  /\ pc[t] = "load_both"
  /\ Goto(t, IF use[blk[t]] = 1 THEN "fast_store" ELSE "dec_use")
  /\ UNCHANGED <<counts, refs>>

(* Both counts are read in one 8-byte load.                                *)
LoadBoth(t) ==
  /\ pc[t] = "load_both"
  /\ Goto(t, IF use[blk[t]] = 1 /\ weak[blk[t]] = 1 THEN "fast_store" ELSE "dec_use")
  /\ UNCHANGED <<counts, refs>>

(* Plain stores of zero to both counts, without a read-modify-write.       *)
FastStore(t) ==
  /\ pc[t] = "fast_store"
  /\ use'  = [use EXCEPT ![blk[t]] = 0]
  /\ weak' = [weak EXCEPT ![blk[t]] = 0]
  /\ sref' = [sref EXCEPT ![tgt[t]] = NoBlock]
  /\ Goto(t, "fast_dispose")
  /\ UNCHANGED <<mutex, life, wref>>

(* Mutant: the unique owner disposes of the object and forgets the block.  *)
FastDisposeOnly(t) ==
  /\ pc[t] = "fast_dispose"
  /\ life' = [life EXCEPT ![blk[t]] = "disposed"]
  /\ Released(t)
  /\ UNCHANGED <<use, weak, mutex, refs>>

FastDispose(t) ==
  /\ pc[t] = "fast_dispose"
  /\ life' = [life EXCEPT ![blk[t]] = "disposed"]
  /\ Goto(t, "destroy")
  /\ UNCHANGED <<use, weak, mutex, refs>>

(* Mutant: the value after the decrement is compared with one.             *)
DecUseNewValue(t) ==
  /\ pc[t] = "dec_use"
  /\ use'  = [use EXCEPT ![blk[t]] = @ - 1]
  /\ sref' = [sref EXCEPT ![tgt[t]] = NoBlock]
  /\ IF use[blk[t]] = 2 THEN Goto(t, "dispose") ELSE Released(t)
  /\ UNCHANGED <<weak, mutex, life, wref>>

(* Mutant: a load after the decrement decides, not the value exchanged, so *)
(* that a release which is not the last one may act as the last.           *)
DecUseReload(t) ==
  /\ pc[t] = "dec_use"
  /\ use'  = [use EXCEPT ![blk[t]] = @ - 1]
  /\ sref' = [sref EXCEPT ![tgt[t]] = NoBlock]
  /\ \/ use[blk[t]] <= 2 /\ Goto(t, "dispose")
     \/ use[blk[t]] # 1 /\ Released(t)
  /\ UNCHANGED <<weak, mutex, life, wref>>

DecUse(t) ==
  /\ pc[t] = "dec_use"
  /\ use'  = [use EXCEPT ![blk[t]] = @ - 1]
  /\ sref' = [sref EXCEPT ![tgt[t]] = NoBlock]
  /\ IF use[blk[t]] = 1 THEN Goto(t, "dispose") ELSE Released(t)
  /\ UNCHANGED <<weak, mutex, life, wref>>

(* Mutant: the object is disposed of, and the block freed, with no regard  *)
(* for the weak count.                                                     *)
DisposeAndDestroy(t) ==
  /\ pc[t] = "dispose"
  /\ life' = [life EXCEPT ![blk[t]] = "disposed"]
  /\ Goto(t, "destroy")
  /\ UNCHANGED <<use, weak, mutex, refs>>

(* Mutant: the object waits for the weak references to go.                 *)
DisposeAfterWeak(t) ==
  /\ pc[t] = "dispose"
  /\ weak[blk[t]] = 1
  /\ life' = [life EXCEPT ![blk[t]] = "disposed"]
  /\ Goto(t, "dec_weak")
  /\ UNCHANGED <<use, weak, mutex, refs>>

(* _M_release_last_use: dispose of the object, then give up the one weak   *)
(* count that all the shared owners have together.                         *)
Dispose(t) ==
  /\ pc[t] = "dispose"
  /\ life' = [life EXCEPT ![blk[t]] = "disposed"]
  /\ Goto(t, "dec_weak")
  /\ UNCHANGED <<use, weak, mutex, refs>>

DecWeak(t) ==
  /\ pc[t] = "dec_weak"
  /\ weak' = [weak EXCEPT ![blk[t]] = @ - 1]
  /\ IF weak[blk[t]] = 1 THEN Goto(t, "destroy") ELSE Released(t)
  /\ UNCHANGED <<use, mutex, life, refs>>

(* _M_weak_release.                                                        *)
WeakDec(t) ==
  /\ pc[t] = "weak_dec"
  /\ weak' = [weak EXCEPT ![blk[t]] = @ - 1]
  /\ wref' = [wref EXCEPT ![tgt[t]] = NoBlock]
  /\ IF weak[blk[t]] = 1 THEN Goto(t, "destroy") ELSE Released(t)
  /\ UNCHANGED <<use, mutex, life, sref>>

Destroy(t) ==
  /\ pc[t] = "destroy"
  /\ life' = [life EXCEPT ![blk[t]] = "free"]
  /\ Released(t)
  /\ UNCHANGED <<use, weak, mutex, refs>>

(* The last statement of an assignment: _M_pi = __tmp, or the steal of a   *)
(* converting move.                                                        *)
Store(t) ==
  /\ pc[t] = "store"
  /\ \/ /\ tgt[t] \in SharedPtrs
        /\ sref' = [sref EXCEPT ![tgt[t]] = sref[src[t]], ![src[t]] = NoBlock]
        /\ UNCHANGED wref
     \/ /\ tgt[t] \in WeakPtrs
        /\ wref' = [wref EXCEPT ![tgt[t]] = wref[src[t]], ![src[t]] = NoBlock]
        /\ UNCHANGED sref
  /\ Return(t)
  /\ UNCHANGED counts

-----------------------------------------------------------------------------
(* weak_ptr::lock(): _M_add_ref_lock_nothrow of the two policies, into     *)
(* an empty shared_ptr p.  A lock() that fails leaves p empty.             *)

CanLock(t, w, p) ==
  /\ pc[t] = "idle" /\ CanRead(w) /\ CanWrite(p)
  /\ wref[w] # NoBlock
  /\ sref[p] = NoBlock

AddRef(b, p) ==
  /\ use'  = [use EXCEPT ![b] = @ + 1]
  /\ sref' = [sref EXCEPT ![p] = b]

(* The atomic policy: load the count; if it is not zero, a weak            *)
(* compare-and-exchange, which may also fail with the count unchanged.     *)
LockLoad(t, w, p) ==
  /\ Policy = "atomic"
  /\ CanLock(t, w, p)
  /\ use[wref[w]] # 0
  /\ pc'  = [pc EXCEPT ![t] = "cas"]
  /\ blk' = [blk EXCEPT ![t] = wref[w]]
  /\ tgt' = [tgt EXCEPT ![t] = p]
  /\ src' = [src EXCEPT ![t] = w]
  /\ cnt' = [cnt EXCEPT ![t] = use[wref[w]]]
  /\ UNCHANGED <<counts, refs>>

(* Mutant: an unconditional add in place of the compare-and-exchange.      *)
AddAfterTest(t) ==
  /\ pc[t] = "cas"
  /\ AddRef(blk[t], tgt[t])
  /\ Return(t)
  /\ UNCHANGED <<weak, mutex, life, wref>>

CasSucceeds(t) ==
  /\ pc[t] = "cas"
  /\ use[blk[t]] = cnt[t]
  /\ AddRef(blk[t], tgt[t])
  /\ Return(t)
  /\ UNCHANGED <<weak, mutex, life, wref>>

CasFails(t) ==
  /\ pc[t] = "cas"
  /\ IF use[blk[t]] = 0
       THEN Return(t)
       ELSE /\ cnt' = [cnt EXCEPT ![t] = use[blk[t]]]
            /\ UNCHANGED <<pc, blk, tgt, src>>
  /\ UNCHANGED <<counts, refs>>

(* The mutex policy: add under the block's mutex and, if the count was     *)
(* zero, put zero back.                                                    *)
LockMutex(t, w, p) ==
  /\ Policy = "mutex"
  /\ CanLock(t, w, p)
  /\ Begin(t, "mutex_wait", wref[w], p, w)
  /\ UNCHANGED <<counts, refs>>

(* Mutant: the lock is not taken, so two threads add to zero.              *)
MutexNotTaken(t) ==
  /\ pc[t] = "mutex_wait"
  /\ mutex' = mutex \cup {blk[t]}
  /\ Goto(t, "mutex_add")
  /\ UNCHANGED <<use, weak, life, refs>>

MutexAcquire(t) ==
  /\ pc[t] = "mutex_wait"
  /\ blk[t] \notin mutex
  /\ mutex' = mutex \cup {blk[t]}
  /\ Goto(t, "mutex_add")
  /\ UNCHANGED <<use, weak, life, refs>>

MutexAdd(t) ==
  /\ pc[t] = "mutex_add"
  /\ \/ /\ use[blk[t]] # 0
        /\ AddRef(blk[t], tgt[t])
        /\ mutex' = mutex \ {blk[t]}
        /\ Return(t)
     \/ /\ use[blk[t]] = 0
        /\ use' = [use EXCEPT ![blk[t]] = 1]
        /\ Goto(t, "mutex_reset")
        /\ UNCHANGED <<sref, mutex>>
  /\ UNCHANGED <<weak, life, wref>>

MutexReset(t) ==
  /\ pc[t] = "mutex_reset"
  /\ use' = [use EXCEPT ![blk[t]] = 0]
  /\ mutex' = mutex \ {blk[t]}
  /\ Return(t)
  /\ UNCHANGED <<weak, life, refs>>

-----------------------------------------------------------------------------
ClientShared(t) ==
  \/ \E p \in SharedPtrs, b \in Blocks : New(t, p, b)
  \/ \E q, p \in SharedPtrs : CopyShared(t, q, p)
  \/ \E q, p \in SharedPtrs : AssignShared(t, q, p)
  \/ \E p \in SharedPtrs : ResetShared(t, p)
  \/ \E q, p \in SharedPtrs : SwapShared(t, q, p)
  \/ \E q, p \in SharedPtrs : MoveAssignShared(t, q, p)

ClientWeak(t) ==
  \/ \E w \in WeakPtrs, b \in Sources : CopyWeak(t, b, w)
  \/ \E w \in WeakPtrs, b \in Sources : AssignWeak(t, b, w)
  \/ \E w \in WeakPtrs : ResetWeak(t, w)
  \/ \E v, w \in WeakPtrs : SwapWeak(t, v, w)
  \/ \E v, w \in WeakPtrs : MoveAssignWeak(t, v, w)
  \/ \E v, w \in WeakPtrs : ConvertMoveWeak(t, v, w)

ClientLock(t) ==
  \/ \E w \in WeakPtrs, p \in SharedPtrs : LockLoad(t, w, p)
  \/ \E w \in WeakPtrs, p \in SharedPtrs : LockMutex(t, w, p)

Release(t) ==
  \/ LoadBoth(t) \/ FastStore(t) \/ FastDispose(t)
  \/ DecUse(t) \/ Dispose(t) \/ DecWeak(t)
  \/ WeakDec(t) \/ Destroy(t) \/ Store(t)

LockStep(t) ==
  \/ CasSucceeds(t) \/ CasFails(t)
  \/ MutexAcquire(t) \/ MutexAdd(t) \/ MutexReset(t)

Next ==
  \E t \in Threads :
    ClientShared(t) \/ ClientWeak(t) \/ ClientLock(t) \/ Release(t) \/ LockStep(t)

Spec == Init /\ [][Next]_vars

(* A thread inside the library keeps running; clients need not call it.    *)
FairSpec == Spec /\ \A t \in Threads : WF_vars(Release(t)) /\ WF_vars(LockStep(t))

-----------------------------------------------------------------------------
(* Properties.                                                             *)

Pcs == {"idle", "load_both", "fast_store", "fast_dispose", "dec_use", "dispose",
        "dec_weak", "weak_dec", "destroy", "store"} \cup Locking

Slots == SharedPtrs \cup WeakPtrs \cup Threads \cup {NoSlot}

(* Type invariant: every count is a natural number (no decrement below     *)
(* zero), every reference is to a block or empty.                          *)
TypeOK ==
  /\ use \in [Blocks -> Nat] /\ weak \in [Blocks -> Nat]
  /\ mutex \subseteq Blocks
  /\ life \in [Blocks -> {"free", "alive", "disposed"}]
  /\ sref \in [SharedSlots -> Blocks \cup {NoBlock}]
  /\ wref \in [WeakSlots -> Blocks \cup {NoBlock}]
  /\ pc \in [Threads -> Pcs]
  /\ blk \in [Threads -> Blocks \cup {NoBlock}]
  /\ tgt \in [Threads -> Slots] /\ src \in [Threads -> Slots]
  /\ cnt \in [Threads -> Nat]

Owned(b)     == \E s \in SharedSlots : sref[s] = b
Observed(b)  == \E s \in WeakSlots : wref[s] = b
SomeAt(P, b) == \E t \in Threads : pc[t] \in P /\ blk[t] = b

LastUse == {"dispose", "dec_weak"}
Ending  == LastUse \cup {"fast_dispose", "destroy"}

(* "#weak + (#shared != 0)": the count the shared owners hold together is  *)
(* given up only after the object is disposed of.                          *)
OwnersWeakCount(b) == IF Owned(b) \/ SomeAt(LastUse, b) THEN 1 ELSE 0

(* The mutex policy's lock() has added to a count it found zero.           *)
Resetting(b) == IF SomeAt({"mutex_reset"}, b) THEN 1 ELSE 0

(* What the comments on the two counters say: _M_use_count is "#shared"    *)
(* and _M_weak_count is "#weak + (#shared != 0)", whatever the threads are *)
(* doing; with the mutex policy a failing lock() shows one owner too many  *)
(* until it puts the zero back.                                            *)
CountsAreReferences ==
  \A b \in Blocks :
    /\ use[b]  = Cardinality(Shared(b)) + Resetting(b)
    /\ weak[b] = Cardinality(Weak(b)) + OwnersWeakCount(b)

(* A shared_ptr never owns a dead object, however lock(), copies and       *)
(* releases interleave: no lock() revives an object and no release         *)
(* disposes of one that somebody still owns.                               *)
OwnersSeeLiveObject ==
  \A s \in SharedSlots : sref[s] # NoBlock => life[sref[s]] = "alive"

(* No thread touches a control block after _M_destroy freed it, and no     *)
(* weak_ptr is left with a freed block.                                    *)
NoUseAfterFree ==
  /\ \A t \in Threads : blk[t] # NoBlock /\ pc[t] # "store" => life[blk[t]] # "free"
  /\ \A s \in WeakSlots : wref[s] # NoBlock => life[wref[s]] # "free"

(* _M_dispose and _M_destroy run once, in one thread, in that order: a     *)
(* thread about to dispose finds the object alive and unowned, one about   *)
(* to destroy finds it disposed of and no reference left.                  *)
LastUserIsAlone ==
  \A t \in Threads : pc[t] \in Ending =>
    /\ \A u \in Threads \ {t} : pc[u] \in Ending => blk[u] # blk[t]
    /\ ~Owned(blk[t])
    /\ life[blk[t]] = IF pc[t] \in {"dispose", "fast_dispose"} THEN "alive" ELSE "disposed"
    /\ pc[t] \in {"destroy", "fast_dispose"} => ~Observed(blk[t]) /\ weak[blk[t]] = 0

(* Nothing is lost: an object without owners, or a block without           *)
(* references, is in the hands of the thread that will end it.             *)
NoLeak ==
  \A b \in Blocks :
    /\ life[b] = "alive" => Owned(b) \/ SomeAt({"dispose", "fast_dispose"}, b)
    /\ life[b] # "free" => Owned(b) \/ Observed(b) \/ SomeAt(Ending, b)

(* The claim of the unique-owner path of _M_release: from the double-word  *)
(* load on, "there are no weak references and we are releasing the last    *)
(* strong reference", so that plain stores to the counts lose no update.   *)
FastPathIsUnique ==
  \A t \in Threads : pc[t] = "fast_store" =>
    /\ \A s \in SharedSlots : sref[s] = blk[t] => s = tgt[t]
    /\ ~Observed(blk[t])
    /\ \A u \in Threads \ {t} : pc[u] # "store" => blk[u] # blk[t]

(* Once use_count() has returned 0 for a control block it never returns    *)
(* anything else: expired() does not flip back.                            *)
ExpiredIsForever ==
  [][\A b \in Blocks :
       life[b] # "free" /\ life'[b] # "free" /\ use[b] = 0 => use'[b] = 0]_vars

(* Every object that loses its last owner is disposed of, and every block  *)
(* that loses its last reference is freed.                                 *)
OrphansEnd ==
  \A b \in Blocks :
    /\ life[b] = "alive" /\ ~Owned(b) ~> life[b] # "alive"
    /\ life[b] = "disposed" /\ ~Observed(b) ~> life[b] = "free"

-----------------------------------------------------------------------------
(* The inductive invariant: what each step of an operation relies on.      *)

Releasing == {"load_both", "fast_store", "dec_use"}

(* Where the reference is that an operation of t works with.               *)
OperationOK(t) ==
  /\ (pc[t] = "idle") = (blk[t] = NoBlock)
  /\ pc[t] = "idle" => tgt[t] = NoSlot /\ src[t] = NoSlot
  /\ pc[t] \in Releasing => sref[tgt[t]] = blk[t]
  /\ pc[t] \in Releasing \cup Ending \cup {"store"} =>
       \/ tgt[t] \in SharedPtrs /\ src[t] = t
       \/ tgt[t] \in WeakPtrs /\ src[t] \in WeakPtrs \cup {t} /\ src[t] # tgt[t]
       \/ tgt[t] = t /\ src[t] = NoSlot /\ pc[t] # "store"
  /\ pc[t] \in Releasing => tgt[t] \in SharedSlots
  /\ pc[t] = "weak_dec" =>
       /\ wref[tgt[t]] = blk[t]
       /\ \/ tgt[t] \in WeakPtrs /\ src[t] \in WeakPtrs \cup {t} /\ src[t] # tgt[t]
          \/ tgt[t] = t /\ src[t] = NoSlot
  /\ pc[t] \in Ending \cup {"store"} =>
       /\ tgt[t] \in SharedSlots => sref[tgt[t]] = NoBlock
       /\ tgt[t] \in WeakSlots => wref[tgt[t]] = NoBlock
  /\ pc[t] \in Locking =>
       /\ tgt[t] \in SharedPtrs /\ sref[tgt[t]] = NoBlock
       /\ src[t] \in WeakPtrs /\ wref[src[t]] = blk[t]

(* The temporary of t is in use only while t assigns or resets.            *)
TemporaryOK(t) ==
  /\ sref[t] # NoBlock =>
       \/ pc[t] \in Releasing /\ tgt[t] = t
       \/ tgt[t] \in SharedPtrs /\ src[t] = t
  /\ wref[t] # NoBlock =>
       \/ pc[t] = "weak_dec" /\ tgt[t] = t
       \/ tgt[t] \in WeakPtrs /\ src[t] = t

(* No two threads write one slot, and none reads what another writes.      *)
SlotsOK ==
  \A t, u \in Threads : t # u =>
    /\ tgt[t] # NoSlot => tgt[t] \notin {tgt[u], src[u]}
    /\ src[t] # NoSlot /\ src[t] = src[u] => pc[t] \in Locking /\ pc[u] \in Locking

MutexOK ==
  \A t \in Threads : pc[t] \in {"mutex_add", "mutex_reset"} =>
    /\ blk[t] \in mutex
    /\ pc[t] = "mutex_reset" => ~Owned(blk[t])
    /\ \A u \in Threads \ {t} :
         pc[u] \in {"mutex_add", "mutex_reset"} => blk[u] # blk[t]

PolicyOK ==
  \A t \in Threads :
    /\ pc[t] \in {"load_both", "fast_store", "fast_dispose"} => UniqueFastPath
    /\ pc[t] = "cas" => Policy = "atomic" /\ cnt[t] # 0
    /\ pc[t] \in Locking \ {"cas"} => Policy = "mutex"

IInv ==
  /\ TypeOK
  /\ \A t \in Threads : OperationOK(t) /\ TemporaryOK(t)
  /\ SlotsOK
  /\ MutexOK
  /\ PolicyOK
  /\ CountsAreReferences
  /\ OwnersSeeLiveObject
  /\ NoUseAfterFree
  /\ LastUserIsAlone
  /\ NoLeak
  /\ FastPathIsUnique

-----------------------------------------------------------------------------
(* The counted references, and the lives of the objects, are those of the  *)
(* specification that has no counts.                                       *)
Ownership == INSTANCE SharedOwnership
ImplementsOwnership == Ownership!Spec
=============================================================================
