# A verification development for the constexpr shared_ptr library

The repository is a C++26 `constexpr` implementation of `std::shared_ptr`,
`std::weak_ptr`, `std::atomic<std::shared_ptr>`, `std::out_ptr` and their
relatives (P3037), given as edited copies of libstdc++ headers under
`src/include/c++/17.0.0`. The same headers serve constant evaluation, which is
single-threaded, and run-time programs, which are not; the feature-test macro
`__glibcxx_constexpr_memory >= 202506L` ("C++26" below) selects code paths.
This directory holds TLA+ models of the library's own logic, the TLC
configurations that check them and TLAPS proofs about them.

Source paths below are relative to `src/include/c++/17.0.0`. `map` in
`PROJECT.json` gives the lines each definition translates.

## Inventory

874 of the 900 files are vendored libstdc++ headers. The repository's own work
is in five of them (`bits/atomic_base.h`, `out_ptr.h`, `shared_ptr.h`,
`shared_ptr_atomic.h`, `shared_ptr_base.h`) and in small edits elsewhere.

| Component | State | Operations | Hard behaviour | What makes it correct | Modelled in |
|---|---|---|---|---|---|
| Control block (`_Sp_counted_base`, `shared_ptr_base.h:129-504`) | `_M_use_count`, `_M_weak_count`, a mutex in one policy | add, release, weak release, `_M_add_ref_lock_nothrow` | threads between two atomic instructions; a plain-store fast path; lock policies | counts equal references; one dispose, then one destroy; no revival | `SpCountedBase` |
| Handles (`__shared_count`, `__weak_count`, `__shared_ptr`, `__weak_ptr`) | `_M_pi`, `_M_ptr` | copy, move, swap, assign, reset, lock | order of add and release, self-assignment, three forms of assignment, deleters that call back | no dangling handle, no leak | `SpCountedBase`, `SharedFromThis` |
| Making and ending (`__shared_count` constructors, the four kinds of block, `cest_allocate_shared`) | elements, memory, block | pointer, deleter, `unique_ptr`, `make_shared*`, `allocate_shared*` | an exception at every allocation and constructor | all or nothing; each element dies once, in order | `SpConstruct` |
| `atomic<shared_ptr>`, `atomic<weak_ptr>` (`_Sp_atomic`) | `_M_ptr`; `_M_val`, a block pointer with a lock bit | load, store, exchange, compare-exchange, wait, notify | two words, a spin lock, sleeping, counts, memory orders | the two words behave as one register; no lost wake-up; the lock is given back | `SpAtomic`, `SpAtomicOrders` |
| `enable_shared_from_this` | `_M_weak_this` | assignment on construction, `shared_from_this` | several first owners; calls from destructors | set while owned, and only then replaced | `SharedFromThis` |
| Overflow checks (`_S_chk`) | none | check after an increment | a count that wraps around | the program ends before a wrong count is acted upon | `SharedFromThis` |
| Free-function atomics, `_Sp_locker` | a pool of mutexes (in the binary) | `atomic_load`, ... | two mutexes, deadlock, one object passed twice | exclusive, no deadlock, one step for the client | `SpLocker` |
| `out_ptr`, `inout_ptr` | smart pointer, raw pointer, spare block | construct, convert, destroy | exceptions between release and reset | the pointer is owned once, by the right deleter | `OutPtr` |
| Atomicity dispatch (`ext/atomicity.h`) | none | atomic or plain arithmetic | none: plain when there is one thread | same values | `SpCountedBase` with one thread |
| `atomic_wait.h` | proxy version, sleepers | wait, notify | wake-up between test and sleep | a notified waiter looks again | inside `SpAtomic` |
| `atomic_base.h` helpers | none | plain forms of atomic built-ins | none: one thread | same values as the built-ins | no |
| comparisons, hashing, casts, output, `get_deleter` | none | pure | none | functional | no |

**How they interact.** A handle calls its control block; the block calls the
deleter or the elements' destructors (`_M_dispose`), which may call the library
again, and gives back its own memory (`_M_destroy`). `_Sp_atomic` takes over the
count of a handle that is moved in, adds counts under its lock for the handles it
returns, and calls `atomic_wait.h` to sleep. The make functions allocate,
construct and hand the result to a constructor of `__shared_count`, which may
itself fail and must then undo their work. Constructors of `shared_ptr` set
`_M_weak_this` of the object. The free functions and `out_ptr` use ordinary
handles, under mutexes of the pool and around a call of client code.

`hazards` in `PROJECT.json` lists where these interactions are hard to test,
with the properties that would catch them going wrong, or the reason why none
can.

## Modules

| Module | Contents |
|---|---|
| `SpCountedBase` | the counts, `shared_ptr` and `weak_ptr` operations, in threads |
| `SharedOwnership` | abstract: objects live while they have an owner, blocks while they have a reference |
| `SpCountedBaseProofs` | its inductive invariant and safety theorems |
| `SharedOwnershipProofs` | the step refinement from `SpCountedBase` to `SharedOwnership` |
| `SpAtomic` | `atomic<shared_ptr>`, both code paths, with `wait` and `notify` |
| `AtomicValue` | abstract: one register that holds a pair, with counted values |
| `SpAtomicProofs` | its inductive invariant, safety theorems and the refinement of `AtomicValue` |
| `SpAtomicOrders` | the memory orders of `_Sp_atomic`, as history variables over `SpAtomic` |
| `SpAtomicOrdersProofs` | the histories constrain nothing; who has the lock sees the last write |
| `SpConstruct` | making and ending objects and arrays when anything may throw |
| `SpConstructProofs` | its inductive invariant and safety theorems |
| `SharedFromThis` | `enable_shared_from_this`, deleters that call the library again, overflow |
| `SharedFromThisProofs` | its inductive invariant, over a stack of any depth, and safety theorems |
| `SpLocker` | the free functions on ordinary `shared_ptr`s |
| `SharedRegisters` | abstract: registers that each call reads and writes in one step |
| `SpLockerProofs` | for any pool: exclusion, no deadlock, deleters outside, exact counts and the refinement of `SharedRegisters` |
| `OutPtr` | `out_ptr_t` and `inout_ptr_t` |
| `OutPtrProofs` | its inductive invariant and safety theorems |
| `MCSpCountedBase`, `MCSpAtomic` | symmetry sets for TLC |

`SpCountedBase` is about threads inside the counting protocol; the other modules
use operations on counts as single steps, which its refinement of
`SharedOwnership` justifies: ownership changes in one step of each operation.

### SpCountedBase

One action is one atomic instruction on a control block or one virtual call on
it; between two of them a thread touches only its own variables. `use` and
`weak` are the two counters, `life` the state of the object and of the block's
memory, `sref` and `wref` the counted references (those of the smart pointers,
and of each thread's temporary). `pc`, `blk`, `tgt`, `src`, `cnt` are the
thread's place and registers.

- Releases: `DecUse`, `Dispose`, `DecWeak`, `Destroy` are the steps of
  `_M_release` and `_M_release_last_use`; `LoadBoth`, `FastStore`,
  `FastDispose` the unique-owner path with its double-word load
  (`UniqueFastPath`); `WeakDec` is `_M_weak_release`.
- Assignments follow the order of the code: `AssignShared` adds, releases and
  then stores, unless the blocks are equal; `AssignWeak` has no such test;
  `ConvertMoveWeak` releases first and then steals; same-type moves go through a
  temporary.
- `lock()`: `LockLoad`, `CasSucceeds`, `CasFails` (weak: it may fail without
  reason) under the atomic policy; `LockMutex`, `MutexAcquire`, `MutexAdd`,
  `MutexReset` under the mutex policy. The single-threaded policy, and constant
  evaluation, are the atomic policy with one thread and no fast path: a loop of
  compare-exchanges that nobody disturbs is a test and an increment.
- Clients obey the contract of the library: two threads use one smart pointer
  at the same time only to read it (`CanRead`, `CanWrite`). Addresses of blocks
  are reused after `Destroy`.

### SpAtomic and SpAtomicOrders

One action is one access to `_M_ptr` or to the word, or one call on a count.
`Cxx26` selects the code path: a compare-exchange loop in `unlock()` and a wait
on the word, or a `fetch_sub` and a predicate that takes the lock again. `Proxy`
says where the library's `__wait_impl` sleeps: on a proxy whose version every
notification changes (`stale`), or on the word itself, as `atomic_wait.h` may do
for 64-bit words on some platforms. Sleeping is modelled from how the header
uses `__wait_impl`: a thread does not fall asleep if what it waits on changed
since it last read it. `store` and `exchange` are both `swap()`; they differ only
in who gets the old value, and the model's client may drop it at once. A
compare-exchange hands its parameter on by value; the parameter itself, one more
owner of the same block until the call returns, is left out. The caller of a `swap` or a successful compare-exchange calls `notify_all`;
`notify_one` may come at any time. Here a block needs one count and a flag;
`atomic<weak_ptr>` is the same template on the weak count.

`AtomicValue` is what a client may rely on: each operation reads or writes the
whole pair in one step. The refinement mapping (`Value`, `Argument`, `Expected`)
puts the step of a `swap` at the exchange of the word and hides the half-swapped
pair. The value that a compare-exchange returns is in neither model, nor in
`SharedRegisters`: it only says which of the two outcomes the client's own values
show.

`SpAtomicOrders` conjoins to every step of `SpAtomic` what it does to the
happens-before relation. `_M_ptr` is the only plain memory that threads share,
so four history variables are enough: `reads`, the threads that have read it
since its last write; `knows`, which of these accesses a thread comes after;
`carried`, what an acquire of the word would add to that; `counted`, the same
for the counts of a block, which are changed with acquire and release. An
operation on the word picks its order among those the code can choose for any
order of the caller (`LockOrders`, `UnlockOrders`, `SwapUnlockOrders`,
`WaitOrders`). The histories never constrain a step.

### SpConstruct

One object or array at a time is made in one of seven ways (`Kinds`). Each
allocation and each element's constructor has an action for success and one for
an exception; each loop over elements takes a step per element. `objs` is the
set of elements that exist, `storage` and `block` the two allocations
(`storage` of a joint allocation includes the block). `Unwind` is the guard of
an unfinished joint array, `Delete` the deleter, `Dispose` and `Destroy` the
virtual functions of joint blocks. `MayNotAllocate` names the kinds whose
allocation of elements may fail.

### SharedFromThis

One thread, in which the release of a last owner calls client code that calls
the library again. `stack` holds what the library has still to do: `body`, the
deleter or destructor of client code; `member` and `base`, the ends of an
object's member `shared_ptr` and of its `_M_weak_this`; `weak`, the owners' weak
reference; `store`, the end of an assignment whose release is running. Every
operation may be called when the stack is empty or a `body` is on top.

- An object is on the heap (`Make`) or static (`MakeStatic`) and lent to a block
  with a deleter that does nothing (`Adopt`), so that it may have several first
  owners and outlive them; `Assigns` is `_M_assign`.
- `CopyAssign` adds, releases and leaves a `store` frame; `MoveAssign` and
  `Reset` go through a temporary, so that the target has its new value when the
  old one is released. Targets may be the client's own pointers or members of
  objects, empty or not.
- `Inc` wraps around at `MaxUse`, and `Chk` is `_S_chk`, which traps. `WeakAddRef`
  is the same for the weak count, whose highest value is another (`MaxWeak`). A
  `weak_ptr` is counted one at a time by `weak_from_this()` only; the first weak
  references of a block come with it.
- Two conditions restrict clients, both about the target of an unfinished
  copy-assignment (`Awaits`): nobody touches it (`Usable`), and no deleter ends the
  object that it is a member of (the last guard of `EndBody`). See *Not modelled*.

### SpLocker

One action is one access to a member of a shared `shared_ptr`, one mutex
operation or one call on a count. `key` is the hash of each address, chosen at
the start and fixed, `holder` the owner of each mutex. The pool's code is in the
library's binary; what the header needs of it is modelled: the lower key is
locked first (`Lock1`, `Lock2`), equal keys once. `ReadPtr`, `ReadPi` are the
copy of `atomic_load`, `SwapPtr`, `SwapPi` the swap of `atomic_store` and
`atomic_exchange`; a compare-exchange moves `*p` or `*v` to `__x` (`TakePtr`,
`TakePi`), then moves the argument in (`Put*`) or copies `*p` to `*v` (`Copy*`).
The locker's destructor (`Unlock`) comes before those of `__x` and the parameter
(`DropX`, `DropArg`). Any two addresses may be passed, the same one twice
included. `SharedRegisters` is what a client may rely on.

### OutPtr

One smart pointer is adapted again and again in one of eight combinations
(`kind`) with `_Impl`: in place or through a pointer of the adaptor's own, with
and without a replacement deleter, `unique_ptr`, `shared_ptr` with its spare
control block, and the primary template with a `unique_ptr`, the same with a
replacement deleter, and a `shared_ptr`. Deleters do not throw when they are
called, moved or assigned: the library requires that of them. `Own`, `Empty` and `ResetThen` are the
client's and the adaptor's uses of the smart pointer; `OutInit` and `InoutInit`
make the adaptor, `Allocate` its block; the callee writes an object, deletes the
one it was lent, or throws (`unwinding`); the actions `End*` are the destructors
of each specialization. Each object is due a deleter (`due`), fixed by who made
it, and `Delete` runs one.

## Runs

| Run | Question |
|---|---|
| `counts_atomic` | atomic policy with the unique-owner path, every operation: counts, life times, no revival, no leak; implements `SharedOwnership` |
| `counts_mutex` | mutex policy: adding to zero under the mutex is invisible to ownership; with fair threads whatever loses its last owner or reference is ended |
| `atomic_values` | C++26 load, swap, compare-exchange implement `AtomicValue`; lock exclusive, no dead value, no deleter under the lock |
| `atomic_wait` | the other code path, with `wait` on a proxy: it returns only on a change, its waiters wake, and it disturbs nobody |
| `atomic_orders` | C++26, all operations with their memory orders: who has the lock sees the last write of `_M_ptr`; the lock is given back on every path; a waiter sleeping on the word itself sees a new block |
| `construct` | every way of making and ending, with exceptions |
| `from_this` | deleters and destructors that call the library again, up to the highest counts: exact counts, single ends, and whose block `_M_weak_this` has |
| `locker` | the free functions implement `SharedRegisters`; no deadlock, no two bodies on one `shared_ptr`, no deleter under a mutex |
| `out_ptr` | no object lost, deleted twice or with another deleter, wherever an exception comes; when the program can be terminated |

Three runs expect a violation and show where the code departs from what the
repository says of it:

- `atomic_wait_word`: in C++26, `wait()` looks only at the control block's word,
  so a change of the pointer alone is never noticed (nor a block that changes
  and changes back). For the same reason it compares the lock bit too and may
  return on an unchanged value that another thread is reading.
- `atomic_orders_race`: `load()` gives the lock back with a relaxed operation,
  so that its plain read of `_M_ptr` does not happen before the next write: a
  data race by the rules of the language. The increment of the count that comes
  between the two has release semantics, and a null block's pointer has nothing
  to lose, so this is a statement about the orders and not about an outcome seen
  on a machine.
- `construct_no_memory`: `cest_allocate_shared` deallocates a null pointer when
  its allocation throws.

One question is left to the reader of `Sleep`: before C++26, waiting on the word
itself (`Proxy = FALSE`, `Cxx26 = FALSE`), a change of the pointer between the
predicate and the sleep leaves the word as it was and is lost. `atomic_wait`
has a proxy, as the Linux library does for 64-bit words, and shows that it is
not lost there. Under the mutex policy a failing `lock()` lets `use_count()` of an
expired pointer read 1 for a moment; no owner can tell, as the refinement shows.

Deadlock is checked, except where the program may really stop: in the runs with
`wait()` (`atomic_wait*`, `atomic_orders*`), where all threads may sleep on a
value that nobody changes; after `std::terminate` in `out_ptr`; and after
`__builtin_trap` in `from_this`.

### Bounds

- `counts_atomic`: three threads, three shared and two weak pointers, two blocks,
  with symmetry. Three threads are the least with which a release, a `lock()` and
  an independent copy overlap on one block; two blocks let assignments cross and
  memory be reused. `counts_mutex`: two threads, two shared and one weak pointer,
  two blocks, because liveness excludes symmetry; a thread that fails to lock
  and one that releases are the two that the mutex separates.
- `atomic_values`: two threads, two blocks and two parts of an object to point to,
  so that pointer and block can change separately and an address can come back.
  `atomic_wait*` have one block (or none), which is enough for a change of the
  pointer alone and for a block that comes back. `atomic_orders*`: one block with one part
  is enough for a value to change; a race needs one reader and one writer.
- `construct`: arrays of up to six elements.
- `from_this`: two objects, two blocks, two client pointers: lists of two nodes,
  cycles, and two owners of one object; `MaxUse = 3`, which the four
  `shared_ptr`s can exceed; two `weak_ptr`s and `MaxWeak = 3`, which they exceed
  together with the owners' reference and `_M_weak_this`; client calls under up to `MaxDepth = 3` frames, deep
  enough for a deleter inside a deleter inside an assignment.
- `locker`: two threads, two `shared_ptr`s with keys in either order or equal,
  one block with two parts.
- `out_ptr`: two objects and two deleters, so that a wrong one can be called.

No counter needs a bound elsewhere: a count is at most the number of slots. The
proofs have none of these bounds.

### Fairness

`FairSpec` gives weak fairness to each thread inside a library operation: the
library never blocks except in `MutexAcquire`, `Spin` and the sleep of `wait()`,
and a thread that runs finishes its straight-line code. Clients need not call
anything. There is no strong fairness: the spin lock may starve a thread, and no
property says otherwise. `OrphansEnd` (`counts_mutex`), `WaitersWake`
(`atomic_wait`), `LockIsReleased` and `WaitersSeeNewBlock` (`atomic_orders`) rest
on it. Waiters are woken because every change is followed by `notify_all()`.

## Proofs

Each proof module assumes only what its model's `ASSUME` says
(`ConstantsAssumption`, `AtomicAssumption`, `LockerAssumption`,
`OutPtrAssumption`, ...): sentinels that are no elements of the sets they stand
beside, and finite sets where references are counted.

**SpCountedBaseProofs** proves, for any finite number of threads and pointers, any
set of blocks and both policies, that `IInv` is inductive, and from it
`TypeOK`, `CountsAreReferences`, `OwnersSeeLiveObject`, `NoUseAfterFree`,
`LastUserIsAlone`, `NoLeak`, `FastPathIsUnique`, and `ExpiredIsForever` for the
atomic policy. None of these is inductive alone: that a decrement is safe depends
on the thread's own reference being counted, and that it is alone at `Destroy`
depends on the counts being exact. `IInv` adds what each place of an operation
knows: `OperationOK` (where the reference is that a thread works with),
`TemporaryOK`, `SlotsOK` (no two threads write a slot), `MutexOK`, `PolicyOK`. The
argument is a ledger: `CountWrite` says that writing one slot moves one unit
between the numbers of references of two blocks; `SharedWrite`, `WeakWrite` and
their forms for two and three slots lift it to the model; `LedgerStep` and
`LedgerAtBlock` keep the part about blocks for actions that start or end no
life; then there is one lemma per action.

**SharedOwnershipProofs** proves on the same invariant that every action is one
step of `SharedOwnership` or none. Moves, exchanges and rotations of references
keep the number of them at each block, which is the abstract `Rearrange`; an
increment in `lock()` is an abstract one only where the block still has an
owner, which `IInv` says of a successful compare-exchange and of the mutex
holder.

**SpAtomicProofs** proves `TypeOK`, `LockIsExclusive`, `CountsAreHolders`,
`NoDeadValue`, `NoDeleterUnderLock`, `ImplementsAtomicValue` for both code paths, with
and without a proxy, and `WaitReturnsOnChange` before C++26 (afterwards it is false). Its
`IInv` adds `ControlOK` (which operation is at which place) and `ValuesOK`: what
each place knows of the word, the pointer and the thread's own values, such as
that the half-swapped pair is the thread's and the block's in two halves. A
ledger like the one above gives the counts; `QuietStep` and `OwnStep` give the
refinement from what a step does to the abstract value and to the thread's own.

**SpAtomicOrdersProofs** proves `OrdersSpec => Spec`, so that all of the above holds
with memory orders, and `LockShowsLastWrite` for any number of threads and any orders
that callers ask for. `WriteIsKept` in its invariant says where the last write of
`_M_ptr` is: carried by the word, so that the acquire of the next `lock()` picks it
up, or known to every thread (as after construction), or its writer is about to swap
the word, and that exchange is a release. A relaxed `unlock()` leaves `carried` as it
was: the word's release sequence goes on.

**SpConstructProofs** proves `NothingLost`, `DestroysWhatExists`, `EndsInOrder` and
`LastDiesFirst` for arrays of every length and any choice of what may throw;
`FreesWhatIsAllocated` under the assumption that the allocation of
`cest_allocate_shared` does not, which is the failure of `construct_no_memory`.
`PlaceOK` says what each place knows of the elements made so far; `LoopKeepsIInv` is
the one argument about an interval that shrinks at either end. The same interval gives
`LastDiesFirst`: in `delete[]` and in the blocks it covers only its upper end moves.

**SharedFromThisProofs** proves `CountsExact`, `OwnersSeeObject`, `EndsOnce`,
`FirstOwnerStays` and `NewOwnerShares` for any finite sets of objects and pointers,
any blocks, any limits of the counts, and a stack of any depth. `IInv` has three parts;
the first two are `Core`.

- `Structure` holds also after an overflow. It looks at the frames as a set
  (`In(stack)`), which a push or a pop changes by one element (`Push`, `Pop`), so that
  no induction over the length is needed: two frames never end the same block or
  object nor store into the same pointer (`Apart`); and a block that is still living,
  in that it has owners or its `body` has yet to run, has an object that is alive and
  not being destroyed if the block deletes it (`LivingOK`), and is the only one to do
  so (`SoleOwner`).
- `UseOK` and `WeakOK` are the ledgers. `Wills` is what each shared_ptr has when the
  pending assignments are done: these have counted their new block and released the
  old one, so the use count is the number of shared_ptrs that *will* have the block.
  The weak count adds up `_M_weak_this`, the client's `weak_ptr`s and the one reference
  that owners have together until their `weak` frame is done (`Held`).
- `EndsInOrder` says what is left of an end that has begun: its `base` frame is on the
  stack, and its `member` frame too while the object still counts as alive; and no
  store is pending into it, for `EndMember` would release a pointer that the store
  then fills again.

`CountWrite` and `ObjectWrite` move one unit of a ledger; `ReleaseStep` is the release
that six operations share; then there is one lemma per action. In the step that
overflows the ledgers are given up and the program has ended; that everything ends once
still holds, because a count that wraps around to zero only makes fewer blocks living,
and only the part of `EndsOnce` about weak counts is then void.

Two more theorems are about every depth of calls and are no property of the run:
`ExpiredIsForever`, that a block without owners never gets one again while it exists,
and `NothingIsHalfEnded`, that no object is left with its destructor begun when the
outermost call has returned. The second rests on `EndsInOrder`.

**SpLockerProofs** proves `BodiesAreExclusive`, `SomebodyRuns` and
`NoDeleterUnderLock` for any number of threads and `shared_ptr`s, any pool and
any hash. `Locking(t)` says exactly which mutexes a thread has at which place.
If everybody waited, each waiter between its two locks would wait for another
one there with a higher first key; keys are bounded, so one has the highest,
a contradiction (`WaitsForHigher`, `LeastNumber`).

The second half of the module proves `CountsAreHolders` and `ImplementsRegisters` on
top of that. `VInv` adds to `IInv` what each place of a body knows (`HandsOK`): that the
two values compared equal or not, that the target has been emptied, which half of
a value has been written. The counts follow from a ledger: each step moves at most
one reference out of the `shared_ptr`s, the arguments and the locals, and into
them, and changes the count of that block only. For the refinement, the value of a
`shared_ptr` in the middle of a change is the one it had before (`Old`), and
`BodiesAreExclusive` leaves one thread that can be changing it. Each step of the
code is then quiet, or one of the thread's own, or the call, or the effect of the
call.

**OutPtrProofs** proves `OwnsWhatIsLeft`, `DeletesItsOwn` and
`OnlyLateAllocationTerminates` for any sets of objects and deleters: `IInv` says
for each place who has the one object that may exist, and which deleter it is
due.

Every invariant and action property of the passing runs, and every refinement, is
stated by a theorem. Only model-checked is liveness (`OrphansEnd`, `WaitersWake`,
`LockIsReleased`, `WaitersSeeNewBlock`), which rests on fairness and ENABLED, beyond
this prover; and what the runs that expect a violation show, which is false.
`WaitReturnsOnChange` is proved for the code path on which it holds.

## Not modelled

- The 874 vendored headers of libstdc++ that the repository did not write:
  algorithms, containers, formatting, random numbers and so on. They are
  third-party code, and nearly all of the tree's lines; the models cover the
  repository's own headers.
- Constant evaluation as such. It runs the same operations in one thread; the
  helpers of `atomic_base.h` are the plain forms of the built-ins.
- A deleter that runs inside a copy-assignment and uses the very `shared_ptr` that is
  assigned to, or ends the object that it is a member of: the code releases the old block before it stores
  the new one, so the outcome is the use of a dead block. `hazards` records it.
- Other threads between the increment that overflows a count and the trap.
- The parameter of a compare-exchange that is copied once more on its way, and the
  value that the call returns. Exceptions of a deleter's own operations.
- An object with `enable_shared_from_this` that reaches its `shared_ptr` through
  `out_ptr`: its `_M_weak_this` is not set. `hazards` records it.
- The unique-owner path inside `SharedFromThis`: `SpCountedBase` shows that it
  ends what the other path ends.
- The specialization of `out_ptr` under `__abi_break_for_conv_ops`, which is not
  compiled.
- Conversions between pointer types, alignment, propagation of allocators, the
  multiplication check of array lengths; `get_deleter`, comparisons, hashing,
  casts and output, which change nothing.
- The clients in `src/tests` and the proposal, which were read as documentation
  of the intended behaviour.

## What is left

1. `SharedFromThis` as an implementation of an abstract specification. It is not one of
   `SharedOwnership`, step for step: an assignment counts the new block and releases the
   old one in one step, and the first owner sets `_M_weak_this` in its own. An abstract
   specification for it needs an exchange of owners as a step, and ends that nest.
2. An object that a block deletes is gone once the block has expired and no frame is
   left for it: `NothingHalfEnded` says that no end stops half way, and not yet that
   every end has begun.
