--------------------------- MODULE SharedRegisters ---------------------------
(***************************************************************************)
(* What atomic_load, atomic_store, atomic_exchange and                     *)
(* atomic_compare_exchange_strong promise of ordinary shared_ptrs: each    *)
(* call reads and writes the one or two that it names in a single step,    *)
(* once.  A value is a pointer and a control block together.               *)
(***************************************************************************)
CONSTANTS Threads, Slots, Values, NoValue, NoCall

VARIABLES
  val,    \* the value of each shared_ptr
  arg,    \* what each thread passes to an operation or gets back
  asked   \* the call of each thread that has not had its effect yet

state == <<val, arg, asked>>

Init ==
  /\ val = [s \in Slots |-> NoValue]
  /\ arg = [t \in Threads |-> NoValue]
  /\ asked = [t \in Threads |-> NoCall]

(* Between calls a thread makes and drops values of its own.               *)
Set(t, w) ==
  /\ asked[t] = NoCall
  /\ arg' = [arg EXCEPT ![t] = w]
  /\ UNCHANGED <<val, asked>>

Ask(t, o, p, v) ==
  /\ asked[t] = NoCall
  /\ asked' = [asked EXCEPT ![t] = [op |-> o, p |-> p, v |-> v]]
  /\ UNCHANGED <<val, arg>>

Load(t, p) ==
  /\ arg' = [arg EXCEPT ![t] = val[p]]
  /\ UNCHANGED val

Exchange(t, p) ==
  /\ val' = [val EXCEPT ![p] = arg[t]]
  /\ arg' = [arg EXCEPT ![t] = val[p]]

(* The expected value is another shared_ptr, which threads may share, or   *)
(* the same one.                                                           *)
CompareExchange(t, p, v) ==
  \/ /\ val[p] = val[v]
     /\ val' = [val EXCEPT ![p] = arg[t]]
     /\ arg' = [arg EXCEPT ![t] = NoValue]
  \/ /\ val[p] # val[v]
     /\ val' = [val EXCEPT ![v] = val[p]]
     /\ UNCHANGED arg

Do(t) ==
  /\ asked[t] # NoCall
  /\ asked' = [asked EXCEPT ![t] = NoCall]
  /\ \/ asked[t].op = "load" /\ Load(t, asked[t].p)
     \/ asked[t].op = "swap" /\ Exchange(t, asked[t].p)
     \/ asked[t].op = "cas"  /\ CompareExchange(t, asked[t].p, asked[t].v)

Next ==
  \E t \in Threads :
    \/ \E w \in Values : Set(t, w)
    \/ \E o \in {"load", "swap", "cas"}, p, v \in Slots : Ask(t, o, p, v)
    \/ Do(t)

Spec == Init /\ [][Next]_state
=============================================================================
