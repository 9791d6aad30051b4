---------------------------- MODULE AtomicValue ----------------------------
(***************************************************************************)
(* What atomic<shared_ptr<T>> promises: one object whose value is read,    *)
(* exchanged, and compared and exchanged in single steps.  A value is a    *)
(* pointer and a control block together.                                   *)
(***************************************************************************)
CONSTANTS Threads, Blocks, Parts, NoValue

VARIABLES
  val,   \* the value of the atomic object
  arg,   \* the shared_ptr that each thread passes to an operation or gets back
  exp    \* the expected value of each thread

state == <<val, arg, exp>>

Init ==
  /\ val = NoValue
  /\ arg = [t \in Threads |-> NoValue]
  /\ exp = [t \in Threads |-> NoValue]

Fresh(b) ==
  /\ val.pi # b
  /\ \A t \in Threads : arg[t].pi # b /\ exp[t].pi # b

Load(t) ==
  /\ arg[t] = NoValue
  /\ arg' = [arg EXCEPT ![t] = val]
  /\ UNCHANGED <<val, exp>>

Exchange(t) ==
  /\ val' = arg[t]
  /\ arg' = [arg EXCEPT ![t] = val]
  /\ UNCHANGED exp

CompareExchange(t) ==
  \/ /\ val = exp[t]
     /\ val' = arg[t]
     /\ arg' = [arg EXCEPT ![t] = NoValue]
     /\ UNCHANGED exp
  \/ /\ val # exp[t]
     /\ exp' = [exp EXCEPT ![t] = val]
     /\ UNCHANGED <<val, arg>>

(* What a thread does with its own shared_ptrs.                            *)
Make(t, v) ==
  /\ arg[t] = NoValue
  /\ Fresh(v.pi)
  /\ arg' = [arg EXCEPT ![t] = v]
  /\ UNCHANGED <<val, exp>>

Alias(t, p) ==
  /\ arg[t] # NoValue
  /\ arg' = [arg EXCEPT ![t].ptr = p]
  /\ UNCHANGED <<val, exp>>

CopyToExpected(t) ==
  /\ exp' = [exp EXCEPT ![t] = arg[t]]
  /\ UNCHANGED <<val, arg>>

MoveFromExpected(t) ==
  /\ arg' = [arg EXCEPT ![t] = exp[t]]
  /\ exp' = [exp EXCEPT ![t] = NoValue]
  /\ UNCHANGED val

Drop(t) ==
  /\ arg' = [arg EXCEPT ![t] = NoValue]
  /\ UNCHANGED <<val, exp>>

Clear ==
  /\ val' = NoValue
  /\ UNCHANGED <<arg, exp>>

Next ==
  \/ \E t \in Threads :
       \/ Load(t) \/ Exchange(t) \/ CompareExchange(t)
       \/ \E b \in Blocks, i \in Parts :
            Make(t, [ptr |-> <<b, i>>, pi |-> b]) \/ Alias(t, <<b, i>>)
       \/ CopyToExpected(t) \/ MoveFromExpected(t) \/ Drop(t)
  \/ Clear

Spec == Init /\ [][Next]_state
=============================================================================
