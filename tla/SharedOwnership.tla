-------------------------- MODULE SharedOwnership --------------------------
(***************************************************************************)
(* What shared_ptr and weak_ptr promise, without counts, threads or        *)
(* control flow: an object lives as long as it has an owner, and its       *)
(* control block as long as something refers to it.                        *)
(***************************************************************************)
EXTENDS FiniteSets

CONSTANTS Blocks, NoBlock, SharedSlots, WeakSlots

VARIABLES
  sref,   \* the block that each shared slot owns, or NoBlock
  wref,   \* the block that each weak slot observes, or NoBlock
  life    \* of the block: "free", object "alive", or "disposed"

state == <<sref, wref, life>>

Owners(b)    == {s \in SharedSlots : sref[s] = b}
Observers(b) == {s \in WeakSlots : wref[s] = b}

Init ==
  /\ sref = [s \in SharedSlots |-> NoBlock]
  /\ wref = [s \in WeakSlots |-> NoBlock]
  /\ life = [b \in Blocks |-> "free"]

Create(s, b) ==
  /\ life[b] = "free"
  /\ sref[s] = NoBlock
  /\ life' = [life EXCEPT ![b] = "alive"]
  /\ sref' = [sref EXCEPT ![s] = b]
  /\ UNCHANGED wref

(* A new owner needs an owner, even when it comes from a weak_ptr.         *)
Share(s, b) ==
  /\ Owners(b) # {}
  /\ sref[s] = NoBlock
  /\ sref' = [sref EXCEPT ![s] = b]
  /\ UNCHANGED <<wref, life>>

Observe(s, b) ==
  /\ Owners(b) \cup Observers(b) # {}
  /\ wref[s] = NoBlock
  /\ wref' = [wref EXCEPT ![s] = b]
  /\ UNCHANGED <<sref, life>>

Disown(s) ==
  /\ sref' = [sref EXCEPT ![s] = NoBlock]
  /\ UNCHANGED <<wref, life>>

Unobserve(s) ==
  /\ wref' = [wref EXCEPT ![s] = NoBlock]
  /\ UNCHANGED <<sref, life>>

(* Moves and swaps: references change places, none appears or vanishes.    *)
Rearrange ==
  /\ \A b \in Blocks : /\ Cardinality(Owners(b)') = Cardinality(Owners(b))
                       /\ Cardinality(Observers(b)') = Cardinality(Observers(b))
  /\ UNCHANGED life

Dispose(b) ==
  /\ life[b] = "alive"
  /\ Owners(b) = {}
  /\ life' = [life EXCEPT ![b] = "disposed"]
  /\ UNCHANGED <<sref, wref>>

Destroy(b) ==
  /\ life[b] = "disposed"
  /\ Observers(b) = {}
  /\ life' = [life EXCEPT ![b] = "free"]
  /\ UNCHANGED <<sref, wref>>

Next ==
  \/ \E s \in SharedSlots, b \in Blocks : Create(s, b) \/ Share(s, b)
  \/ \E s \in WeakSlots, b \in Blocks : Observe(s, b)
  \/ \E s \in SharedSlots : Disown(s)
  \/ \E s \in WeakSlots : Unobserve(s)
  \/ Rearrange
  \/ \E b \in Blocks : Dispose(b) \/ Destroy(b)

Spec == Init /\ [][Next]_state
=============================================================================
