------------------------ MODULE SharedFromThisProofs ------------------------
(***************************************************************************)
(* SharedFromThis for any number of objects, blocks and shared_ptrs, any   *)
(* limit of the counts and any depth of the stack: the counts are exact    *)
(* wherever client code runs, and everything ends once.                    *)
(***************************************************************************)
EXTENDS SharedFromThis, FiniteSetTheorems, FunctionTheorems, SequenceTheorems, TLAPS

-----------------------------------------------------------------------------
(* The inductive invariant.                                                *)

FrameType == [at : {"body", "member", "base", "weak", "store"}, on : Slots, blk : BlocksOrNo]

In(st) == {st[k] : k \in DOMAIN st}

(* Two frames that would end the same block or object, or store into the   *)
(* same shared_ptr.                                                        *)
Clash(f, g) ==
  \/ f.at \in {"body", "weak"} /\ g.at \in {"body", "weak"} /\ f.blk = g.blk
  \/ f.at \in {"member", "base", "store"} /\ f.at = g.at /\ f.on = g.on

Apart(st) == \A k, l \in DOMAIN st : k # l => ~Clash(st[k], st[l])

FramesOK(st, u, ob, li) ==
  \A f \in In(st) :
    /\ f.at \in {"body", "weak"} => f.blk \in Blocks /\ u[f.blk] = 0
    /\ f.at = "body" => f.on = ob[f.blk]
    /\ f.at \in {"member", "base"} => f.on \in Objects /\ li[f.on] # "none"
    /\ f.at = "member" => f = Head(st)

(* A block is living until the object, if it deletes one, begins to end.   *)
Living(st, u, b)    == u[b] > 0 \/ \E f \in In(st) : f.at = "body" /\ f.blk = b
Destructing(st, o)  == \E f \in In(st) : f.at \in {"member", "base"} /\ f.on = o

LivingOK(st, u, ob, ow, li) ==
  \A b \in Blocks : Living(st, u, b) =>
    /\ ob[b] \in Objects
    /\ ow[b] => li[ob[b]] = "alive" /\ ~Destructing(st, ob[b])

(* No object is deleted by two blocks.                                     *)
SoleOwner(st, u, ob, ow) ==
  \A b, c \in Blocks :
    Living(st, u, b) /\ Living(st, u, c) /\ ow[b] /\ ow[c] /\ ob[b] = ob[c] => b = c

Good(st, u, ob, ow, li) ==
  /\ st \in Seq(FrameType) /\ Apart(st)
  /\ FramesOK(st, u, ob, li) /\ LivingOK(st, u, ob, ow, li) /\ SoleOwner(st, u, ob, ow)

NoneIsUnwatched == \A o \in Objects : life[o] = "none" => weakThis[o] = NoBlock

Structure == TypeOK /\ Good(stack, use, obj, owns, life) /\ NoneIsUnwatched

(* What a shared_ptr has when the stores S are done: the assignments have  *)
(* counted it already.                                                     *)
StoreFrames(st) == {f \in In(st) : f.at = "store"}
WillIn(S, a, s) ==
  IF \E f \in S : f.on = s THEN (CHOOSE f \in S : f.on = s).blk ELSE a[s]
Wills == [s \in Slots |-> WillIn(StoreFrames(stack), sp, s)]

Count(S, f, b) == Cardinality({u \in S : f[u] = b})
Is(a, b) == IF a = b THEN 1 ELSE 0

UseOK == \A b \in Blocks : use[b] = Count(Slots, Wills, b)
(* The owners' reference to their block.                                   *)
Held(b) == IF use[b] > 0 \/ Ending(b) THEN 1 ELSE 0

WeakOK ==
  \A b \in Blocks :
    weak[b] = Count(Objects, weakThis, b) + Count(WeakPtrs, wp, b) + Held(b)

Core == Structure /\ (~trapped => UseOK /\ WeakOK)

(* The rest of a destructor that has begun is on the stack, and no store   *)
(* is pending into the object: EndMember would forget it.                  *)
Has(st, at, o) == \E f \in In(st) : f.at = at /\ f.on = o

EndsInOrder ==
  \A o \in Objects :
    /\ life[o] = "ending" \/ Has(stack, "member", o) => Has(stack, "base", o)
    /\ life[o] = "alive" /\ Has(stack, "base", o) => Has(stack, "member", o)
    /\ Has(stack, "store", o) => ~Has(stack, "member", o) /\ ~Has(stack, "base", o)

IInv == Core /\ EndsInOrder

-----------------------------------------------------------------------------
(* The stack.                                                              *)

LEMMA OneFrame ==
  ASSUME NEW f \in FrameType
  PROVE  /\ <<f>> \in Seq(FrameType) /\ Len(<<f>>) = 1 /\ <<f>>[1] = f
OBVIOUS

LEMMA InPush ==
  ASSUME NEW f, NEW rest \in Seq(FrameType)
  PROVE  In(<<f>> \o rest) = In(rest) \cup {f}
<1> DEFINE S == FrameType \cup {f}
           st == <<f>> \o rest
<1>1. rest \in Seq(S) /\ <<f>> \in Seq(S) /\ Len(<<f>>) = 1 /\ <<f>>[1] = f
  OBVIOUS
<1>2. /\ st \in Seq(S) /\ Len(st) = 1 + Len(rest) /\ Len(rest) \in Nat
      /\ \A i \in 1..1 + Len(rest) : st[i] = IF i <= 1 THEN f ELSE rest[i - 1]
  BY <1>1, ConcatProperties, LenProperties
<1>3. DOMAIN st = 1..1 + Len(rest) /\ DOMAIN rest = 1..Len(rest)
  BY <1>1, <1>2, LenProperties
<1>4. \A g \in In(st) : g \in In(rest) \cup {f}
  BY <1>2, <1>3 DEF In
<1>5. \A g \in In(rest) : g \in In(st)
  <2>1. \A i \in DOMAIN rest : i + 1 \in DOMAIN st /\ st[i + 1] = rest[i]
    BY <1>2, <1>3
  <2> QED BY <2>1 DEF In
<1>6. f \in In(st)
  <2>1. 1 \in DOMAIN st /\ st[1] = f
    BY <1>2, <1>3
  <2> QED BY <2>1 DEF In
<1> QED BY <1>4, <1>5, <1>6

LEMMA PushType ==
  ASSUME NEW f \in FrameType, NEW rest \in Seq(FrameType)
  PROVE  <<f>> \o rest \in Seq(FrameType)
BY OneFrame, ConcatProperties

LEMMA Push ==
  ASSUME NEW f \in FrameType, NEW rest \in Seq(FrameType), Apart(rest),
         \A g \in In(rest) : ~Clash(f, g)
  PROVE  /\ <<f>> \o rest \in Seq(FrameType)
         /\ <<f>> \o rest # <<>>
         /\ Head(<<f>> \o rest) = f
         /\ In(<<f>> \o rest) = In(rest) \cup {f}
         /\ Apart(<<f>> \o rest)
<1> DEFINE st == <<f>> \o rest
<1>1. /\ st \in Seq(FrameType) /\ Len(st) = 1 + Len(rest) /\ Len(rest) \in Nat
      /\ \A i \in 1..1 + Len(rest) : st[i] = IF i <= 1 THEN f ELSE rest[i - 1]
  BY OneFrame, ConcatProperties, LenProperties
<1>2. DOMAIN st = 1..1 + Len(rest) /\ DOMAIN rest = 1..Len(rest)
  BY <1>1, LenProperties
<1>3. st[1] = f /\ \A i \in DOMAIN st \ {1} : i - 1 \in DOMAIN rest /\ st[i] = rest[i - 1]
  BY <1>1, <1>2
<1>4. st # <<>> /\ Head(st) = f
  BY <1>1, <1>3
<1>5. In(st) = In(rest) \cup {f}
  BY InPush
<1>6. Apart(st)
  <2> SUFFICES ASSUME NEW k \in DOMAIN st, NEW l \in DOMAIN st, k # l
               PROVE  ~Clash(st[k], st[l])
    BY DEF Apart
  <2>1. \A g \in In(rest) : ~Clash(g, f)
    BY DEF Clash
  <2>2. CASE k = 1 \/ l = 1
    BY <1>3, <2>1, <2>2 DEF In
  <2>3. CASE k # 1 /\ l # 1
    BY <1>1, <1>2, <1>3, <2>3 DEF Apart
  <2> QED BY <2>2, <2>3
<1> QED BY <1>1, <1>4, <1>5, <1>6

LEMMA Pop ==
  ASSUME NEW st \in Seq(FrameType), st # <<>>, Apart(st)
  PROVE  /\ Tail(st) \in Seq(FrameType)
         /\ Head(st) \in FrameType
         /\ In(st) = In(Tail(st)) \cup {Head(st)}
         /\ Apart(Tail(st))
         /\ \A g \in In(Tail(st)) : ~Clash(Head(st), g)
<1>1. /\ Tail(st) \in Seq(FrameType) /\ Head(st) \in FrameType
      /\ Len(Tail(st)) = Len(st) - 1 /\ Len(st) \in Nat \ {0}
      /\ \A i \in 1..Len(Tail(st)) : Tail(st)[i] = st[i + 1]
  BY HeadTailProperties, EmptySeq
<1>2. DOMAIN st = 1..Len(st) /\ DOMAIN Tail(st) = 1..Len(st) - 1
  BY <1>1, LenProperties
<1>3. Head(st) = st[1] /\ 1 \in DOMAIN st
  BY <1>1, <1>2
<1>4. \A i \in DOMAIN Tail(st) : i + 1 \in DOMAIN st \ {1} /\ Tail(st)[i] = st[i + 1]
  BY <1>1, <1>2
<1>5. \A i \in DOMAIN st \ {1} : i - 1 \in DOMAIN Tail(st) /\ st[i] = Tail(st)[i - 1]
  BY <1>1, <1>2
<1>6. In(st) = In(Tail(st)) \cup {Head(st)}
  <2>1. ASSUME NEW g \in In(st)
        PROVE  g \in In(Tail(st)) \cup {Head(st)}
    BY <1>3, <1>5 DEF In
  <2>2. ASSUME NEW g \in In(Tail(st))
        PROVE  g \in In(st)
    BY <1>4 DEF In
  <2> QED BY <1>3, <2>1, <2>2 DEF In
<1>7. Apart(Tail(st))
  BY <1>1, <1>2, <1>4 DEF Apart
<1>8. \A g \in In(Tail(st)) : ~Clash(Head(st), g)
  BY <1>3, <1>4 DEF In, Apart
<1> QED BY <1>1, <1>6, <1>7, <1>8

LEMMA FramesAreIn == Frames = In(stack) /\ Frames' = In(stack')
BY DEF Frames, In

(* A frame clashes with itself, so that it is on the stack once.           *)
LEMMA ClashSelf ==
  ASSUME NEW f \in FrameType
  PROVE  Clash(f, f)
BY DEF Clash, FrameType

-----------------------------------------------------------------------------
(* What the shared_ptrs will have.                                         *)

LEMMA StoresApart ==
  ASSUME NEW st, Apart(st)
  PROVE  \A f, g \in StoreFrames(st) : f.on = g.on => f = g
BY DEF Apart, StoreFrames, In, Clash

LEMMA WillIs ==
  ASSUME NEW S, \A f, g \in S : f.on = g.on => f = g, NEW a, NEW s
  PROVE  /\ \A f \in S : f.on = s => WillIn(S, a, s) = f.blk
         /\ (\A f \in S : f.on # s) => WillIn(S, a, s) = a[s]
BY DEF WillIn

LEMMA FiniteSlots == IsFiniteSet(Slots) /\ IsFiniteSet(Objects) /\ IsFiniteSet(WeakPtrs)
BY SharedFromThisAssumption, FS_Union DEF Slots

LEMMA OwnersAreWills ==
  ASSUME Structure, NEW b \in Blocks
  PROVE  Owners(b) = Count(Slots, Wills, b)
<1> DEFINE A == {s \in Slots \ Busy : sp[s] = b}
           B == {s \in Slots \cap Busy : Wills[s] = b}
           K == {k \in Stores : stack[k].blk = b}
<1>1. /\ stack \in Seq(FrameType) /\ Apart(stack) /\ DOMAIN stack = 1..Len(stack) /\ Len(stack) \in Nat
      /\ \A k \in DOMAIN stack : stack[k] \in FrameType
  BY LenProperties, ElementOfSeq DEF Structure, Good
<1>2. \A k \in Stores : stack[k].on \in Slots /\ Wills[stack[k].on] = stack[k].blk
  <2> SUFFICES ASSUME NEW k \in Stores
               PROVE  stack[k].on \in Slots /\ Wills[stack[k].on] = stack[k].blk
    OBVIOUS
  <2>1. stack[k] \in StoreFrames(stack) /\ stack[k].on \in Slots
    BY <1>1 DEF Stores, StoreFrames, In, FrameType
  <2> QED BY <1>1, <2>1, StoresApart, WillIs DEF Wills
<1>3. \A s \in Slots \ Busy : Wills[s] = sp[s]
  <2> SUFFICES ASSUME NEW s \in Slots \ Busy
               PROVE  Wills[s] = sp[s]
    OBVIOUS
  <2>1. \A f \in StoreFrames(stack) : f.on # s
    BY DEF Busy, Stores, StoreFrames, In
  <2> QED BY <1>1, <2>1, StoresApart, WillIs DEF Wills
<1>4. {u \in Slots : Wills[u] = b} = A \cup B /\ A \cap B = {}
  BY <1>3
<1>5. IsFiniteSet(A) /\ IsFiniteSet(B)
  <2>1. A \in SUBSET Slots /\ B \in SUBSET Slots
    OBVIOUS
  <2> QED BY <2>1, FiniteSlots, FS_Subset
<1>6. Count(Slots, Wills, b) = Cardinality(A) + Cardinality(B)
  <2>1. Count(Slots, Wills, b) = Cardinality(A \cup B)
    BY <1>4 DEF Count
  <2> HIDE DEF A, B
  <2>2. Cardinality(A \cup B) = Cardinality(A) + Cardinality(B) - Cardinality(A \cap B)
    BY <1>5, FS_Union
  <2>3. Cardinality(A) \in Nat /\ Cardinality(B) \in Nat
    BY <1>5, FS_CardinalityType
  <2>4. Cardinality(A \cap B) = 0
    <3>1. A \cap B = {}
      BY <1>4
    <3> QED BY <3>1, FS_EmptySet, Zenon
  <2> QED BY <2>1, <2>2, <2>3, <2>4
<1>7. Cardinality(K) = Cardinality(B)
  <2> DEFINE F == [k \in K |-> stack[k].on]
  <2>1. IsFiniteSet(K)
    <3>1. K \in SUBSET (1..Len(stack))
      BY <1>1 DEF Stores
    <3>2. IsFiniteSet(1..Len(stack))
      BY <1>1, FS_Interval
    <3> HIDE DEF K
    <3> QED BY <3>1, <3>2, FS_Subset
  <2>2. F \in [K -> B]
    <3> SUFFICES ASSUME NEW k \in K PROVE stack[k].on \in B
      OBVIOUS
    <3> QED BY <1>2 DEF Busy
  <2>3. \A k, l \in K : F[k] = F[l] => k = l
    BY <1>1 DEF Apart, Clash, Stores
  <2>4. \A s \in B : \E k \in K : F[k] = s
    <3> SUFFICES ASSUME NEW s \in B PROVE \E k \in K : F[k] = s
      OBVIOUS
    <3>1. PICK k \in Stores : stack[k].on = s
      BY DEF Busy
    <3> QED BY <1>2, <3>1
  <2> HIDE DEF F, K, B
  <2>5. F \in Bijection(K, B)
    BY <2>2, <2>3, <2>4, Fun_IsBij
  <2> QED BY <2>1, <2>5, FS_Bijection DEF ExistsBijection
<1> QED BY <1>6, <1>7 DEF Owners

-----------------------------------------------------------------------------
(* Counting.                                                               *)

LEMMA CountType ==
  ASSUME NEW S, IsFiniteSet(S), NEW f, NEW b
  PROVE  /\ Count(S, f, b) \in Nat
         /\ \A u \in S : f[u] = b => Count(S, f, b) > 0
<1> DEFINE F == {u \in S : f[u] = b}
<1>1. IsFiniteSet(F)
  BY FS_Subset
<1>2. Cardinality(F) \in Nat /\ (Cardinality(F) = 0 <=> F = {})
  BY <1>1, FS_CardinalityType, FS_EmptySet
<1>3. \A u \in S : f[u] = b => F # {}
  OBVIOUS
<1> HIDE DEF F
<1>4. Count(S, f, b) = Cardinality(F)
  BY DEF Count, F
<1> QED BY <1>2, <1>3, <1>4

LEMMA CountWrite ==
  ASSUME NEW S, IsFiniteSet(S), NEW f, NEW g, NEW b, NEW s \in S,
         \A u \in S \ {s} : g[u] = f[u]
  PROVE  Count(S, g, b) = Count(S, f, b) - Is(f[s], b) + Is(g[s], b)
<1> DEFINE F == {u \in S : f[u] = b}
           G == {u \in S : g[u] = b}
<1>1. IsFiniteSet(F) /\ IsFiniteSet(G) /\ Cardinality(F) \in Nat /\ Cardinality(G) \in Nat
  BY FS_Subset, FS_CardinalityType
<1>2. Count(S, f, b) = Cardinality(F) /\ Count(S, g, b) = Cardinality(G)
  BY DEF Count
<1>3. /\ f[s] = b /\ g[s] = b => G = F
      /\ f[s] # b /\ g[s] # b => G = F
      /\ f[s] # b /\ g[s] = b => G = F \cup {s} /\ s \notin F
      /\ f[s] = b /\ g[s] # b => G = F \ {s} /\ s \in F
  OBVIOUS
<1> HIDE DEF F, G
<1>4. /\ f[s] # b /\ g[s] = b => Cardinality(G) = Cardinality(F) + 1
      /\ f[s] = b /\ g[s] # b => Cardinality(G) = Cardinality(F) - 1
  BY <1>1, <1>3, FS_AddElement, FS_RemoveElement
<1> QED BY <1>1, <1>2, <1>3, <1>4 DEF Is

LEMMA CountSame ==
  ASSUME NEW S, NEW f, NEW g, NEW b, \A u \in S : g[u] = f[u]
  PROVE  Count(S, g, b) = Count(S, f, b)
<1>1. {u \in S : g[u] = b} = {u \in S : f[u] = b}
  OBVIOUS
<1> QED BY <1>1 DEF Count

-----------------------------------------------------------------------------
(* What the invariant says of the properties.                              *)

LEMMA InvariantIsExact == IInv => CountsExact
<1> SUFFICES ASSUME IInv, ~trapped, NEW b \in Blocks
             PROVE  /\ use[b] = Owners(b)
                    /\ weak[b] = Watchers(b) + (IF use[b] > 0 \/ Ending(b) THEN 1 ELSE 0)
  BY DEF IInv, Core, Structure, CountsExact
<1>1. use[b] = Owners(b)
  BY OwnersAreWills DEF IInv, Core, UseOK
<1>2. Watchers(b) = Count(Objects, weakThis, b) + Count(WeakPtrs, wp, b)
  BY DEF Watchers, Count
<1> QED BY <1>1, <1>2 DEF IInv, Core, WeakOK, Held

(* A block that is held is there.                                          *)
LEMMA HeldExists ==
  ASSUME WeakOK, NEW b \in Blocks, use[b] > 0 \/ Ending(b)
  PROVE  weak[b] > 0
<1>1. Count(Objects, weakThis, b) \in Nat /\ Count(WeakPtrs, wp, b) \in Nat
  BY FiniteSlots, CountType
<1> QED BY <1>1 DEF WeakOK, Held

LEMMA InvariantEndsOnce == IInv => EndsOnce
<1> SUFFICES ASSUME IInv, NEW k \in DOMAIN stack, NEW l \in DOMAIN stack
             PROVE  /\ stack[k].at \in {"body", "weak"} => trapped \/ weak[stack[k].blk] > 0
                    /\ k # l /\ stack[k].at = stack[l].at /\ stack[k].at # "store" =>
                         IF stack[k].at \in {"body", "weak"} THEN stack[k].blk # stack[l].blk
                         ELSE stack[k].on # stack[l].on
  BY DEF EndsOnce
<1>1. stack[k] \in FrameType /\ stack[k] \in Frames
  BY LenProperties, ElementOfSeq DEF IInv, Core, Structure, Good, Frames
<1>2. k # l => ~Clash(stack[k], stack[l])
  BY DEF IInv, Core, Structure, Good, Apart
<1>3. ASSUME stack[k].at \in {"body", "weak"}, ~trapped
      PROVE  weak[stack[k].blk] > 0
  <2>1. stack[k].blk \in Blocks /\ Ending(stack[k].blk)
    BY <1>1, <1>3, FramesAreIn DEF IInv, Core, Structure, Good, FramesOK, Ending
  <2> QED BY <1>3, <2>1, HeldExists DEF IInv, Core
<1> QED BY <1>1, <1>2, <1>3 DEF Clash, FrameType

(* What a shared_ptr has, or will have, is counted.                        *)
LEMMA WillsAreCounted ==
  ASSUME Core, ~trapped, NEW s \in Slots, NEW b \in Blocks, Wills[s] = b
  PROVE  use[b] > 0
BY CountType, FiniteSlots DEF Core, UseOK

LEMMA InvariantOwnersSee == IInv => OwnersSeeObject
<1> SUFFICES ASSUME IInv, ~trapped, NEW s \in Slots \ Busy, sp[s] # NoBlock
             PROVE  ~Ending(sp[s]) /\ (owns[sp[s]] => life[obj[sp[s]]] = "alive")
  BY DEF OwnersSeeObject
<1>1. sp[s] \in Blocks
  BY DEF IInv, Core, Structure, TypeOK, BlocksOrNo
<1>2. Wills[s] = sp[s]
  <2>1. \A f \in StoreFrames(stack) : f.on # s
    BY DEF Busy, Stores, StoreFrames, In
  <2> QED BY <2>1 DEF Wills, WillIn
<1>3. use[sp[s]] > 0
  BY <1>1, <1>2, WillsAreCounted DEF IInv
<1>4. use[sp[s]] # 0 /\ Living(stack, use, sp[s])
  BY <1>3 DEF Living
<1> QED
  BY <1>1, <1>4, FramesAreIn DEF IInv, Core, Structure, Good, FramesOK, LivingOK, Ending

-----------------------------------------------------------------------------
(* How the frames may change.                                              *)

(* A frame on st covers no member that is about to be ended.               *)
Covers(st) == \A f \in In(st) : f.at # "member"

LEMMA CallingCovers ==
  ASSUME Structure, Calling
  PROVE  Covers(stack)
<1> SUFFICES ASSUME NEW f \in In(stack), f.at = "member"
             PROVE  FALSE
  BY DEF Covers
<1>1. stack # <<>> /\ f = Head(stack)
  BY DEF In, Structure, Good, FramesOK
<1> QED BY <1>1 DEF Calling

LEMMA PopGood ==
  ASSUME NEW st, st # <<>>, NEW u, NEW ob, NEW ow, NEW li, Good(st, u, ob, ow, li)
  PROVE  Good(Tail(st), u, ob, ow, li) /\ Covers(Tail(st))
<1>1. /\ Tail(st) \in Seq(FrameType) /\ Head(st) \in FrameType /\ Apart(Tail(st))
      /\ In(st) = In(Tail(st)) \cup {Head(st)}
      /\ \A g \in In(Tail(st)) : ~Clash(Head(st), g)
  BY Pop DEF Good
<1>2. Head(st) \notin In(Tail(st))
  BY <1>1, ClashSelf
<1>3. Covers(Tail(st))
  BY <1>1, <1>2 DEF Covers, Good, FramesOK
<1>4. FramesOK(Tail(st), u, ob, li)
  BY <1>1, <1>3 DEF Good, FramesOK, Covers
<1>5. /\ \A b : Living(Tail(st), u, b) => Living(st, u, b)
      /\ \A o : Destructing(Tail(st), o) => Destructing(st, o)
  BY <1>1 DEF Living, Destructing
<1>6. LivingOK(Tail(st), u, ob, ow, li) /\ SoleOwner(Tail(st), u, ob, ow)
  BY <1>5 DEF Good, LivingOK, SoleOwner
<1> QED BY <1>1, <1>3, <1>4, <1>6 DEF Good

(* What a release of b leaves as it was.                                   *)
Released(st2, u2, st, u, b) ==
  /\ StoreFrames(st2) = StoreFrames(st)
  /\ \A c \in Blocks : Living(st2, u2, c) <=> Living(st, u, c)
  /\ \A f \in In(st2) : f \in In(st) \/ (f.at = "body" /\ f.blk = b)
  /\ In(st) \subseteq In(st2)

(* A release, of a count that is not zero.                                 *)
LEMMA ReleaseGood ==
  ASSUME NEW st, NEW u \in [Blocks -> Nat], NEW ob, NEW ow, NEW li,
         Good(st, u, ob, ow, li), NEW b \in Blocks, u[b] > 0, u[b] = 1 => Covers(st),
         NEW u2, u2 = Dec(u, b),
         NEW st2, st2 = IF u[b] = 1 THEN <<Frame("body", ob[b], b)>> \o st ELSE st
  PROVE  Good(st2, u2, ob, ow, li) /\ Released(st2, u2, st, u, b)
<1> DEFINE f0 == Frame("body", ob[b], b)
<1>1. u2 = [u EXCEPT ![b] = @ - 1] /\ u2 \in [Blocks -> Nat]
  BY SharedFromThisAssumption DEF Dec
<1>2. Living(st, u, b) /\ ob[b] \in Objects
  BY DEF Living, Good, LivingOK
<1>3. f0 \in FrameType /\ f0.at = "body" /\ f0.blk = b /\ f0.on = ob[b]
  BY <1>2 DEF Frame, FrameType, Slots, BlocksOrNo
<1>4. \A g \in In(st) : ~Clash(f0, g)
  BY <1>3 DEF Clash, Good, FramesOK
<1>5. CASE u[b] = 1
  <2>1. /\ st2 \in Seq(FrameType) /\ Apart(st2) /\ Head(st2) = f0
        /\ In(st2) = In(st) \cup {f0}
    BY <1>3, <1>4, <1>5, Push DEF Good
  <2> HIDE DEF f0
  <2>2. FramesOK(st2, u2, ob, li)
    BY <1>1, <1>3, <1>5, <2>1 DEF Good, FramesOK, Covers
  <2>3. \A c \in Blocks : Living(st2, u2, c) <=> Living(st, u, c)
    BY <1>1, <1>2, <1>3, <1>5, <2>1 DEF Living
  <2>4. \A o : Destructing(st2, o) <=> Destructing(st, o)
    BY <1>3, <2>1 DEF Destructing
  <2>5. LivingOK(st2, u2, ob, ow, li) /\ SoleOwner(st2, u2, ob, ow)
    BY <2>3, <2>4 DEF Good, LivingOK, SoleOwner
  <2>6. StoreFrames(st2) = StoreFrames(st)
    BY <1>3, <2>1 DEF StoreFrames
  <2> QED BY <1>3, <2>1, <2>2, <2>3, <2>5, <2>6 DEF Good, Released
<1>6. CASE u[b] # 1
  <2>1. st2 = st
    BY <1>6
  <2>2. \A c \in Blocks : u2[c] > 0 <=> u[c] > 0
    BY <1>1, <1>6
  <2>3. \A c \in Blocks : u[c] = 0 => u2[c] = 0
    BY <1>1
  <2>4. \A c \in Blocks : Living(st2, u2, c) <=> Living(st, u, c)
    BY <2>1, <2>2 DEF Living
  <2>5. Good(st2, u2, ob, ow, li)
    BY <2>1, <2>3, <2>4 DEF Good, FramesOK, LivingOK, SoleOwner
  <2> QED BY <2>1, <2>4, <2>5 DEF Released
<1> QED BY <1>5, <1>6

(* A store is pending, into a shared_ptr that no other one is for.         *)
LEMMA StoreGood ==
  ASSUME NEW st, NEW u, NEW ob, NEW ow, NEW li, Good(st, u, ob, ow, li), Covers(st),
         NEW s \in Slots, NEW b \in BlocksOrNo, \A f \in StoreFrames(st) : f.on # s
  PROVE  /\ Good(<<Frame("store", s, b)>> \o st, u, ob, ow, li)
         /\ Covers(<<Frame("store", s, b)>> \o st)
         /\ In(<<Frame("store", s, b)>> \o st) = In(st) \cup {Frame("store", s, b)}
<1> DEFINE f0 == Frame("store", s, b)
           st2 == <<f0>> \o st
<1>1. f0 \in FrameType /\ f0.at = "store" /\ f0.on = s
  BY DEF Frame, FrameType
<1>2. \A g \in In(st) : ~Clash(f0, g)
  BY <1>1 DEF Clash, StoreFrames
<1>3. /\ st2 \in Seq(FrameType) /\ Apart(st2) /\ Head(st2) = f0
      /\ In(st2) = In(st) \cup {f0}
  BY <1>1, <1>2, Push DEF Good
<1> HIDE DEF f0, st2
<1>4. FramesOK(st2, u, ob, li)
  BY <1>1, <1>3 DEF Good, FramesOK, Covers
<1>5. /\ \A c \in Blocks : Living(st2, u, c) <=> Living(st, u, c)
      /\ \A o : Destructing(st2, o) <=> Destructing(st, o)
  BY <1>1, <1>3 DEF Living, Destructing
<1>6. LivingOK(st2, u, ob, ow, li) /\ SoleOwner(st2, u, ob, ow)
  BY <1>5 DEF Good, LivingOK, SoleOwner
<1>7. Covers(st2)
  BY <1>1, <1>3 DEF Covers
<1> QED BY <1>3, <1>4, <1>6, <1>7 DEF Good, f0, st2

(* The block goes on to end: its weak reference is left to give back.      *)
LEMMA WeakGood ==
  ASSUME NEW st, NEW u, NEW ob, NEW ow, NEW li, Good(st, u, ob, ow, li), Covers(st),
         NEW o \in Slots, NEW b \in Blocks, u[b] = 0,
         \A f \in In(st) : f.at \in {"body", "weak"} => f.blk # b
  PROVE  /\ Good(<<Frame("weak", o, b)>> \o st, u, ob, ow, li)
         /\ Covers(<<Frame("weak", o, b)>> \o st)
         /\ In(<<Frame("weak", o, b)>> \o st) = In(st) \cup {Frame("weak", o, b)}
<1> DEFINE f0 == Frame("weak", o, b)
           st2 == <<f0>> \o st
<1>1. f0 \in FrameType /\ f0.at = "weak" /\ f0.blk = b
  BY DEF Frame, FrameType, BlocksOrNo
<1>2. \A g \in In(st) : ~Clash(f0, g)
  BY <1>1 DEF Clash
<1>3. /\ st2 \in Seq(FrameType) /\ Apart(st2) /\ Head(st2) = f0
      /\ In(st2) = In(st) \cup {f0}
  BY <1>1, <1>2, Push DEF Good
<1> HIDE DEF f0, st2
<1>4. FramesOK(st2, u, ob, li)
  BY <1>1, <1>3 DEF Good, FramesOK, Covers
<1>5. /\ \A c \in Blocks : Living(st2, u, c) <=> Living(st, u, c)
      /\ \A a : Destructing(st2, a) <=> Destructing(st, a)
  BY <1>1, <1>3 DEF Living, Destructing
<1>6. LivingOK(st2, u, ob, ow, li) /\ SoleOwner(st2, u, ob, ow)
  BY <1>5 DEF Good, LivingOK, SoleOwner
<1>7. Covers(st2)
  BY <1>1, <1>3 DEF Covers
<1> QED BY <1>3, <1>4, <1>6, <1>7 DEF Good, f0, st2

(* No living block deletes o.                                              *)
MayDelete(st, u, ob, ow, li, o) ==
  /\ li[o] = "alive" /\ ~Destructing(st, o)
  /\ \A c \in Blocks : Living(st, u, c) /\ ow[c] => ob[c] # o

(* The destructor of an object that no living block deletes.               *)
LEMMA DestructorGood ==
  ASSUME NEW st, NEW u, NEW ob, NEW ow, NEW li, Good(st, u, ob, ow, li), Covers(st),
         NEW o \in Objects, MayDelete(st, u, ob, ow, li, o)
  PROVE  /\ Good(Destructor(o) \o st, u, ob, ow, li)
         /\ In(Destructor(o) \o st) =
              In(st) \cup {Frame("member", o, NoBlock), Frame("base", o, NoBlock)}
<1> DEFINE m == Frame("member", o, NoBlock)
           f0 == Frame("base", o, NoBlock)
           st1 == <<f0>> \o st
           st2 == <<m>> \o st1
<1>1. /\ f0 \in FrameType /\ f0.at = "base" /\ f0.on = o
      /\ m \in FrameType /\ m.at = "member" /\ m.on = o
  BY DEF Frame, FrameType, Slots, BlocksOrNo
<1>2. \A g \in In(st) : ~Clash(f0, g) /\ ~Clash(m, g)
  BY <1>1 DEF Clash, Destructing, MayDelete
<1>3. /\ st1 \in Seq(FrameType) /\ Apart(st1)
      /\ In(st1) = In(st) \cup {f0}
  BY <1>1, <1>2, Push DEF Good
<1>4. \A g \in In(st1) : ~Clash(m, g)
  BY <1>1, <1>2, <1>3 DEF Clash
<1>5. /\ st2 \in Seq(FrameType) /\ Apart(st2) /\ Head(st2) = m
      /\ In(st2) = In(st1) \cup {m}
  BY <1>1, <1>3, <1>4, Push
<1>6. Destructor(o) \o st = st2
  <2>1. <<m>> \in Seq(FrameType) /\ <<f0>> \in Seq(FrameType)
    BY <1>1
  <2>2. <<m>> \o (<<f0>> \o st) = (<<m>> \o <<f0>>) \o st
    BY <2>1, ConcatAssociative DEF Good
  <2>3. Destructor(o) = <<m>> \o <<f0>>
    BY DEF Destructor
  <2> QED BY <2>2, <2>3
<1> HIDE DEF m, f0, st1, st2
<1>7. FramesOK(st2, u, ob, li)
  BY <1>1, <1>3, <1>5 DEF Good, FramesOK, Covers, MayDelete
<1>8. /\ \A c \in Blocks : Living(st2, u, c) <=> Living(st, u, c)
      /\ \A a : Destructing(st2, a) <=> a = o \/ Destructing(st, a)
  BY <1>1, <1>3, <1>5 DEF Living, Destructing
<1>9. LivingOK(st2, u, ob, ow, li) /\ SoleOwner(st2, u, ob, ow)
  BY <1>8 DEF Good, LivingOK, SoleOwner, MayDelete
<1> QED BY <1>3, <1>5, <1>6, <1>7, <1>9 DEF Good, m, f0

-----------------------------------------------------------------------------
(* How counts, blocks and objects may change under the frames.             *)

(* A count of a living block grows.                                        *)
LEMMA UseGood ==
  ASSUME NEW st, NEW u \in [Blocks -> Nat], NEW v \in [Blocks -> Nat],
         NEW ob, NEW ow, NEW li, Good(st, u, ob, ow, li),
         \A b \in Blocks : v[b] > 0 => u[b] > 0
  PROVE  Good(st, v, ob, ow, li)
<1>1. \A b \in Blocks : u[b] = 0 => v[b] = 0
  OBVIOUS
<1>2. \A b \in Blocks : Living(st, v, b) => Living(st, u, b)
  BY DEF Living
<1> QED BY <1>1, <1>2 DEF Good, FramesOK, LivingOK, SoleOwner

(* A block that is no longer living is freed.                              *)
LEMMA FreeGood ==
  ASSUME NEW st, NEW u, NEW ob, NEW ow, NEW li, Good(st, u, ob, ow, li), NEW ob2, NEW ow2,
         \A b \in Blocks : Living(st, u, b) => ob2[b] = ob[b] /\ (ow2[b] <=> ow[b])
  PROVE  Good(st, u, ob2, ow2, li)
<1>1. FramesOK(st, u, ob2, li)
  BY DEF Good, FramesOK, Living
<1> QED BY <1>1 DEF Good, LivingOK, SoleOwner

(* An object that no living block deletes changes its life.                *)
LEMMA LifeGood ==
  ASSUME NEW st, NEW u, NEW ob, NEW ow, NEW li, Good(st, u, ob, ow, li), NEW li2, NEW o,
         \A a \in Objects \ {o} : li2[a] = li[a],
         \A b \in Blocks : Living(st, u, b) /\ ow[b] => ob[b] # o,
         li2[o] = "none" => ~Destructing(st, o)
  PROVE  Good(st, u, ob, ow, li2)
<1>1. FramesOK(st, u, ob, li2)
  BY DEF Good, FramesOK, Destructing
<1> QED BY <1>1 DEF Good, LivingOK

(* A new block for an object, which the block may be the one to delete.    *)
LEMMA NewGood ==
  ASSUME NEW st, NEW u \in [Blocks -> Nat], NEW ob, NEW ow, NEW li, Good(st, u, ob, ow, li),
         NEW b \in Blocks, NEW o \in Objects, NEW v, NEW ob2, NEW ow2,
         \A f \in In(st) : f.at \in {"body", "weak"} => f.blk # b,
         v[b] = 1, \A c \in Blocks \ {b} : v[c] = u[c], ob2[b] = o,
         \A c \in Blocks \ {b} : Living(st, u, c) => ob2[c] = ob[c] /\ (ow2[c] <=> ow[c]),
         ow2[b] => MayDelete(st, u, ob, ow, li, o)
  PROVE  Good(st, v, ob2, ow2, li)
<1>1. \A c \in Blocks \ {b} : Living(st, v, c) <=> Living(st, u, c)
  BY DEF Living
<1>2. FramesOK(st, v, ob2, li)
  BY DEF Good, FramesOK, Living
<1>3. LivingOK(st, v, ob2, ow2, li)
  BY <1>1 DEF Good, LivingOK, MayDelete
<1>4. SoleOwner(st, v, ob2, ow2)
  BY <1>1 DEF Good, SoleOwner, MayDelete
<1> QED BY <1>2, <1>3, <1>4 DEF Good

-----------------------------------------------------------------------------
(* The ledgers: what changes in the counts, and who counts.                *)

HeldBy(st, u, b) ==
  u[b] > 0 \/ \E f \in In(st) : f.at \in {"body", "weak"} /\ f.blk = b

LEMMA HeldIs ==
  ASSUME NEW b
  PROVE  /\ Held(b) = IF HeldBy(stack, use, b) THEN 1 ELSE 0
         /\ Held(b)' = IF HeldBy(stack', use', b) THEN 1 ELSE 0
BY FramesAreIn DEF Held, HeldBy, Ending

(* A count after one of those that counted b had x, and has y now.         *)
After(n, x, y, b) == n - Is(x, b) + Is(y, b)

LEMMA SlotWrite ==
  ASSUME NEW f, NEW g, NEW s \in Slots, \A x \in Slots \ {s} : g[x] = f[x], NEW b
  PROVE  Count(Slots, g, b) = After(Count(Slots, f, b), f[s], g[s], b)
BY FiniteSlots, CountWrite DEF After

LEMMA ObjectWrite ==
  ASSUME NEW f, NEW g, NEW o \in Objects, \A a \in Objects \ {o} : g[a] = f[a], NEW b
  PROVE  Count(Objects, g, b) = After(Count(Objects, f, b), f[o], g[o], b)
BY FiniteSlots, CountWrite DEF After

LEMMA UseLedger ==
  ASSUME UseOK, NEW s \in Slots, \A x \in Slots \ {s} : Wills'[x] = Wills[x],
         \A b \in Blocks : use'[b] = use[b] - Is(Wills[s], b) + Is(Wills'[s], b)
  PROVE  UseOK'
<1> SUFFICES ASSUME NEW b \in Blocks
             PROVE  use'[b] = Count(Slots, Wills', b)
  BY DEF UseOK
<1>1. Count(Slots, Wills', b) = After(Count(Slots, Wills, b), Wills[s], Wills'[s], b)
  BY SlotWrite
<1> QED BY <1>1 DEF UseOK, After

LEMMA UseStays ==
  ASSUME UseOK, \A x \in Slots : Wills'[x] = Wills[x], use' = use
  PROVE  UseOK'
BY CountSame DEF UseOK

LEMMA WeakThisWrite ==
  ASSUME NEW o \in Objects, NEW b
  PROVE  (\A a \in Objects \ {o} : weakThis'[a] = weakThis[a]) =>
           Count(Objects, weakThis', b) =
             After(Count(Objects, weakThis, b), weakThis[o], weakThis'[o], b)
BY ObjectWrite

LEMMA WeakLedger ==
  ASSUME WeakOK, wp' = wp,
         NEW o \in Objects, \A a \in Objects \ {o} : weakThis'[a] = weakThis[a],
         \A b \in Blocks :
           weak'[b] = weak[b] - Is(weakThis[o], b) + Is(weakThis'[o], b) - Held(b) + Held(b)'
  PROVE  WeakOK'
<1> SUFFICES ASSUME NEW b \in Blocks
             PROVE  weak'[b] = Count(Objects, weakThis', b) + Count(WeakPtrs, wp, b) + Held(b)'
  BY DEF WeakOK
<1>1. Count(Objects, weakThis', b) =
        After(Count(Objects, weakThis, b), weakThis[o], weakThis'[o], b)
  BY WeakThisWrite
<1>2. Count(Objects, weakThis, b) \in Nat /\ Count(WeakPtrs, wp, b) \in Nat
  BY FiniteSlots, CountType
<1>3. \A x, y : Is(x, y) \in Nat
  BY DEF Is
<1>4. Held(b) \in Nat /\ Held(b)' \in Nat
  BY DEF Held
<1> QED BY <1>1, <1>2, <1>3, <1>4 DEF WeakOK, After

LEMMA WeakLedgerOutside ==
  ASSUME WeakOK, weakThis' = weakThis, wp' = wp,
         \A b \in Blocks : weak'[b] = weak[b] - Held(b) + Held(b)'
  PROVE  WeakOK'
<1> SUFFICES ASSUME NEW b \in Blocks
             PROVE  weak'[b] = Count(Objects, weakThis, b) + Count(WeakPtrs, wp, b) + Held(b)'
  BY DEF WeakOK
<1>1. Count(Objects, weakThis, b) \in Nat /\ Count(WeakPtrs, wp, b) \in Nat
  BY FiniteSlots, CountType
<1>2. Held(b) \in Nat /\ Held(b)' \in Nat
  BY DEF Held
<1> QED BY <1>1, <1>2 DEF WeakOK

(* A weak_ptr of the client is changed, and nothing else that counts.      *)
LEMMA WeakPtrLedger ==
  ASSUME WeakOK, weakThis' = weakThis, use' = use, stack' = stack,
         NEW w \in WeakPtrs, \A v \in WeakPtrs \ {w} : wp'[v] = wp[v],
         \A b \in Blocks : weak'[b] = weak[b] - Is(wp[w], b) + Is(wp'[w], b)
  PROVE  WeakOK'
<1> SUFFICES ASSUME NEW b \in Blocks
             PROVE  weak'[b] = Count(Objects, weakThis, b) + Count(WeakPtrs, wp', b) + Held(b)'
  BY DEF WeakOK
<1>1. Count(WeakPtrs, wp', b) = After(Count(WeakPtrs, wp, b), wp[w], wp'[w], b)
  BY FiniteSlots, CountWrite DEF After
<1>2. Count(Objects, weakThis, b) \in Nat /\ Count(WeakPtrs, wp, b) \in Nat
  BY FiniteSlots, CountType
<1>3. \A x, y : Is(x, y) \in Nat
  BY DEF Is
<1>4. Held(b) \in Nat /\ Held(b)' = Held(b)
  BY HeldIs DEF Held
<1> QED BY <1>1, <1>2, <1>3, <1>4 DEF WeakOK, After

LEMMA WeakStays ==
  ASSUME WeakOK, TypeOK, weakThis' = weakThis, wp' = wp, weak' = weak,
         \A b \in Blocks : HeldBy(stack', use', b) <=> HeldBy(stack, use, b)
  PROVE  WeakOK'
<1>1. \A b \in Blocks : Held(b)' = Held(b)
  BY HeldIs
<1>2. \A b \in Blocks : Held(b) \in Nat /\ weak[b] \in Nat
  BY DEF Held, TypeOK
<1> QED BY <1>1, <1>2, WeakLedgerOutside

-----------------------------------------------------------------------------
(* What is left of the types is in the structure.                          *)

SimpleTypes ==
  /\ life \in [Objects -> {"none", "alive", "ending"}]
  /\ weakThis \in [Objects -> BlocksOrNo]
  /\ obj \in [Blocks -> Objects \cup {NoObject}] /\ owns \in [Blocks -> BOOLEAN]
  /\ use \in [Blocks -> 0..MaxUse]
  /\ weak \in [Blocks -> Int] /\ \A b \in Blocks : weak[b] <= MaxWeak
  /\ sp \in [Slots -> BlocksOrNo] /\ wp \in [WeakPtrs -> BlocksOrNo]
  /\ trapped \in BOOLEAN

LEMMA EnoughStructure ==
  ASSUME SimpleTypes', Good(stack, use, obj, owns, life)', NoneIsUnwatched',
         weak' \in [Blocks -> Nat]
  PROVE  Structure'
<1>1. \A f \in Frames' : f \in FrameType
  BY LenProperties, ElementOfSeq DEF Good, Frames
<1>2. weak' \in [Blocks -> 0..MaxWeak]
  BY SharedFromThisAssumption DEF SimpleTypes
<1> QED BY <1>1, <1>2 DEF Structure, SimpleTypes, TypeOK, FrameType

(* A block is there while it is held.                                      *)
LEMMA HeldLasts ==
  ASSUME WeakOK'
  PROVE  \A b \in Blocks : weak'[b] \in Nat /\ (HeldBy(stack', use', b) => weak'[b] # 0)
<1> SUFFICES ASSUME NEW b \in Blocks
             PROVE  weak'[b] \in Nat /\ (HeldBy(stack', use', b) => weak'[b] # 0)
  OBVIOUS
<1>1. Count(Objects, weakThis', b) \in Nat /\ Count(WeakPtrs, wp', b) \in Nat
  BY FiniteSlots, CountType
<1>2. Held(b)' \in Nat
  BY DEF Held
<1>3. HeldBy(stack', use', b) => Held(b)' = 1
  BY HeldIs
<1>4. weak'[b] = Count(Objects, weakThis', b) + Count(WeakPtrs, wp', b) + Held(b)'
  BY DEF WeakOK
<1> QED BY <1>1, <1>2, <1>3, <1>4

LEMMA Enough ==
  ASSUME SimpleTypes', Good(stack, use, obj, owns, life)', NoneIsUnwatched', UseOK', WeakOK'
  PROVE  Core'
<1>1. \A b \in Blocks : weak'[b] \in Nat /\ (HeldBy(stack', use', b) => weak'[b] > 0)
  BY HeldLasts
<1>2. weak' \in [Blocks -> Nat]
  BY <1>1 DEF SimpleTypes
<1> QED BY <1>2, EnoughStructure DEF Core

LEMMA TypesHold ==
  ASSUME TypeOK
  PROVE  SimpleTypes
<1>1. weak \in [Blocks -> Int] /\ \A b \in Blocks : weak[b] <= MaxWeak
  BY SharedFromThisAssumption DEF TypeOK
<1> QED BY <1>1 DEF TypeOK, SimpleTypes

-----------------------------------------------------------------------------
(* What a step does to the ledgers through the frames.                     *)

LEMMA UsableIs ==
  ASSUME NEW s \in Slots, Usable(s)
  PROVE  /\ \A f \in StoreFrames(stack) : f.on # s
         /\ Wills[s] = sp[s]
         /\ s \in Objects => life[s] = "alive"
<1>1. \A f \in StoreFrames(stack) : f.on # s
  BY DEF Usable, Awaits, StoreFrames, In
<1> QED BY <1>1 DEF Usable, Wills, WillIn

LEMMA WillsAre ==
  /\ \A x \in Slots : Wills[x] = WillIn(StoreFrames(stack), sp, x)
  /\ \A x \in Slots : Wills'[x] = WillIn(StoreFrames(stack'), sp', x)
BY DEF Wills

(* No pending store is added or done, and one shared_ptr is changed.       *)
LEMMA WillWrite ==
  ASSUME NEW s \in Slots, StoreFrames(stack') = StoreFrames(stack),
         \A x \in Slots \ {s} : sp'[x] = sp[x]
  PROVE  /\ \A x \in Slots \ {s} : Wills'[x] = Wills[x]
         /\ (\A f \in StoreFrames(stack) : f.on # s) => Wills'[s] = sp'[s]
BY WillsAre DEF WillIn

LEMMA WillsStay ==
  ASSUME StoreFrames(stack') = StoreFrames(stack), sp' = sp
  PROVE  \A x \in Slots : Wills'[x] = Wills[x]
BY WillsAre DEF WillIn

(* A release of b, use being u before it; st are the frames below.         *)
LEMMA ReleaseStep ==
  ASSUME NEW st, NEW u \in [Blocks -> Nat], NEW li, NEW b \in BlocksOrNo,
         Good(st, u, obj, owns, li), b # NoBlock => u[b] > 0,
         b # NoBlock /\ u[b] = 1 => Covers(st), Release(u, b, st)
  PROVE  /\ Good(stack', use', obj, owns, li)
         /\ use' \in [Blocks -> Nat]
         /\ \A c \in Blocks : use'[c] = u[c] - Is(b, c)
         /\ StoreFrames(stack') = StoreFrames(st)
         /\ \A c \in Blocks : HeldBy(stack', use', c) <=> HeldBy(st, u, c)
         /\ \A c \in Blocks : Living(stack', use', c) <=> Living(st, u, c)
<1>1. CASE b = NoBlock
  <2>1. use' = u /\ stack' = st
    BY <1>1 DEF Release, Dec
  <2> QED BY <1>1, <2>1, SharedFromThisAssumption DEF Is
<1>2. CASE b # NoBlock
  <2>1. b \in Blocks
    BY <1>2 DEF BlocksOrNo
  <2>2. use' = Dec(u, b) /\ stack' = IF u[b] = 1 THEN <<Frame("body", obj[b], b)>> \o st ELSE st
    BY <1>2 DEF Release
  <2>3. Dec(u, b) = [u EXCEPT ![b] = @ - 1]
    BY <1>2 DEF Dec
  <2>4. /\ use' \in [Blocks -> Nat]
        /\ \A c \in Blocks : use'[c] = u[c] - Is(b, c)
    BY <1>2, <2>1, <2>2, <2>3 DEF Is
  <2>5. /\ Good(stack', use', obj, owns, li)
        /\ Released(stack', use', st, u, b)
    <3>1. u[b] > 0 /\ (u[b] = 1 => Covers(st))
      BY <1>2
    <3> QED BY <2>1, <2>2, <3>1, ReleaseGood
  <2>6. \A c \in Blocks : HeldBy(stack', use', c) <=> HeldBy(st, u, c)
    <3> SUFFICES ASSUME NEW c \in Blocks
                 PROVE  HeldBy(stack', use', c) <=> HeldBy(st, u, c)
      OBVIOUS
    <3>1. u[b] > 0
      BY <1>2
    <3>2. HeldBy(stack', use', c) => HeldBy(st, u, c)
      <4>1. CASE use'[c] > 0
        <5>1. u[c] > 0
          BY <2>1, <2>2, <2>3, <3>1, <4>1
        <5> QED BY <5>1 DEF HeldBy
      <4>2. CASE \E f \in In(stack') : f.at \in {"body", "weak"} /\ f.blk = c
        BY <2>5, <3>1, <4>2 DEF HeldBy, Released
      <4> QED BY <4>1, <4>2 DEF HeldBy
    <3>3. HeldBy(st, u, c) => HeldBy(stack', use', c)
      <4>1. CASE u[c] > 0
        <5>1. Living(st, u, c)
          BY <4>1 DEF Living
        <5> QED BY <2>5, <5>1 DEF Living, HeldBy, Released
      <4>2. CASE \E f \in In(st) : f.at \in {"body", "weak"} /\ f.blk = c
        BY <2>5, <4>2 DEF HeldBy, Released
      <4> QED BY <4>1, <4>2 DEF HeldBy
    <3> QED BY <3>2, <3>3
  <2> QED BY <2>4, <2>5, <2>6 DEF Released
<1> QED BY <1>1, <1>2

LEMMA ReleasedIsLess ==
  ASSUME TypeOK, use' \in [Blocks -> Nat], NEW a, \A c \in Blocks : use'[c] = use[c] - Is(a, c)
  PROVE  use' \in [Blocks -> 0..MaxUse]
BY SharedFromThisAssumption DEF Is, TypeOK

(* Blocks are freed that have no owners' reference left.                   *)
LEMMA FreeStep ==
  ASSUME TypeOK, NEW w, WeakCounts(w),
         \A b \in Blocks : HeldBy(stack', use', b) => w[b] # 0,
         Good(stack', use', obj, owns, life')
  PROVE  /\ Good(stack', use', obj', owns', life')
         /\ obj' \in [Blocks -> Objects \cup {NoObject}] /\ owns' \in [Blocks -> BOOLEAN]
<1>1. \A b \in Blocks : Living(stack', use', b) => HeldBy(stack', use', b)
  BY DEF Living, HeldBy
<1>2. \A b \in Blocks : Living(stack', use', b) => obj'[b] = obj[b] /\ (owns'[b] <=> owns[b])
  BY <1>1 DEF WeakCounts
<1>3. Good(stack', use', obj', owns', life')
  BY <1>2, FreeGood
<1>4. obj' \in [Blocks -> Objects \cup {NoObject}] /\ owns' \in [Blocks -> BOOLEAN]
  BY DEF WeakCounts, TypeOK
<1> QED BY <1>3, <1>4

-----------------------------------------------------------------------------
(* New owners, and watchers.                                               *)

LEMMA IncIs ==
  ASSUME TypeOK, NEW b \in Blocks
  PROVE  /\ Inc(use, b) \in [Blocks -> 0..MaxUse]
         /\ use[b] # MaxUse => Inc(use, b) = [use EXCEPT ![b] = @ + 1]
         /\ \A c \in Blocks : c # b => Inc(use, b)[c] = use[c]
<1>1. Inc(use, b) = [use EXCEPT ![b] = (@ + 1) % (MaxUse + 1)]
  BY SharedFromThisAssumption DEF Inc
<1>2. use[b] \in 0..MaxUse /\ MaxUse \in Nat
  BY SharedFromThisAssumption DEF TypeOK
<1>3. (use[b] + 1) % (MaxUse + 1) \in 0..MaxUse
  BY <1>2
<1>4. use[b] # MaxUse => (use[b] + 1) % (MaxUse + 1) = use[b] + 1
  BY <1>2
<1> QED BY <1>1, <1>3, <1>4 DEF TypeOK

LEMMA TypesAre ==
  ASSUME Structure
  PROVE  SimpleTypes /\ use \in [Blocks -> Nat] /\ weak \in [Blocks -> Nat]
<1>1. 0..MaxUse \subseteq Nat /\ 0..MaxWeak \subseteq Nat
  BY SharedFromThisAssumption
<1> QED BY <1>1, TypesHold DEF Structure, TypeOK

(* Another shared_ptr has a block that has owners.                         *)
LEMMA OwnerAdded ==
  ASSUME Core, Calling, NEW s \in Slots, NEW b \in Blocks, use[b] # 0,
         Usable(s), sp[s] = NoBlock,
         sp' = [sp EXCEPT ![s] = b], use' = Inc(use, b), Chk(b),
         UNCHANGED <<objects, blocks, weak, wp, stack>>
  PROVE  Core'
<1>1. ~trapped /\ Structure /\ UseOK /\ WeakOK /\ TypeOK
  BY DEF Calling, Core, Structure
<1>2. UNCHANGED <<life, weakThis, obj, owns, weak, wp, stack>>
  BY DEF objects, blocks
<1>3. trapped' = (use[b] = MaxUse)
  BY SharedFromThisAssumption DEF Chk
<1>4. use' \in [Blocks -> 0..MaxUse] /\ use' \in [Blocks -> Nat] /\ use[b] > 0
  <2>1. use' \in [Blocks -> 0..MaxUse]
    BY <1>1, IncIs
  <2>2. 0..MaxUse \subseteq Nat /\ use[b] \in Nat
    BY <1>1, TypesAre, SharedFromThisAssumption
  <2> QED BY <2>1, <2>2
<1>5. SimpleTypes'
  BY <1>1, <1>2, <1>3, <1>4, TypesAre DEF SimpleTypes, BlocksOrNo
<1>6. Good(stack, use, obj, owns, life)'
  <2>1. \A c \in Blocks : use'[c] > 0 => use[c] > 0
    BY <1>1, <1>4, IncIs
  <2>2. Good(stack, use', obj, owns, life)
    BY <1>1, <1>4, <2>1, TypesAre, UseGood DEF Structure
  <2> QED BY <1>2, <2>2
<1>7. NoneIsUnwatched' /\ weak' \in [Blocks -> Nat]
  BY <1>1, <1>2, TypesAre DEF Structure, NoneIsUnwatched
<1>8. CASE trapped'
  BY <1>5, <1>6, <1>7, <1>8, EnoughStructure DEF Core
<1>9. CASE ~trapped'
  <2>1. use' = [use EXCEPT ![b] = @ + 1]
    BY <1>1, <1>3, <1>9, IncIs
  <2>2. Wills[s] = NoBlock /\ Wills'[s] = b /\ \A x \in Slots \ {s} : Wills'[x] = Wills[x]
    <3>1. sp'[s] = b /\ \A x \in Slots \ {s} : sp'[x] = sp[x]
      BY <1>1 DEF TypeOK
    <3>2. Wills[s] = NoBlock /\ \A f \in StoreFrames(stack) : f.on # s
      BY UsableIs
    <3> QED BY <1>2, <3>1, <3>2, WillWrite
  <2>3. \A c \in Blocks : use'[c] = use[c] - Is(Wills[s], c) + Is(Wills'[s], c)
    BY <1>1, <2>1, <2>2, TypesAre, SharedFromThisAssumption DEF Is
  <2>4. UseOK'
    BY <1>1, <2>2, <2>3, UseLedger
  <2>5. \A c \in Blocks : HeldBy(stack', use', c) <=> HeldBy(stack, use, c)
    BY <1>1, <1>2, <1>4, <2>1, TypesAre DEF HeldBy
  <2>6. WeakOK'
    BY <1>1, <1>2, <2>5, WeakStays
  <2> QED BY <1>5, <1>6, <1>7, <2>4, <2>6, Enough
<1> QED BY <1>8, <1>9

LEMMA SharedFromThisKeeps ==
  ASSUME Core, NEW s \in Slots, NEW o \in Objects, SharedFromThis(s, o)
  PROVE  Core'
<1>1. weakThis[o] \in Blocks /\ use[weakThis[o]] # 0
  BY DEF SharedFromThis, Expired, Core, Structure, TypeOK, BlocksOrNo
<1> QED BY <1>1, OwnerAdded DEF SharedFromThis

LEMMA LockKeeps ==
  ASSUME Core, NEW s \in Slots, NEW w \in WeakPtrs, Lock(s, w)
  PROVE  Core'
<1>1. wp[w] \in Blocks /\ use[wp[w]] # 0
  BY DEF Lock, Expired, Core, Structure, TypeOK, BlocksOrNo
<1> QED BY <1>1, OwnerAdded DEF Lock

LEMMA WeakFromThisKeeps ==
  ASSUME Core, NEW w \in WeakPtrs, NEW o \in Objects, WeakFromThis(w, o)
  PROVE  Core'
<1> DEFINE b == weakThis[o]
<1>1. ~trapped /\ Structure /\ UseOK /\ WeakOK /\ TypeOK
  BY DEF WeakFromThis, Calling, Core, Structure
<1>2. UNCHANGED <<life, weakThis, obj, owns, use, sp, stack>>
  BY DEF WeakFromThis, WeakAddRef, objects, blocks
<1>3. b \in Blocks /\ wp[w] = NoBlock /\ wp' = [wp EXCEPT ![w] = b]
  BY <1>1 DEF WeakFromThis, WeakAddRef, TypeOK, BlocksOrNo
<1>4. weak' = [weak EXCEPT ![b] = (@ + 1) % (MaxWeak + 1)] /\ trapped' = (weak[b] = MaxWeak)
  BY DEF WeakFromThis, WeakAddRef
<1> HIDE DEF b
<1>5. weak \in [Blocks -> Nat] /\ SimpleTypes
  BY <1>1, TypesAre
<1>6. /\ (weak[b] + 1) % (MaxWeak + 1) \in 0..MaxWeak
      /\ weak[b] # MaxWeak => (weak[b] + 1) % (MaxWeak + 1) = weak[b] + 1
  <2>1. weak[b] \in 0..MaxWeak /\ MaxWeak \in Nat
    BY <1>1, <1>3, SharedFromThisAssumption DEF TypeOK
  <2> QED BY <2>1
<1>7. weak' \in [Blocks -> Nat] /\ \A c \in Blocks : weak'[c] <= MaxWeak
  BY <1>3, <1>4, <1>5, <1>6, SharedFromThisAssumption DEF SimpleTypes
<1>8. SimpleTypes'
  BY <1>2, <1>3, <1>4, <1>5, <1>7 DEF SimpleTypes, BlocksOrNo
<1>9. Good(stack, use, obj, owns, life)' /\ NoneIsUnwatched'
  BY <1>1, <1>2 DEF Structure, NoneIsUnwatched
<1>10. CASE trapped'
  BY <1>7, <1>8, <1>9, <1>10, EnoughStructure DEF Core
<1>11. CASE ~trapped'
  <2>1. UseOK'
    BY <1>1, <1>2, WillsStay, UseStays
  <2>2. (weak[b] + 1) % (MaxWeak + 1) = weak[b] + 1
    BY <1>4, <1>6, <1>11
  <2>3. \A c \in Blocks : weak'[c] = weak[c] - Is(wp[w], c) + Is(wp'[w], c)
    <3>1. wp'[w] = b
      BY <1>3, <1>5 DEF SimpleTypes
    <3> QED BY <1>3, <1>4, <1>5, <2>2, <3>1, SharedFromThisAssumption DEF Is
  <2>4. WeakOK'
    BY <1>1, <1>2, <1>3, <1>5, <2>3, WeakPtrLedger DEF SimpleTypes
  <2> QED BY <1>8, <1>9, <2>1, <2>4, Enough
<1> QED BY <1>10, <1>11

LEMMA ResetWeakKeeps ==
  ASSUME Core, NEW w \in WeakPtrs, ResetWeak(w)
  PROVE  Core'
<1>1. ~trapped /\ Structure /\ UseOK /\ WeakOK /\ TypeOK
  BY DEF ResetWeak, Calling, Core, Structure
<1>2. UNCHANGED <<life, weakThis, use, sp, stack, trapped>>
  BY DEF ResetWeak, objects
<1>3. /\ wp[w] \in Blocks /\ wp' = [wp EXCEPT ![w] = NoBlock]
      /\ weak' = [weak EXCEPT ![wp[w]] = @ - 1]
  BY <1>1 DEF ResetWeak, WeakCounts, Dec, TypeOK, BlocksOrNo
<1>4. UseOK'
  BY <1>1, <1>2, WillsStay, UseStays
<1>5. WeakOK'
  <2>1. wp'[w] = NoBlock /\ \A v \in WeakPtrs \ {w} : wp'[v] = wp[v]
    BY <1>1, <1>3 DEF TypeOK
  <2>2. \A b \in Blocks : weak'[b] = weak[b] - Is(wp[w], b) + Is(wp'[w], b)
    BY <1>1, <1>3, <2>1, TypesAre, SharedFromThisAssumption DEF Is
  <2> QED BY <1>1, <1>2, <2>1, <2>2, WeakPtrLedger
<1>6. \A b \in Blocks : HeldBy(stack', use', b) => weak'[b] # 0
  BY <1>5, HeldLasts
<1>7. /\ Good(stack, use, obj, owns, life)'
      /\ obj' \in [Blocks -> Objects \cup {NoObject}] /\ owns' \in [Blocks -> BOOLEAN]
  <2>1. Good(stack', use', obj, owns, life')
    BY <1>1, <1>2 DEF Structure
  <2>2. WeakCounts(weak')
    BY DEF ResetWeak, WeakCounts
  <2> QED BY <1>1, <1>6, <2>1, <2>2, FreeStep
<1>8. SimpleTypes'
  <2>1. SimpleTypes /\ weak \in [Blocks -> Nat]
    BY <1>1, TypesAre
  <2>2. weak' \in [Blocks -> Int] /\ \A b \in Blocks : weak'[b] <= MaxWeak
    BY <1>3, <2>1, SharedFromThisAssumption DEF SimpleTypes
  <2> QED BY <1>2, <1>3, <1>7, <2>1, <2>2 DEF SimpleTypes, BlocksOrNo
<1>9. NoneIsUnwatched'
  BY <1>1, <1>2 DEF Structure, NoneIsUnwatched
<1> QED BY <1>4, <1>5, <1>7, <1>8, <1>9, Enough

-----------------------------------------------------------------------------
(* New objects and blocks.                                                 *)

LEMMA CountedNow ==
  ASSUME Structure, WeakOK, NEW b \in Blocks, weak[b] = 0
  PROVE  /\ use[b] = 0 /\ ~HeldBy(stack, use, b) /\ Held(b) = 0
         /\ \A f \in In(stack) : f.at \in {"body", "weak"} => f.blk # b
         /\ \A o \in Objects : weakThis[o] # b
<1>1. /\ Count(Objects, weakThis, b) \in Nat
      /\ \A o \in Objects : weakThis[o] = b => Count(Objects, weakThis, b) > 0
  BY FiniteSlots, CountType
<1>2. Count(WeakPtrs, wp, b) \in Nat /\ Held(b) \in Nat
  BY FiniteSlots, CountType DEF Held
<1>3. weak[b] = Count(Objects, weakThis, b) + Count(WeakPtrs, wp, b) + Held(b)
  BY DEF WeakOK
<1>4. Held(b) = 0 /\ Count(Objects, weakThis, b) = 0
  BY <1>1, <1>2, <1>3
<1>5. ~HeldBy(stack, use, b)
  BY <1>4, HeldIs
<1>6. use[b] = 0
  BY <1>5, TypesAre DEF HeldBy
<1> QED BY <1>1, <1>2, <1>4, <1>5, <1>6 DEF HeldBy

LEMMA MakeKeeps ==
  ASSUME Core, NEW s \in Slots, NEW o \in Objects, NEW b \in Blocks, Make(s, o, b)
  PROVE  Core'
<1>1. ~trapped /\ Structure /\ UseOK /\ WeakOK /\ TypeOK
  BY DEF Make, Calling, Core, Structure
<1>2. /\ use[b] = 0 /\ ~HeldBy(stack, use, b) /\ Held(b) = 0
      /\ \A f \in In(stack) : f.at \in {"body", "weak"} => f.blk # b
  BY <1>1, CountedNow DEF Make
<1>3. weakThis[o] = NoBlock
  BY <1>1 DEF Make, Structure, NoneIsUnwatched
<1>4. UNCHANGED <<wp, stack, trapped>>
  BY DEF Make
<1>5. SimpleTypes'
  BY <1>1, TypesAre, SharedFromThisAssumption DEF SimpleTypes, Make, BlocksOrNo
<1>6. Good(stack, use, obj, owns, life)'
  <2>1. ~Destructing(stack, o)
    BY <1>1 DEF Destructing, Structure, Good, FramesOK, Make
  <2>2. \A c \in Blocks : Living(stack, use, c) /\ owns[c] => obj[c] # o
    BY <1>1 DEF Structure, Good, LivingOK, Make
  <2>3. life'[o] = "alive" /\ \A a \in Objects \ {o} : life'[a] = life[a]
    BY <1>1 DEF Make, TypeOK
  <2>4. Good(stack, use, obj, owns, life')
    BY <1>1, <2>1, <2>2, <2>3, LifeGood DEF Structure
  <2>5. /\ use'[b] = 1 /\ obj'[b] = o
        /\ \A c \in Blocks \ {b} : use'[c] = use[c] /\ obj'[c] = obj[c] /\ (owns'[c] <=> owns[c])
    BY <1>1 DEF Make, TypeOK
  <2>6. MayDelete(stack, use, obj, owns, life', o)
    BY <2>1, <2>2, <2>3 DEF MayDelete
  <2>7. use \in [Blocks -> Nat]
    BY <1>1, TypesAre
  <2>8. Good(stack, use', obj', owns', life')
    BY <1>2, <2>4, <2>5, <2>6, <2>7, NewGood
  <2> QED BY <1>4, <2>8
<1>7. NoneIsUnwatched'
  BY <1>1 DEF Structure, NoneIsUnwatched, Make, TypeOK
<1>8. UseOK'
  <2>1. Wills[s] = NoBlock /\ Wills'[s] = b /\ \A x \in Slots \ {s} : Wills'[x] = Wills[x]
    <3>1. sp'[s] = b /\ \A x \in Slots \ {s} : sp'[x] = sp[x]
      BY <1>1 DEF TypeOK, Make
    <3>2. Wills[s] = NoBlock /\ \A f \in StoreFrames(stack) : f.on # s
      BY UsableIs DEF Make
    <3> QED BY <1>4, <3>1, <3>2, WillWrite
  <2>2. \A c \in Blocks : use'[c] = use[c] - Is(Wills[s], c) + Is(Wills'[s], c)
    BY <1>1, <1>2, <2>1, TypesAre, SharedFromThisAssumption DEF Is, Make
  <2> QED BY <1>1, <2>1, <2>2, UseLedger
<1>9. WeakOK'
  <2>1. weakThis'[o] = b /\ \A a \in Objects \ {o} : weakThis'[a] = weakThis[a]
    BY <1>1 DEF Make, TypeOK
  <2>2. Held(b)' = 1 /\ \A c \in Blocks \ {b} : Held(c)' = Held(c)
    BY <1>1, <1>4, HeldIs, TypesAre DEF HeldBy, Make
  <2>3. \A c \in Blocks : Held(c) \in Nat /\ weak[c] \in Nat
    BY <1>1, TypesAre DEF Held, Is
  <2>4. /\ \A c \in Blocks \ {b} : weak'[c] = weak[c]
        /\ weak[b] = 0 /\ weak'[b] = 2
    BY <1>1 DEF Make, TypeOK
  <2>5. \A c \in Blocks : Is(weakThis[o], c) = 0 /\ Is(weakThis'[o], c) = IF c = b THEN 1 ELSE 0
    BY <1>3, <2>1, SharedFromThisAssumption DEF Is
  <2>6. \A c \in Blocks :
          weak'[c] = weak[c] - Is(weakThis[o], c) + Is(weakThis'[o], c) - Held(c) + Held(c)'
    BY <1>2, <1>4, <2>2, <2>3, <2>4, <2>5
  <2> QED BY <1>1, <1>4, <2>1, <2>6, WeakLedger
<1> QED BY <1>5, <1>6, <1>7, <1>8, <1>9, Enough

LEMMA MakeStaticKeeps ==
  ASSUME Core, NEW o \in Objects, MakeStatic(o)
  PROVE  Core'
<1>1. ~trapped /\ Structure /\ UseOK /\ WeakOK /\ TypeOK
  BY DEF MakeStatic, Calling, Core, Structure
<1>2. UNCHANGED <<weakThis, obj, owns, use, weak, sp, wp, stack, trapped>>
  BY DEF MakeStatic, blocks
<1>3. SimpleTypes'
  BY <1>1, <1>2, TypesAre DEF SimpleTypes, MakeStatic
<1>4. Good(stack, use, obj, owns, life)'
  <2>1. \A c \in Blocks : Living(stack, use, c) /\ owns[c] => obj[c] # o
    BY <1>1 DEF Structure, Good, LivingOK, MakeStatic
  <2>2. life'[o] = "alive" /\ \A a \in Objects \ {o} : life'[a] = life[a]
    BY <1>1 DEF MakeStatic, TypeOK
  <2>3. Good(stack, use, obj, owns, life')
    BY <1>1, <2>1, <2>2, LifeGood DEF Structure
  <2> QED BY <1>2, <2>3
<1>5. NoneIsUnwatched'
  BY <1>1, <1>2 DEF Structure, NoneIsUnwatched, MakeStatic, TypeOK
<1>6. UseOK' /\ WeakOK'
  BY <1>1, <1>2, WillsStay, UseStays, WeakStays
<1> QED BY <1>3, <1>4, <1>5, <1>6, Enough

LEMMA AdoptKeeps ==
  ASSUME Core, NEW s \in Slots, NEW o \in Objects, NEW b \in Blocks, Adopt(s, o, b)
  PROVE  Core'
<1>1. ~trapped /\ Structure /\ UseOK /\ WeakOK /\ TypeOK
  BY DEF Adopt, Calling, Core, Structure
<1>2. /\ use[b] = 0 /\ ~HeldBy(stack, use, b) /\ Held(b) = 0
      /\ \A f \in In(stack) : f.at \in {"body", "weak"} => f.blk # b
      /\ weakThis[o] # b
  BY <1>1, CountedNow DEF Adopt
<1>3. UNCHANGED <<life, wp, stack, trapped>>
  BY DEF Adopt
<1>4. use' = [use EXCEPT ![b] = 1] /\ sp' = [sp EXCEPT ![s] = b] /\ weak[b] = 0
  BY DEF Adopt
<1>5. UseOK'
  <2>1. Wills[s] = NoBlock /\ Wills'[s] = b /\ \A x \in Slots \ {s} : Wills'[x] = Wills[x]
    <3>1. sp'[s] = b /\ \A x \in Slots \ {s} : sp'[x] = sp[x]
      BY <1>1, <1>4 DEF TypeOK
    <3>2. Wills[s] = NoBlock /\ \A f \in StoreFrames(stack) : f.on # s
      BY UsableIs DEF Adopt
    <3> QED BY <1>3, <3>1, <3>2, WillWrite
  <2>2. \A c \in Blocks : use'[c] = use[c] - Is(Wills[s], c) + Is(Wills'[s], c)
    BY <1>1, <1>2, <1>4, <2>1, TypesAre, SharedFromThisAssumption DEF Is
  <2> QED BY <1>1, <2>1, <2>2, UseLedger
<1>6. /\ WeakOK' /\ weakThis' \in [Objects -> BlocksOrNo]
      /\ weak' \in [Blocks -> Int] /\ \A c \in Blocks : weak'[c] <= MaxWeak
  <2>1. Held(b)' = 1 /\ \A c \in Blocks \ {b} : Held(c)' = Held(c)
    BY <1>1, <1>3, <1>4, HeldIs, TypesAre DEF HeldBy
  <2>2. \A c \in Blocks : Held(c) \in Nat /\ weak[c] \in Nat
    BY <1>1, TypesAre DEF Held, Is
  <2>3. \A c \in Blocks : weak[c] <= MaxWeak
    BY <1>1, TypesAre DEF SimpleTypes
  <2>4. CASE Assigns(o)
    <3>1. weakThis' = [weakThis EXCEPT ![o] = b] /\ weak' = [Dec(weak, weakThis[o]) EXCEPT ![b] = 2]
      BY <2>4 DEF Adopt
    <3>2. weakThis'[o] = b /\ \A a \in Objects \ {o} : weakThis'[a] = weakThis[a]
      BY <1>1, <3>1 DEF TypeOK
    <3>3. /\ weak' \in [Blocks -> Int] /\ weak'[b] = 2
          /\ \A c \in Blocks \ {b} : weak'[c] = weak[c] - Is(weakThis[o], c)
      BY <1>1, <3>1, TypesAre, SharedFromThisAssumption DEF Dec, Is, TypeOK, BlocksOrNo
    <3>4. \A c \in Blocks : Is(weakThis'[o], c) = (IF c = b THEN 1 ELSE 0) /\ Is(weakThis[o], b) = 0
                              /\ Is(weakThis[o], c) \in Nat
      BY <1>2, <3>2 DEF Is
    <3>5. \A c \in Blocks :
            weak'[c] = weak[c] - Is(weakThis[o], c) + Is(weakThis'[o], c) - Held(c) + Held(c)'
      BY <1>2, <1>3, <1>4, <2>1, <2>2, <3>3, <3>4
    <3>6. WeakOK'
      BY <1>1, <1>3, <3>2, <3>5, WeakLedger
    <3>7. \A c \in Blocks : weak'[c] <= MaxWeak
      BY <2>2, <3>3, <3>4, <2>3, SharedFromThisAssumption
    <3> QED BY <1>1, <3>1, <3>3, <3>6, <3>7 DEF TypeOK, BlocksOrNo
  <2>5. CASE ~Assigns(o)
    <3>1. weakThis' = weakThis /\ weak' = [weak EXCEPT ![b] = 1]
      BY <2>5 DEF Adopt
    <3>2. weak' \in [Blocks -> Int] /\ weak'[b] = 1 /\ \A c \in Blocks \ {b} : weak'[c] = weak[c]
      BY <1>1, <3>1, TypesAre
    <3>3. \A c \in Blocks : weak'[c] = weak[c] - Held(c) + Held(c)'
      BY <1>2, <1>3, <1>4, <2>1, <2>2, <3>2
    <3>4. \A c \in Blocks : weak'[c] <= MaxWeak
      BY <3>2, <2>3, SharedFromThisAssumption
    <3> QED BY <1>1, <1>3, <3>1, <3>2, <3>3, <3>4, WeakLedgerOutside DEF TypeOK
  <2> QED BY <2>4, <2>5
<1>7. /\ obj' = [c \in Blocks |-> IF c = b THEN o ELSE IF weak'[c] = 0 THEN NoObject ELSE obj[c]]
      /\ owns' = [c \in Blocks |-> c # b /\ weak'[c] # 0 /\ owns[c]]
  BY DEF Adopt
<1>8. Good(stack, use, obj, owns, life)'
  <2>1. \A c \in Blocks \ {b} : Living(stack, use, c) => weak'[c] # 0
    <3> SUFFICES ASSUME NEW c \in Blocks \ {b}, Living(stack, use, c)
                 PROVE  weak'[c] # 0
      OBVIOUS
    <3>1. HeldBy(stack', use', c)
      BY <1>1, <1>3, <1>4, TypesAre DEF Living, HeldBy
    <3> QED BY <1>6, <3>1, HeldLasts
  <2>2. /\ obj'[b] = o /\ ~owns'[b]
        /\ \A c \in Blocks \ {b} : Living(stack, use, c) => obj'[c] = obj[c] /\ (owns'[c] <=> owns[c])
    BY <1>7, <2>1
  <2>3. Good(stack, use, obj, owns, life) /\ use \in [Blocks -> Nat]
    BY <1>1, TypesAre DEF Structure
  <2>4. use'[b] = 1 /\ \A c \in Blocks \ {b} : use'[c] = use[c]
    BY <1>4, <2>3
  <2>5. Good(stack, use', obj', owns', life)
    BY <1>2, <2>2, <2>3, <2>4, NewGood
  <2> QED BY <1>3, <2>5
<1>9. SimpleTypes'
  <2>1. obj' \in [Blocks -> Objects \cup {NoObject}] /\ owns' \in [Blocks -> BOOLEAN]
    BY <1>1, <1>7 DEF TypeOK
  <2>2. use' \in [Blocks -> 0..MaxUse] /\ sp' \in [Slots -> BlocksOrNo]
    BY <1>1, <1>4, SharedFromThisAssumption DEF TypeOK, BlocksOrNo
  <2> QED BY <1>1, <1>3, <1>6, <2>1, <2>2 DEF SimpleTypes, TypeOK
<1>10. NoneIsUnwatched'
  BY <1>1, <1>3 DEF Structure, NoneIsUnwatched, Adopt, TypeOK
<1> QED BY <1>5, <1>6, <1>8, <1>9, <1>10, Enough

-----------------------------------------------------------------------------
(* Assignments.                                                            *)

LEMMA StoreKeeps ==
  ASSUME Core, Store
  PROVE  Core'
<1> DEFINE f0 == Head(stack)
<1>1. /\ ~trapped /\ Structure /\ UseOK /\ WeakOK /\ TypeOK
      /\ Good(stack, use, obj, owns, life) /\ stack # <<>> /\ f0.at = "store"
  BY DEF Store, AtTop, Core, Structure
<1>2. /\ UNCHANGED <<life, weakThis, obj, owns, use, weak, wp, trapped>>
      /\ sp' = [sp EXCEPT ![f0.on] = f0.blk] /\ stack' = Tail(stack)
  BY DEF Store, Rest, objects, blocks
<1>3. /\ f0 \in FrameType /\ In(stack) = In(stack') \cup {f0}
      /\ \A g \in In(stack') : ~Clash(f0, g)
  BY <1>1, <1>2, Pop DEF Good
<1>4. f0.on \in Slots /\ f0.blk \in BlocksOrNo
  BY <1>3 DEF FrameType
<1> HIDE DEF f0
<1>5. SimpleTypes'
  BY <1>1, <1>2, <1>4, TypesAre DEF SimpleTypes
<1>6. Good(stack, use, obj, owns, life)' /\ NoneIsUnwatched'
  BY <1>1, <1>2, PopGood DEF Structure, NoneIsUnwatched
<1>7. UseOK'
  <2>1. f0 \in StoreFrames(stack) /\ StoreFrames(stack') = StoreFrames(stack) \ {f0}
    BY <1>1, <1>3, ClashSelf DEF StoreFrames
  <2>2. \A g \in StoreFrames(stack') : g.on # f0.on
    BY <1>1, <1>3 DEF StoreFrames, Clash
  <2>3. Wills[f0.on] = f0.blk
    BY <1>1, <1>4, <2>1, StoresApart, WillIs, WillsAre DEF Good
  <2>4. Wills'[f0.on] = f0.blk
    <3>1. sp'[f0.on] = f0.blk
      BY <1>1, <1>2, <1>4 DEF TypeOK
    <3> QED BY <1>4, <2>2, <3>1, WillsAre DEF WillIn
  <2>5. \A x \in Slots : x # f0.on => Wills'[x] = Wills[x]
    <3> SUFFICES ASSUME NEW x \in Slots, x # f0.on
                 PROVE  Wills'[x] = Wills[x]
      OBVIOUS
    <3>1. sp'[x] = sp[x]
      BY <1>1, <1>2 DEF TypeOK
    <3>2. \A f, g \in StoreFrames(stack) : f.on = g.on => f = g
      BY <1>1, StoresApart DEF Good
    <3>3. CASE \E f \in StoreFrames(stack) : f.on = x
      <4>1. PICK f \in StoreFrames(stack) : f.on = x
        BY <3>3
      <4>2. f \in StoreFrames(stack') /\ \A g, h \in StoreFrames(stack') : g.on = h.on => g = h
        BY <2>1, <3>2, <4>1
      <4>3. WillIn(StoreFrames(stack), sp, x) = f.blk
        BY <3>2, <4>1, WillIs
      <4>4. WillIn(StoreFrames(stack'), sp', x) = f.blk
        BY <4>1, <4>2, WillIs
      <4> QED BY <4>3, <4>4, WillsAre
    <3>4. CASE \A f \in StoreFrames(stack) : f.on # x
      BY <2>1, <3>1, <3>4, WillsAre DEF WillIn
    <3> QED BY <3>3, <3>4
  <2> QED BY <1>1, <1>2, <2>3, <2>4, <2>5, UseStays
<1>8. WeakOK'
  <2>1. \A b \in Blocks : HeldBy(stack', use', b) <=> HeldBy(stack, use, b)
    BY <1>1, <1>2, <1>3 DEF HeldBy
  <2> QED BY <1>1, <1>2, <2>1, WeakStays
<1> QED BY <1>5, <1>6, <1>7, <1>8, Enough

LEMMA ResetKeeps ==
  ASSUME Core, NEW s \in Slots, Reset(s)
  PROVE  Core'
<1>1. /\ ~trapped /\ Structure /\ UseOK /\ WeakOK /\ TypeOK
      /\ Good(stack, use, obj, owns, life) /\ Covers(stack) /\ use \in [Blocks -> Nat]
  BY CallingCovers, TypesAre DEF Reset, Calling, Core, Structure
<1>2. UNCHANGED <<life, weakThis, obj, owns, weak, wp, trapped>>
  BY DEF Reset, objects, blocks
<1>3. sp[s] \in Blocks /\ Wills[s] = sp[s] /\ \A f \in StoreFrames(stack) : f.on # s
  BY <1>1, UsableIs DEF Reset, TypeOK, BlocksOrNo
<1>4. use[sp[s]] > 0
  BY <1>1, <1>3, WillsAreCounted
<1>5. Release(use, sp[s], stack) /\ sp[s] \in BlocksOrNo
  BY <1>3 DEF Reset, BlocksOrNo
<1>6. /\ Good(stack', use', obj, owns, life)
      /\ use' \in [Blocks -> Nat]
      /\ \A c \in Blocks : use'[c] = use[c] - Is(sp[s], c)
      /\ StoreFrames(stack') = StoreFrames(stack)
      /\ \A c \in Blocks : HeldBy(stack', use', c) <=> HeldBy(stack, use, c)
  BY <1>1, <1>4, <1>5, ReleaseStep
<1>7. sp' = [sp EXCEPT ![s] = NoBlock]
  BY DEF Reset
<1>8. SimpleTypes'
  <2>1. use' \in [Blocks -> 0..MaxUse]
    BY <1>1, <1>6, ReleasedIsLess
  <2> QED BY <1>1, <1>2, <1>7, <2>1, TypesAre DEF SimpleTypes, BlocksOrNo
<1>9. Good(stack, use, obj, owns, life)' /\ NoneIsUnwatched'
  BY <1>1, <1>2, <1>6 DEF Structure, NoneIsUnwatched
<1>10. UseOK'
  <2>1. Wills'[s] = NoBlock /\ \A x \in Slots \ {s} : Wills'[x] = Wills[x]
    BY <1>1, <1>3, <1>6, <1>7, WillWrite DEF TypeOK
  <2>2. \A c \in Blocks : use'[c] = use[c] - Is(Wills[s], c) + Is(Wills'[s], c)
    BY <1>1, <1>3, <1>6, <2>1, SharedFromThisAssumption DEF Is
  <2> QED BY <1>1, <2>1, <2>2, UseLedger
<1>11. WeakOK'
  BY <1>1, <1>2, <1>6, WeakStays
<1> QED BY <1>8, <1>9, <1>10, <1>11, Enough

LEMMA MoveAssignKeeps ==
  ASSUME Core, NEW s \in Slots, NEW r \in Slots, MoveAssign(s, r)
  PROVE  Core'
<1>1. /\ ~trapped /\ Structure /\ UseOK /\ WeakOK /\ TypeOK
      /\ Good(stack, use, obj, owns, life) /\ Covers(stack) /\ use \in [Blocks -> Nat]
  BY CallingCovers, TypesAre DEF MoveAssign, Calling, Core, Structure
<1>2. UNCHANGED <<life, weakThis, obj, owns, weak, wp, trapped>>
  BY DEF MoveAssign, objects, blocks
<1>3. /\ sp[s] \in BlocksOrNo /\ Wills[s] = sp[s] /\ \A f \in StoreFrames(stack) : f.on # s
      /\ sp[r] \in BlocksOrNo /\ Wills[r] = sp[r] /\ \A f \in StoreFrames(stack) : f.on # r
      /\ s # r
  BY <1>1, UsableIs DEF MoveAssign, TypeOK
<1>4. sp[s] # NoBlock => use[sp[s]] > 0
  BY <1>1, <1>3, WillsAreCounted DEF BlocksOrNo
<1>5. Release(use, sp[s], stack)
  BY DEF MoveAssign
<1>6. /\ Good(stack', use', obj, owns, life)
      /\ use' \in [Blocks -> Nat]
      /\ \A c \in Blocks : use'[c] = use[c] - Is(sp[s], c)
      /\ StoreFrames(stack') = StoreFrames(stack)
      /\ \A c \in Blocks : HeldBy(stack', use', c) <=> HeldBy(stack, use, c)
  BY <1>1, <1>3, <1>4, <1>5, ReleaseStep
<1>7. sp' = [sp EXCEPT ![s] = sp[r], ![r] = NoBlock]
  BY DEF MoveAssign
<1>8. SimpleTypes'
  <2>1. use' \in [Blocks -> 0..MaxUse]
    BY <1>1, <1>6, ReleasedIsLess
  <2> QED BY <1>1, <1>2, <1>3, <1>7, <2>1, TypesAre DEF SimpleTypes, BlocksOrNo
<1>9. Good(stack, use, obj, owns, life)' /\ NoneIsUnwatched'
  BY <1>1, <1>2, <1>6 DEF Structure, NoneIsUnwatched
<1>10. UseOK'
  <2> DEFINE M == [Wills EXCEPT ![s] = Wills[r]]
  <2>1. sp'[s] = sp[r] /\ sp'[r] = NoBlock /\ \A x \in Slots : x # s /\ x # r => sp'[x] = sp[x]
    BY <1>1, <1>3, <1>7 DEF TypeOK
  <2>2. /\ Wills'[s] = Wills[r] /\ Wills'[r] = NoBlock
        /\ \A x \in Slots : x # s /\ x # r => Wills'[x] = Wills[x]
    BY <1>3, <1>6, <2>1, WillsAre DEF WillIn
  <2>3. Wills = [x \in Slots |-> Wills[x]]
    BY DEF Wills
  <2>4. /\ M[s] = Wills[r] /\ M[r] = Wills[r]
        /\ \A x \in Slots \ {s} : M[x] = Wills[x]
        /\ \A x \in Slots \ {r} : Wills'[x] = M[x]
    BY <1>3, <2>2, <2>3
  <2> HIDE DEF M
  <2>5. \A b : Count(Slots, M, b) = After(Count(Slots, Wills, b), Wills[s], M[s], b)
    BY <2>4, SlotWrite
  <2>6. \A b : Count(Slots, Wills', b) = After(Count(Slots, M, b), M[r], Wills'[r], b)
    BY <2>4, SlotWrite
  <2>7. \A b \in Blocks : use'[b] = Count(Slots, Wills', b)
    <3> SUFFICES ASSUME NEW b \in Blocks
                 PROVE  use'[b] = Count(Slots, Wills', b)
      OBVIOUS
    <3>1. Count(Slots, Wills', b) =
            After(After(Count(Slots, Wills, b), Wills[s], Wills[r], b), Wills[r], NoBlock, b)
      BY <2>2, <2>4, <2>5, <2>6
    <3>2. /\ Count(Slots, Wills, b) = use[b] /\ use[b] \in Nat /\ use'[b] = use[b] - Is(Wills[s], b)
          /\ Is(NoBlock, b) = 0 /\ Is(Wills[s], b) \in Nat /\ Is(Wills[r], b) \in Nat
      BY <1>1, <1>3, <1>6, SharedFromThisAssumption DEF UseOK, Is
    <3> QED BY <3>1, <3>2 DEF After
  <2> QED BY <2>7 DEF UseOK
<1>11. WeakOK'
  BY <1>1, <1>2, <1>6, WeakStays
<1> QED BY <1>8, <1>9, <1>10, <1>11, Enough

LEMMA CopyAssignKeeps ==
  ASSUME Core, NEW s \in Slots, NEW r \in Slots, CopyAssign(s, r)
  PROVE  Core'
<1> DEFINE a == sp[s]
           c == sp[r]
           u == Inc(use, c)
           f0 == Frame("store", s, c)
           st == <<f0>> \o stack
<1>1. /\ ~trapped /\ Structure /\ UseOK /\ WeakOK /\ TypeOK
      /\ Good(stack, use, obj, owns, life) /\ Covers(stack) /\ use \in [Blocks -> Nat]
  BY CallingCovers, TypesAre DEF CopyAssign, Calling, Core, Structure
<1>2. UNCHANGED <<life, weakThis, obj, owns, weak, sp, wp>>
  BY DEF CopyAssign, objects, blocks
<1>3. /\ a \in BlocksOrNo /\ Wills[s] = a /\ \A f \in StoreFrames(stack) : f.on # s
      /\ c \in BlocksOrNo /\ Wills[r] = c
      /\ c # a
  BY <1>1, UsableIs DEF CopyAssign, TypeOK
<1>4. Release(u, a, st) /\ Chk(c)
  BY DEF CopyAssign
<1>5. f0.at = "store" /\ f0.on = s /\ f0.blk = c
  BY DEF Frame
<1> HIDE DEF a, c, u, f0, st
<1>6. /\ u \in [Blocks -> Nat] /\ u \in [Blocks -> 0..MaxUse]
      /\ \A x \in Blocks : u[x] > 0 => use[x] > 0
      /\ \A x \in Blocks : x # c => u[x] = use[x]
  <2>1. CASE c = NoBlock
    BY <1>1, <2>1 DEF u, Inc, TypeOK
  <2>2. CASE c # NoBlock
    <3>1. c \in Blocks
      BY <1>3, <2>2 DEF BlocksOrNo
    <3>2. use[c] > 0
      BY <1>1, <1>3, <3>1, WillsAreCounted
    <3>3. u \in [Blocks -> 0..MaxUse] /\ \A x \in Blocks : x # c => u[x] = use[x]
      BY <1>1, <3>1, IncIs DEF u
    <3>4. 0..MaxUse \subseteq Nat
      BY SharedFromThisAssumption
    <3> QED BY <3>2, <3>3, <3>4
  <2> QED BY <2>1, <2>2
<1>7. Good(st, u, obj, owns, life) /\ Covers(st) /\ In(st) = In(stack) \cup {f0}
  <2>1. Good(stack, u, obj, owns, life)
    BY <1>1, <1>6, UseGood
  <2> QED BY <1>1, <1>3, <2>1, StoreGood DEF st, f0
<1>8. a # NoBlock => a \in Blocks /\ u[a] > 0 /\ Covers(st)
  BY <1>1, <1>3, <1>6, <1>7, WillsAreCounted DEF BlocksOrNo
<1>9. /\ Good(stack', use', obj, owns, life)
      /\ use' \in [Blocks -> Nat]
      /\ \A x \in Blocks : use'[x] = u[x] - Is(a, x)
      /\ StoreFrames(stack') = StoreFrames(st)
      /\ \A x \in Blocks : HeldBy(stack', use', x) <=> HeldBy(st, u, x)
  BY <1>3, <1>4, <1>6, <1>7, <1>8, ReleaseStep
<1>10. StoreFrames(stack') = StoreFrames(stack) \cup {f0}
  BY <1>5, <1>7, <1>9 DEF StoreFrames
<1>11. \A x \in Blocks : HeldBy(stack', use', x) => HeldBy(stack, use, x)
  BY <1>5, <1>6, <1>7, <1>9 DEF HeldBy
<1>12. SimpleTypes'
  <2>1. use' \in [Blocks -> 0..MaxUse]
    BY <1>6, <1>9, SharedFromThisAssumption DEF Is
  <2>2. trapped' \in BOOLEAN
    BY <1>4 DEF Chk
  <2> QED BY <1>1, <1>2, <2>1, <2>2, TypesAre DEF SimpleTypes
<1>13. Good(stack, use, obj, owns, life)' /\ NoneIsUnwatched'
  BY <1>1, <1>2, <1>9 DEF Structure, NoneIsUnwatched
<1>14. CASE trapped'
  BY <1>1, <1>2, <1>12, <1>13, <1>14, EnoughStructure, TypesAre DEF Core
<1>15. CASE ~trapped'
  <2>1. \A x \in Blocks : u[x] = use[x] + Is(c, x)
    <3>1. CASE c = NoBlock
      BY <1>1, <3>1, SharedFromThisAssumption DEF u, Inc, Is
    <3>2. CASE c # NoBlock
      <4>1. c \in Blocks
        BY <1>3, <3>2 DEF BlocksOrNo
      <4>2. use[c] # MaxUse
        BY <1>4, <1>15, <3>2 DEF Chk
      <4>3. u = [use EXCEPT ![c] = @ + 1]
        BY <1>1, <4>1, <4>2, IncIs DEF u
      <4> QED BY <1>1, <4>1, <4>3 DEF Is
    <3> QED BY <3>1, <3>2
  <2>2. UseOK'
    <3>1. Wills'[s] = c
      <4>1. \A f, g \in StoreFrames(stack') : f.on = g.on => f = g
        BY <1>9, StoresApart DEF Good
      <4>2. f0 \in StoreFrames(stack')
        BY <1>10
      <4> QED BY <1>5, <4>1, <4>2, WillIs, WillsAre
    <3>2. \A x \in Slots \ {s} : Wills'[x] = Wills[x]
      <4> SUFFICES ASSUME NEW x \in Slots \ {s}
                   PROVE  Wills'[x] = Wills[x]
        OBVIOUS
      <4>1. /\ \A f, g \in StoreFrames(stack') : f.on = g.on => f = g
            /\ \A f, g \in StoreFrames(stack) : f.on = g.on => f = g
        BY <1>1, <1>9, StoresApart DEF Good
      <4>2. CASE \E f \in StoreFrames(stack) : f.on = x
        <5>1. PICK f \in StoreFrames(stack) : f.on = x
          BY <4>2
        <5>2. f \in StoreFrames(stack')
          BY <1>10, <5>1
        <5>3. WillIn(StoreFrames(stack), sp, x) = f.blk
          BY <4>1, <5>1, WillIs
        <5>4. WillIn(StoreFrames(stack'), sp', x) = f.blk
          BY <4>1, <5>1, <5>2, WillIs
        <5> QED BY <5>3, <5>4, WillsAre
      <4>3. CASE \A f \in StoreFrames(stack) : f.on # x
        BY <1>2, <1>5, <1>10, <4>3, WillsAre DEF WillIn
      <4> QED BY <4>2, <4>3
    <3>3. \A x \in Blocks : use'[x] = use[x] - Is(Wills[s], x) + Is(Wills'[s], x)
      <4>1. \A x \in Blocks : use[x] \in Nat /\ Is(a, x) \in Nat /\ Is(c, x) \in Nat
        BY <1>1 DEF Is
      <4> QED BY <1>3, <1>9, <2>1, <3>1, <4>1
    <3> QED BY <1>1, <3>2, <3>3, UseLedger
  <2>3. \A x \in Blocks : HeldBy(stack, use, x) => HeldBy(stack', use', x)
    <3> SUFFICES ASSUME NEW x \in Blocks, HeldBy(stack, use, x)
                 PROVE  HeldBy(st, u, x)
      BY <1>9
    <3>1. use[x] > 0 => u[x] > 0
      BY <1>1, <2>1 DEF Is
    <3> QED BY <1>7, <3>1 DEF HeldBy
  <2>4. WeakOK'
    BY <1>1, <1>2, <1>11, <2>3, WeakStays
  <2> QED BY <1>12, <1>13, <2>2, <2>4, Enough
<1> QED BY <1>14, <1>15

-----------------------------------------------------------------------------
(* Ends.                                                                   *)

(* The frames of a destructor store nothing and end no block.              *)
LEMMA DestructorIs ==
  ASSUME NEW o
  PROVE  /\ Frame("member", o, NoBlock).at = "member" /\ Frame("member", o, NoBlock).on = o
         /\ Frame("base", o, NoBlock).at = "base" /\ Frame("base", o, NoBlock).on = o
BY DEF Frame

LEMMA EndStaticKeeps ==
  ASSUME Core, NEW o \in Objects, EndStatic(o)
  PROVE  Core'
<1>1. /\ ~trapped /\ Structure /\ UseOK /\ WeakOK /\ TypeOK
      /\ Good(stack, use, obj, owns, life) /\ stack = <<>> /\ life[o] = "alive"
  BY DEF EndStatic, Core, Structure
<1>2. UNCHANGED <<life, weakThis, obj, owns, use, weak, sp, wp, trapped>>
  BY DEF EndStatic, objects, blocks
<1>3. In(stack) = {} /\ stack' = Destructor(o) \o stack
  BY <1>1 DEF In, EndStatic, Destructor
<1>4. /\ Good(stack', use, obj, owns, life)
      /\ In(stack') = In(stack) \cup {Frame("member", o, NoBlock), Frame("base", o, NoBlock)}
  <2>1. Covers(stack) /\ ~Destructing(stack, o)
    BY <1>3 DEF Covers, Destructing
  <2>2. MayDelete(stack, use, obj, owns, life, o)
    BY <1>1, <2>1 DEF EndStatic, MayDelete
  <2>3. Good(stack, use, obj, owns, life)
    BY <1>1
  <2>4. /\ Good(Destructor(o) \o stack, use, obj, owns, life)
        /\ In(Destructor(o) \o stack) =
             In(stack) \cup {Frame("member", o, NoBlock), Frame("base", o, NoBlock)}
    BY <2>1, <2>2, <2>3, DestructorGood
  <2> QED BY <1>3, <2>4
<1>5. SimpleTypes' /\ Good(stack, use, obj, owns, life)' /\ NoneIsUnwatched'
  BY <1>1, <1>2, <1>4, TypesAre DEF SimpleTypes, Structure, NoneIsUnwatched
<1>6. UseOK'
  <2>1. StoreFrames(stack') = StoreFrames(stack)
    BY <1>4, DestructorIs DEF StoreFrames
  <2> QED BY <1>1, <1>2, <2>1, WillsStay, UseStays
<1>7. WeakOK'
  <2>1. \A b \in Blocks : HeldBy(stack', use', b) <=> HeldBy(stack, use, b)
    BY <1>2, <1>4, DestructorIs DEF HeldBy
  <2> QED BY <1>1, <1>2, <2>1, WeakStays
<1> QED BY <1>5, <1>6, <1>7, Enough

LEMMA BodyIsObject ==
  ASSUME Good(stack, use, obj, owns, life), stack # <<>>, Head(stack).at = "body"
  PROVE  Head(stack).on \in Objects
<1>1. Head(stack) \in In(stack)
  BY Pop DEF Good
<1> QED BY <1>1 DEF Good, FramesOK, LivingOK, Living

LEMMA EndBodyKeeps ==
  ASSUME Core, EndBody
  PROVE  Core'
<1> DEFINE f0 == Head(stack)
           b == f0.blk
           o == f0.on
           w == Frame("weak", o, b)
           rest == Tail(stack)
           st == <<w>> \o rest
<1>1. /\ ~trapped /\ Structure /\ UseOK /\ WeakOK /\ TypeOK
      /\ Good(stack, use, obj, owns, life) /\ stack # <<>> /\ f0.at = "body"
  BY DEF EndBody, AtTop, Core, Structure
<1>2. UNCHANGED <<life, weakThis, obj, owns, use, weak, sp, wp, trapped>>
  BY DEF EndBody, objects, blocks
<1>3. stack' = (IF owns[b] THEN Destructor(o) ELSE <<>>) \o <<w>> \o rest
  BY DEF EndBody, Rest
<1>4. /\ f0 \in FrameType /\ rest \in Seq(FrameType) /\ In(stack) = In(rest) \cup {f0}
      /\ \A g \in In(rest) : ~Clash(f0, g)
  BY <1>1, Pop DEF Good
<1>5. w.at = "weak" /\ w.on = o /\ w.blk = b
  BY DEF Frame
<1>6. Good(rest, use, obj, owns, life) /\ Covers(rest)
  BY <1>1, PopGood
<1> HIDE DEF f0, rest
<1>7. /\ b \in Blocks /\ use[b] = 0 /\ o = obj[b] /\ Living(stack, use, b)
      /\ \A g \in In(rest) : g.at \in {"body", "weak"} => g.blk # b
  BY <1>1, <1>4 DEF Good, FramesOK, Living, Clash
<1>8. o \in Objects /\ (owns[b] => life[o] = "alive" /\ ~Destructing(stack, o))
  BY <1>1, <1>7 DEF Good, LivingOK
<1>9. w \in FrameType /\ o \in Slots
  BY <1>7, <1>8 DEF Frame, FrameType, Slots, BlocksOrNo
<1> HIDE DEF b, o
<1>10. Good(st, use, obj, owns, life) /\ Covers(st) /\ In(st) = In(rest) \cup {w}
  BY <1>6, <1>7, <1>9, WeakGood
<1> HIDE DEF w, st
<1>11. /\ Good(stack', use, obj, owns, life)
       /\ In(stack') = In(st) \/
            In(stack') = In(st) \cup {Frame("member", o, NoBlock), Frame("base", o, NoBlock)}
  <2>1. CASE owns[b]
    <3>1. MayDelete(st, use, obj, owns, life, o)
      <4>1. ~Destructing(st, o)
        BY <1>4, <1>5, <1>8, <1>10, <2>1 DEF Destructing
      <4>2. ASSUME NEW c \in Blocks, Living(st, use, c), owns[c], obj[c] = o
            PROVE  FALSE
        <5>1. Living(stack, use, c)
          BY <1>4, <1>5, <1>10, <4>2 DEF Living
        <5>2. c = b
          BY <1>1, <1>7, <2>1, <4>2, <5>1 DEF Good, SoleOwner
        <5> QED BY <1>5, <1>7, <1>10, <4>2, <5>2 DEF Living
      <4> QED BY <1>8, <2>1, <4>1, <4>2 DEF MayDelete
    <3>2. /\ Good(Destructor(o) \o st, use, obj, owns, life)
          /\ In(Destructor(o) \o st) =
               In(st) \cup {Frame("member", o, NoBlock), Frame("base", o, NoBlock)}
      BY <1>8, <1>10, <3>1, DestructorGood
    <3>3. stack' = Destructor(o) \o st
      <4>1. Destructor(o) \in Seq(FrameType) /\ <<w>> \in Seq(FrameType)
        BY <1>8, <1>9 DEF Destructor, Frame, FrameType, Slots, BlocksOrNo
      <4> HIDE DEF Destructor
      <4>2. (Destructor(o) \o <<w>>) \o rest = Destructor(o) \o (<<w>> \o rest)
        BY <1>4, <4>1, ConcatAssociative
      <4> QED BY <1>3, <2>1, <4>2 DEF st
    <3> QED BY <3>2, <3>3
  <2>2. CASE ~owns[b]
    <3>1. <<w>> \in Seq(FrameType)
      BY <1>9
    <3>2. <<>> \o <<w>> = <<w>>
      BY <3>1, ConcatEmptySeq
    <3>3. stack' = st
      BY <1>3, <2>2, <3>2 DEF st
    <3> QED BY <1>10, <3>3
  <2> QED BY <2>1, <2>2
<1>12. SimpleTypes' /\ Good(stack, use, obj, owns, life)' /\ NoneIsUnwatched'
  BY <1>1, <1>2, <1>11, TypesAre DEF SimpleTypes, Structure, NoneIsUnwatched
<1>13. UseOK'
  <2>1. StoreFrames(stack') = StoreFrames(stack)
    BY <1>1, <1>4, <1>5, <1>10, <1>11, DestructorIs DEF StoreFrames
  <2> QED BY <1>1, <1>2, <2>1, WillsStay, UseStays
<1>14. WeakOK'
  <2>1. b = f0.blk
    BY DEF b
  <2>2. \A x \in Blocks : HeldBy(stack', use', x) <=> HeldBy(stack, use, x)
    BY <1>1, <1>2, <1>4, <1>5, <1>10, <1>11, <2>1, DestructorIs DEF HeldBy
  <2> QED BY <1>1, <1>2, <2>2, WeakStays
<1> QED BY <1>12, <1>13, <1>14, Enough

(* What an ending object may still be in the way of.                       *)
LEMMA EndingIs ==
  ASSUME Good(stack, use, obj, owns, life), stack # <<>>, NEW o,
         Head(stack).at \in {"member", "base"}, Head(stack).on = o
  PROVE  /\ o \in Objects /\ life[o] # "none"
         /\ \A c \in Blocks : Living(Tail(stack), use, c) /\ owns[c] => obj[c] # o
         /\ In(stack) = In(Tail(stack)) \cup {Head(stack)}
         /\ Head(stack) \notin In(Tail(stack))
         /\ Good(Tail(stack), use, obj, owns, life) /\ Covers(Tail(stack))
         /\ Head(stack).at = "base" => ~Destructing(Tail(stack), o)
<1> DEFINE f0 == Head(stack)
           rest == Tail(stack)
<1>1. /\ f0 \in FrameType /\ In(stack) = In(rest) \cup {f0}
      /\ \A g \in In(rest) : ~Clash(f0, g)
  BY Pop DEF Good
<1>2. Good(rest, use, obj, owns, life) /\ Covers(rest)
  BY PopGood
<1>3. f0 \notin In(rest)
  BY <1>1, ClashSelf
<1> HIDE DEF f0, rest
<1>4. f0.at \in {"member", "base"} /\ f0.on = o /\ Destructing(stack, o)
  BY <1>1 DEF f0, Destructing
<1>5. o \in Objects /\ life[o] # "none"
  BY <1>1, <1>4 DEF Good, FramesOK
<1>6. \A c \in Blocks : Living(rest, use, c) /\ owns[c] => obj[c] # o
  <2>1. \A c \in Blocks : Living(rest, use, c) => Living(stack, use, c)
    BY <1>1 DEF Living
  <2> QED BY <1>4, <2>1 DEF Good, LivingOK
<1>7. f0.at = "base" => ~Destructing(rest, o)
  <2> SUFFICES ASSUME f0.at = "base", NEW f \in In(rest), f.at \in {"member", "base"}, f.on = o
               PROVE  FALSE
    BY DEF Destructing
  <2>1. f.at # "base"
    BY <1>1, <1>4 DEF Clash
  <2>2. f.at # "member"
    BY <1>2 DEF Covers
  <2> QED BY <2>1, <2>2
<1> QED BY <1>1, <1>2, <1>3, <1>5, <1>6, <1>7 DEF f0, rest

LEMMA EndMemberKeeps ==
  ASSUME Core, EndsInOrder, EndMember
  PROVE  Core'
<1> DEFINE o == Head(stack).on
<1>1. /\ ~trapped /\ Structure /\ UseOK /\ WeakOK /\ TypeOK /\ use \in [Blocks -> Nat]
      /\ Good(stack, use, obj, owns, life) /\ stack # <<>> /\ Head(stack).at = "member"
  BY TypesAre DEF EndMember, AtTop, Core, Structure
<1>2. /\ UNCHANGED <<weakThis, obj, owns, weak, wp, trapped>>
      /\ life' = [life EXCEPT ![o] = "ending"]
      /\ sp' = [sp EXCEPT ![o] = NoBlock]
      /\ Release(use, sp[o], Tail(stack))
  BY DEF EndMember, Rest, blocks
<1>3. /\ o \in Objects /\ life[o] # "none"
      /\ \A c \in Blocks : Living(Tail(stack), use, c) /\ owns[c] => obj[c] # o
      /\ In(stack) = In(Tail(stack)) \cup {Head(stack)}
      /\ Good(Tail(stack), use, obj, owns, life) /\ Covers(Tail(stack))
      /\ \A f \in StoreFrames(stack) : f.on # o
  <2>1. o \in Objects /\ In(stack) = In(Tail(stack)) \cup {Head(stack)}
    BY <1>1, EndingIs
  <2>2. Has(stack, "member", o)
    BY <1>1, <2>1 DEF Has
  <2>3. \A f \in StoreFrames(stack) : f.on # o
    BY <2>1, <2>2 DEF EndsInOrder, Has, StoreFrames
  <2> QED BY <1>1, <2>3, EndingIs
<1> HIDE DEF o
<1>4. /\ o \in Slots /\ sp[o] \in BlocksOrNo /\ Wills[o] = sp[o]
  BY <1>1, <1>3 DEF Slots, TypeOK, Wills, WillIn
<1>5. sp[o] # NoBlock => use[sp[o]] > 0
  BY <1>1, <1>4, WillsAreCounted DEF BlocksOrNo
<1>6. life'[o] = "ending" /\ \A a \in Objects \ {o} : life'[a] = life[a]
  BY <1>1, <1>2, <1>3 DEF TypeOK
<1>7. Good(Tail(stack), use, obj, owns, life')
  BY <1>3, <1>6, LifeGood
<1>8. /\ Good(stack', use', obj, owns, life')
      /\ use' \in [Blocks -> Nat]
      /\ \A c \in Blocks : use'[c] = use[c] - Is(sp[o], c)
      /\ StoreFrames(stack') = StoreFrames(Tail(stack))
      /\ \A c \in Blocks : HeldBy(stack', use', c) <=> HeldBy(Tail(stack), use, c)
  BY <1>1, <1>2, <1>3, <1>4, <1>5, <1>7, ReleaseStep
<1>9. StoreFrames(stack') = StoreFrames(stack)
  BY <1>1, <1>3, <1>8 DEF StoreFrames
<1>10. SimpleTypes'
  <2>1. use' \in [Blocks -> 0..MaxUse]
    BY <1>1, <1>8, ReleasedIsLess
  <2> QED BY <1>1, <1>2, <1>3, <1>4, <2>1, TypesAre DEF SimpleTypes, BlocksOrNo
<1>11. Good(stack, use, obj, owns, life)' /\ NoneIsUnwatched'
  BY <1>1, <1>2, <1>6, <1>8 DEF Structure, NoneIsUnwatched
<1>12. UseOK'
  <2>1. Wills'[o] = NoBlock /\ \A x \in Slots \ {o} : Wills'[x] = Wills[x]
    BY <1>1, <1>2, <1>3, <1>4, <1>9, WillWrite DEF TypeOK
  <2>2. \A c \in Blocks : use'[c] = use[c] - Is(Wills[o], c) + Is(Wills'[o], c)
    BY <1>1, <1>4, <1>8, <2>1, SharedFromThisAssumption DEF Is
  <2> QED BY <1>1, <1>4, <2>1, <2>2, UseLedger
<1>13. WeakOK'
  <2>1. \A c \in Blocks : HeldBy(stack', use', c) <=> HeldBy(stack, use, c)
    BY <1>1, <1>3, <1>8 DEF HeldBy
  <2> QED BY <1>1, <1>2, <2>1, WeakStays
<1> QED BY <1>10, <1>11, <1>12, <1>13, Enough

LEMMA EndBaseKeeps ==
  ASSUME Core, EndBase
  PROVE  Core'
<1> DEFINE o == Head(stack).on
<1>1. /\ ~trapped /\ Structure /\ UseOK /\ WeakOK /\ TypeOK
      /\ Good(stack, use, obj, owns, life) /\ stack # <<>> /\ Head(stack).at = "base"
  BY DEF EndBase, AtTop, Core, Structure
<1>2. /\ UNCHANGED <<use, sp, wp, trapped>> /\ stack' = Tail(stack)
      /\ life' = [life EXCEPT ![o] = "none"]
      /\ weakThis' = [weakThis EXCEPT ![o] = NoBlock]
      /\ WeakCounts(Dec(weak, weakThis[o]))
  BY DEF EndBase, Rest
<1>3. /\ o \in Objects
      /\ \A c \in Blocks : Living(Tail(stack), use, c) /\ owns[c] => obj[c] # o
      /\ In(stack) = In(Tail(stack)) \cup {Head(stack)}
      /\ Good(Tail(stack), use, obj, owns, life)
      /\ ~Destructing(Tail(stack), o)
  BY <1>1, EndingIs
<1> HIDE DEF o
<1>4. /\ life'[o] = "none" /\ weakThis'[o] = NoBlock
      /\ \A a \in Objects \ {o} : life'[a] = life[a] /\ weakThis'[a] = weakThis[a]
  BY <1>1, <1>2, <1>3 DEF TypeOK
<1>5. Good(stack', use', obj, owns, life')
  <2>1. Good(Tail(stack), use, obj, owns, life')
    BY <1>3, <1>4, LifeGood
  <2> QED BY <1>2, <2>1
<1>6. UseOK'
  <2>1. StoreFrames(stack') = StoreFrames(stack)
    BY <1>1, <1>2, <1>3 DEF StoreFrames
  <2> QED BY <1>1, <1>2, <2>1, WillsStay, UseStays
<1>7. WeakOK' /\ weak' \in [Blocks -> Int] /\ \A c \in Blocks : weak'[c] <= MaxWeak
  <2>1. \A c \in Blocks : HeldBy(stack', use', c) <=> HeldBy(stack, use, c)
    BY <1>1, <1>2, <1>3 DEF HeldBy
  <2>2. \A c \in Blocks : Held(c)' = Held(c)
    BY <2>1, HeldIs
  <2>3. weak' = Dec(weak, weakThis[o])
    BY <1>2 DEF WeakCounts
  <2>4. /\ weak' \in [Blocks -> Int]
        /\ \A c \in Blocks : weak'[c] = weak[c] - Is(weakThis[o], c)
    BY <1>1, <1>3, <2>3, TypesAre, SharedFromThisAssumption DEF Dec, Is, TypeOK, BlocksOrNo
  <2>5. \A c \in Blocks : /\ weak[c] \in Nat /\ Held(c) \in Nat
                          /\ Is(weakThis[o], c) \in Nat /\ Is(weakThis'[o], c) = 0
    BY <1>1, <1>4, TypesAre, SharedFromThisAssumption DEF Held, Is
  <2>6. \A c \in Blocks :
          weak'[c] = weak[c] - Is(weakThis[o], c) + Is(weakThis'[o], c) - Held(c) + Held(c)'
    BY <1>2, <2>2, <2>4, <2>5
  <2>7. \A c \in Blocks : weak'[c] <= MaxWeak
    <3>1. \A c \in Blocks : weak[c] <= MaxWeak
      BY <1>1, TypesAre DEF SimpleTypes
    <3> QED BY <2>4, <2>5, <3>1, SharedFromThisAssumption
  <2> QED BY <1>1, <1>2, <1>3, <1>4, <2>4, <2>6, <2>7, WeakLedger
<1>8. /\ Good(stack', use', obj', owns', life')
      /\ obj' \in [Blocks -> Objects \cup {NoObject}] /\ owns' \in [Blocks -> BOOLEAN]
  <2>1. WeakCounts(weak')
    BY <1>2 DEF WeakCounts
  <2>2. \A c \in Blocks : HeldBy(stack', use', c) => weak'[c] # 0
    BY <1>7, HeldLasts
  <2> QED BY <1>1, <1>5, <2>1, <2>2, FreeStep
<1>9. SimpleTypes'
  BY <1>1, <1>2, <1>3, <1>7, <1>8, TypesAre DEF SimpleTypes, BlocksOrNo
<1>10. NoneIsUnwatched'
  BY <1>1, <1>4 DEF Structure, NoneIsUnwatched
<1> QED BY <1>6, <1>7, <1>8, <1>9, <1>10, Enough

LEMMA EndOwnersKeeps ==
  ASSUME Core, EndOwners
  PROVE  Core'
<1> DEFINE f0 == Head(stack)
           rest == Tail(stack)
<1>1. /\ ~trapped /\ Structure /\ UseOK /\ WeakOK /\ TypeOK
      /\ Good(stack, use, obj, owns, life) /\ stack # <<>> /\ f0.at = "weak"
  BY DEF EndOwners, AtTop, Core, Structure
<1>2. /\ UNCHANGED <<life, weakThis, use, sp, wp, trapped>> /\ stack' = rest
      /\ WeakCounts(Dec(weak, f0.blk))
  BY DEF EndOwners, Rest, objects
<1>3. /\ f0 \in FrameType /\ In(stack) = In(rest) \cup {f0}
      /\ \A g \in In(rest) : ~Clash(f0, g)
  BY <1>1, Pop DEF Good
<1>4. Good(rest, use, obj, owns, life)
  BY <1>1, PopGood
<1> HIDE DEF f0, rest
<1>5. PICK b \in Blocks :
        b = f0.blk /\ use[b] = 0 /\ \A g \in In(rest) : g.at \in {"body", "weak"} => g.blk # b
  BY <1>1, <1>3 DEF Good, FramesOK, Clash
<1>6. UseOK'
  <2>1. StoreFrames(stack') = StoreFrames(stack)
    BY <1>1, <1>2, <1>3 DEF StoreFrames
  <2> QED BY <1>1, <1>2, <2>1, WillsStay, UseStays
<1>7. WeakOK' /\ weak' \in [Blocks -> Int] /\ \A c \in Blocks : weak'[c] <= MaxWeak
  <2>1. /\ HeldBy(stack, use, b) /\ ~HeldBy(stack', use', b)
        /\ \A c \in Blocks \ {b} : HeldBy(stack', use', c) <=> HeldBy(stack, use, c)
    BY <1>1, <1>2, <1>3, <1>5 DEF HeldBy
  <2>2. Held(b) = 1 /\ Held(b)' = 0 /\ \A c \in Blocks \ {b} : Held(c)' = Held(c)
    <3>1. Held(b) = 1
      BY <2>1, HeldIs
    <3>2. Held(b)' = 0
      BY <2>1, HeldIs
    <3>3. \A c \in Blocks \ {b} : Held(c)' = Held(c)
      BY <2>1, HeldIs
    <3> QED BY <3>1, <3>2, <3>3
  <2>3. weak' = [weak EXCEPT ![b] = @ - 1]
    BY <1>2, <1>5, SharedFromThisAssumption DEF WeakCounts, Dec
  <2>4. weak' \in [Blocks -> Int]
    BY <1>1, <1>5, <2>3, TypesAre
  <2>5. \A c \in Blocks : weak[c] \in Nat /\ Held(c) \in Nat
    BY <1>1, TypesAre DEF Held, Is
  <2>6. \A c \in Blocks : weak'[c] = weak[c] - Held(c) + Held(c)'
    <3>1. /\ weak'[b] = weak[b] - 1
          /\ \A c \in Blocks \ {b} : weak'[c] = weak[c]
      BY <1>1, <1>5, <2>3, TypesAre
    <3> QED BY <1>5, <2>2, <2>5, <3>1
  <2>7. \A c \in Blocks : weak'[c] <= MaxWeak
    <3>1. \A c \in Blocks : weak[c] <= MaxWeak
      BY <1>1, TypesAre DEF SimpleTypes
    <3> QED BY <1>5, <2>3, <2>5, <3>1, SharedFromThisAssumption
  <2> QED BY <1>1, <1>2, <2>4, <2>6, <2>7, WeakLedgerOutside
<1>8. /\ Good(stack', use', obj', owns', life')
      /\ obj' \in [Blocks -> Objects \cup {NoObject}] /\ owns' \in [Blocks -> BOOLEAN]
  <2>1. WeakCounts(weak') /\ Good(stack', use', obj, owns, life')
    BY <1>2, <1>4 DEF WeakCounts
  <2>2. \A c \in Blocks : HeldBy(stack', use', c) => weak'[c] # 0
    BY <1>7, HeldLasts
  <2> QED BY <1>1, <2>1, <2>2, FreeStep
<1>9. SimpleTypes'
  BY <1>1, <1>2, <1>7, <1>8, TypesAre DEF SimpleTypes
<1>10. NoneIsUnwatched'
  BY <1>1, <1>2 DEF Structure, NoneIsUnwatched
<1> QED BY <1>6, <1>7, <1>8, <1>9, <1>10, Enough

-----------------------------------------------------------------------------
(* The steps.                                                              *)

LEMMA InitIsGood == Init => Core
<1> SUFFICES ASSUME Init
             PROVE  Core
  OBVIOUS
<1>1. stack = <<>> /\ In(stack) = {} /\ ~trapped
  BY DEF Init, In
<1>2. Structure
  <2>1. Good(stack, use, obj, owns, life)
    BY <1>1 DEF Good, Apart, FramesOK, LivingOK, SoleOwner, Living, Init
  <2>2. TypeOK
    <3>1. 0 \in 0..MaxUse /\ 0 \in 0..MaxWeak /\ Frames = {}
      BY <1>1, FramesAreIn, SharedFromThisAssumption
    <3>2. use \in [Blocks -> 0..MaxUse] /\ weak \in [Blocks -> 0..MaxWeak]
      BY <3>1 DEF Init
    <3> QED BY <3>1, <3>2 DEF TypeOK, Init, BlocksOrNo
  <2> QED BY <1>1, <2>1, <2>2, FramesAreIn DEF Structure, NoneIsUnwatched, Init
<1>3. UseOK
  <2> SUFFICES ASSUME NEW b \in Blocks
               PROVE  Count(Slots, Wills, b) = 0
    BY DEF UseOK, Init
  <2>1. {s \in Slots : Wills[s] = b} = {}
    BY <1>1, SharedFromThisAssumption DEF Wills, WillIn, StoreFrames, Init
  <2> QED BY <2>1, FS_EmptySet DEF Count
<1>4. WeakOK
  <2> SUFFICES ASSUME NEW b \in Blocks
               PROVE  /\ Count(Objects, weakThis, b) = 0 /\ Count(WeakPtrs, wp, b) = 0 /\ Held(b) = 0
    BY DEF WeakOK, Init
  <2>1. {o \in Objects : weakThis[o] = b} = {} /\ {w \in WeakPtrs : wp[w] = b} = {}
    BY SharedFromThisAssumption DEF Init
  <2>2. Count(Objects, weakThis, b) = 0 /\ Count(WeakPtrs, wp, b) = 0
    BY <2>1, FS_EmptySet DEF Count
  <2>3. Held(b) = 0
    BY <1>1, FramesAreIn DEF Held, Ending, Init
  <2> QED BY <2>2, <2>3
<1> QED BY <1>2, <1>3, <1>4 DEF Core

LEMMA StayKeeps ==
  ASSUME Core, UNCHANGED vars
  PROVE  Core'
<1>1. UNCHANGED <<life, weakThis, obj, owns, use, weak, sp, wp, stack, trapped>>
  BY DEF vars
<1>2. Structure'
  BY <1>1 DEF Core, Structure, TypeOK, NoneIsUnwatched, Frames
<1>3. ~trapped => UseOK' /\ WeakOK'
  BY <1>1, WillsStay, UseStays, WeakStays DEF Core, Structure
<1> QED BY <1>1, <1>2, <1>3 DEF Core

LEMMA CoreKeeps ==
  ASSUME IInv, [Next]_vars
  PROVE  Core'
<1> USE DEF IInv
<1>1. ASSUME NEW s \in Slots, NEW o \in Objects, NEW b \in Blocks, Make(s, o, b) \/ Adopt(s, o, b)
      PROVE  Core'
  BY <1>1, MakeKeeps, AdoptKeeps
<1>2. ASSUME NEW o \in Objects, MakeStatic(o) \/ EndStatic(o)
      PROVE  Core'
  BY <1>2, MakeStaticKeeps, EndStaticKeeps
<1>3. ASSUME NEW s \in Slots, NEW o \in Objects, SharedFromThis(s, o)
      PROVE  Core'
  BY <1>3, SharedFromThisKeeps
<1>4. ASSUME NEW s \in Slots, NEW w \in WeakPtrs, Lock(s, w)
      PROVE  Core'
  BY <1>4, LockKeeps
<1>5. ASSUME NEW s \in Slots, Reset(s)
      PROVE  Core'
  BY <1>5, ResetKeeps
<1>6. ASSUME NEW s \in Slots, NEW r \in Slots, CopyAssign(s, r) \/ MoveAssign(s, r)
      PROVE  Core'
  BY <1>6, CopyAssignKeeps, MoveAssignKeeps
<1>7. ASSUME NEW w \in WeakPtrs, ResetWeak(w) \/ \E o \in Objects : WeakFromThis(w, o)
      PROVE  Core'
  BY <1>7, ResetWeakKeeps, WeakFromThisKeeps
<1>8. CASE Library
  BY <1>8, StoreKeeps, EndBodyKeeps, EndMemberKeeps, EndBaseKeeps, EndOwnersKeeps DEF Library
<1>9. CASE UNCHANGED vars
  BY <1>9, StayKeeps
<1> QED BY <1>1, <1>2, <1>3, <1>4, <1>5, <1>6, <1>7, <1>8, <1>9 DEF Next, Client

-----------------------------------------------------------------------------
(* The order of the ends.                                                  *)

LEMMA HasPushed ==
  ASSUME NEW f, NEW rest \in Seq(FrameType), NEW at, NEW o
  PROVE  Has(<<f>> \o rest, at, o) <=> Has(rest, at, o) \/ (f.at = at /\ f.on = o)
BY InPush DEF Has

(* A release adds at most a body.                                          *)
LEMMA HasReleased ==
  ASSUME NEW u, NEW b, NEW st \in Seq(FrameType), Release(u, b, st)
  PROVE  \A at \in {"member", "base", "store"} : \A o : Has(stack', at, o) <=> Has(st, at, o)
<1>1. Frame("body", obj[b], b).at = "body"
  BY DEF Frame
<1> QED BY <1>1, HasPushed DEF Release

LEMMA EndsStay ==
  ASSUME EndsInOrder,
         \A at \in {"member", "base", "store"} : \A o \in Objects : Has(stack', at, o) <=> Has(stack, at, o),
         \A o \in Objects : life'[o] = life[o] \/ (life'[o] = "alive" /\ ~Has(stack, "base", o))
  PROVE  EndsInOrder'
BY DEF EndsInOrder

LEMMA EndsStep ==
  ASSUME IInv, [Next]_vars
  PROVE  EndsInOrder'
<1>1. /\ TypeOK /\ stack \in Seq(FrameType) /\ Apart(stack) /\ Core' /\ EndsInOrder
      /\ stack' \in Seq(FrameType) /\ FramesOK(stack, use, obj, life)
  BY CoreKeeps DEF IInv, Core, Structure, Good
<1>2. ASSUME stack # <<>>
      PROVE  /\ Tail(stack) \in Seq(FrameType) /\ Head(stack) \in FrameType
             /\ \A at, o : Has(stack, at, o) <=>
                  Has(Tail(stack), at, o) \/ (Head(stack).at = at /\ Head(stack).on = o)
             /\ \A at, o : at \in {"member", "base", "store"} =>
                  ~(Has(Tail(stack), at, o) /\ Head(stack).at = at /\ Head(stack).on = o)
  BY <1>1, <1>2, Pop DEF Has, Clash
<1>3. ASSUME NEW o \in Objects, life[o] = "none" \/ life[o] = "alive", Calling
      PROVE  ~Has(stack, "base", o) /\ ~Has(stack, "member", o)
  <2>1. ~Has(stack, "member", o)
    BY <1>1, <1>3, CallingCovers DEF IInv, Core, Covers, Has
  <2>2. life[o] = "none" => ~Has(stack, "base", o)
    BY <1>1 DEF FramesOK, Has
  <2> QED BY <1>1, <1>3, <2>1, <2>2 DEF EndsInOrder
<1>4. ASSUME NEW o \in Objects, Calling, life[o] = "none",
             life' = [life EXCEPT ![o] = "alive"], stack' = stack
      PROVE  EndsInOrder'
  <2>1. \A a \in Objects : life'[a] = life[a] \/ (life'[a] = "alive" /\ ~Has(stack, "base", a))
    BY <1>1, <1>3, <1>4 DEF TypeOK
  <2> QED BY <1>1, <1>4, <2>1, EndsStay
<1>5. ASSUME stack' = stack, life' = life
      PROVE  EndsInOrder'
  BY <1>1, <1>5, EndsStay
<1>6. ASSUME NEW s \in Slots, NEW r \in Slots, CopyAssign(s, r)
      PROVE  EndsInOrder'
  <2> DEFINE f == Frame("store", s, sp[r])
             st == <<f>> \o stack
  <2>1. /\ Release(Inc(use, sp[r]), sp[s], st) /\ life' = life
        /\ Calling /\ (s \in Objects => life[s] = "alive")
    BY <1>6 DEF CopyAssign, objects, Usable
  <2>2. f \in FrameType /\ f.at = "store" /\ f.on = s
    BY <1>1 DEF Frame, FrameType, TypeOK
  <2> HIDE DEF f
  <2>3. st \in Seq(FrameType) /\ \A at, o : Has(st, at, o) <=> Has(stack, at, o) \/ (f.at = at /\ f.on = o)
    BY <1>1, <2>2, PushType, HasPushed
  <2> HIDE DEF st
  <2>4. \A at \in {"member", "base", "store"} : \A o : Has(stack', at, o) <=> Has(st, at, o)
    BY <2>1, <2>3, HasReleased
  <2>5. \A o : Has(stack', "member", o) <=> Has(stack, "member", o)
    BY <2>2, <2>3, <2>4
  <2>6. \A o : Has(stack', "base", o) <=> Has(stack, "base", o)
    BY <2>2, <2>3, <2>4
  <2>7. \A o : Has(stack', "store", o) => Has(stack, "store", o) \/ o = s
    BY <2>2, <2>3, <2>4
  <2>8. s \in Objects => ~Has(stack, "base", s) /\ ~Has(stack, "member", s)
    BY <1>3, <2>1
  <2> QED BY <1>1, <2>1, <2>5, <2>6, <2>7, <2>8 DEF EndsInOrder
<1>7. ASSUME NEW s \in Slots, (\E r \in Slots : MoveAssign(s, r)) \/ Reset(s)
      PROVE  EndsInOrder'
  <2>1. Release(use, sp[s], stack) /\ life' = life
    BY <1>7 DEF MoveAssign, Reset, objects
  <2>2. \A at \in {"member", "base", "store"} : \A o : Has(stack', at, o) <=> Has(stack, at, o)
    BY <1>1, <2>1, HasReleased
  <2> QED BY <1>1, <2>1, <2>2, EndsStay
<1>8. ASSUME NEW o \in Objects, NEW rest \in Seq(FrameType), Destructor(o) \o rest \in Seq(FrameType)
      PROVE  \A at, a : Has(Destructor(o) \o rest, at, a) <=>
               Has(rest, at, a) \/ (at \in {"member", "base"} /\ a = o)
  <2> DEFINE m == Frame("member", o, NoBlock)
             e == Frame("base", o, NoBlock)
  <2>1. m \in FrameType /\ e \in FrameType
    BY DEF Frame, FrameType, Slots, BlocksOrNo
  <2>2. Destructor(o) \o rest = <<m>> \o (<<e>> \o rest)
    <3>1. <<m>> \in Seq(FrameType) /\ <<e>> \in Seq(FrameType)
      BY <2>1
    <3>2. <<m>> \o (<<e>> \o rest) = (<<m>> \o <<e>>) \o rest
      BY <3>1, ConcatAssociative
    <3>3. Destructor(o) = <<m>> \o <<e>>
      BY DEF Destructor
    <3> QED BY <3>2, <3>3
  <2> HIDE DEF m, e
  <2>3. <<e>> \o rest \in Seq(FrameType)
    BY <2>1, PushType
  <2>4. \A at, a : Has(<<m>> \o (<<e>> \o rest), at, a) <=>
          Has(rest, at, a) \/ (e.at = at /\ e.on = a) \/ (m.at = at /\ m.on = a)
    BY <2>3, HasPushed
  <2>5. m.at = "member" /\ m.on = o /\ e.at = "base" /\ e.on = o
    BY DestructorIs DEF m, e
  <2> QED BY <2>2, <2>4, <2>5
<1>9. ASSUME NEW o \in Objects, NEW rest \in Seq(FrameType),
             stack' = Destructor(o) \o rest, life' = life,
             \A at \in {"member", "base", "store"} : \A a : Has(rest, at, a) => Has(stack, at, a),
             \A at \in {"member", "base"} : \A a : Has(stack, at, a) => Has(rest, at, a),
             ~Has(rest, "store", o)
      PROVE  EndsInOrder'
  <2>1. \A at, a : Has(stack', at, a) <=> Has(rest, at, a) \/ (at \in {"member", "base"} /\ a = o)
    BY <1>1, <1>8, <1>9
  <2>2. \A a : /\ Has(stack', "member", a) <=> Has(stack, "member", a) \/ a = o
               /\ Has(stack', "base", a) <=> Has(stack, "base", a) \/ a = o
               /\ Has(stack', "store", a) => Has(stack, "store", a) /\ a # o
    BY <1>9, <2>1
  <2> QED BY <1>1, <1>9, <2>2 DEF EndsInOrder
<1>10. ASSUME NEW o \in Objects, EndStatic(o)
       PROVE  EndsInOrder'
  <2>1. stack = <<>> /\ life' = life /\ stack' = Destructor(o)
    BY <1>10 DEF EndStatic, objects
  <2>2. stack' = Destructor(o) \o stack
    BY <2>1 DEF Destructor
  <2>3. ~Has(stack, "store", o)
    BY <2>1 DEF Has, In
  <2> QED BY <1>1, <1>9, <2>1, <2>2, <2>3
<1>11. CASE Store \/ EndOwners
  <2>1. /\ stack # <<>> /\ stack' = Tail(stack) /\ life' = life
        /\ Head(stack).at \in {"store", "weak"}
    BY <1>11 DEF Store, EndOwners, AtTop, Rest, objects
  <2>2. \A o : /\ Has(stack', "member", o) <=> Has(stack, "member", o)
               /\ Has(stack', "base", o) <=> Has(stack, "base", o)
               /\ Has(stack', "store", o) => Has(stack, "store", o)
    BY <1>2, <2>1
  <2> QED BY <1>1, <2>1, <2>2 DEF EndsInOrder
<1>12. CASE EndBody
  <2> DEFINE f == Head(stack)
             w == Frame("weak", f.on, f.blk)
             st == <<w>> \o Tail(stack)
  <2>1. /\ stack # <<>> /\ f.at = "body" /\ life' = life
        /\ stack' = (IF owns[f.blk] THEN Destructor(f.on) ELSE <<>>) \o <<w>> \o Tail(stack)
        /\ owns[f.blk] => ~Awaits(f.on)
    BY <1>12 DEF EndBody, AtTop, Rest, objects
  <2>2. f \in FrameType /\ w \in FrameType /\ w.at = "weak" /\ Tail(stack) \in Seq(FrameType)
    BY <1>2, <2>1 DEF FrameType, Frame
  <2>3. f.on \in Objects
    BY <1>1, <1>2, <2>1, BodyIsObject DEF IInv, Core, Structure
  <2>4. st \in Seq(FrameType) /\ \A at, o : Has(st, at, o) <=> Has(Tail(stack), at, o) \/ (w.at = at /\ w.on = o)
    <3> HIDE DEF w
    <3> QED BY <2>2, PushType, HasPushed
  <2>5. \A at \in {"member", "base", "store"} : \A o : Has(st, at, o) <=> Has(stack, at, o)
    BY <1>2, <2>1, <2>2, <2>4
  <2>6. CASE ~owns[f.blk]
    <3>1. stack' = st
      BY <2>1, <2>2, <2>6
    <3> QED BY <1>1, <2>1, <2>5, <3>1, EndsStay
  <2>7. CASE owns[f.blk]
    <3>1. stack' = Destructor(f.on) \o st
      <4>1. Destructor(f.on) \in Seq(FrameType) /\ <<w>> \in Seq(FrameType)
        BY <2>2, <2>3 DEF Destructor, Frame, FrameType, Slots, BlocksOrNo
      <4> HIDE DEF Destructor, w
      <4>2. (Destructor(f.on) \o <<w>>) \o Tail(stack) = Destructor(f.on) \o (<<w>> \o Tail(stack))
        BY <2>2, <4>1, ConcatAssociative
      <4> QED BY <2>1, <2>7, <4>2
    <3>2. ~Has(stack, "store", f.on)
      BY <2>1, <2>7 DEF Awaits, Has, In
    <3> HIDE DEF st, f
    <3> QED BY <1>9, <2>1, <2>3, <2>4, <2>5, <3>1, <3>2
  <2> QED BY <2>6, <2>7
<1>13. CASE EndMember
  <2> DEFINE f == Head(stack)
  <2>1. /\ stack # <<>> /\ f.at = "member" /\ life' = [life EXCEPT ![f.on] = "ending"]
        /\ Release(use, sp[f.on], Tail(stack))
    BY <1>13 DEF EndMember, AtTop, Rest
  <2>2. f.on \in Objects
    BY <1>1, <1>2, <2>1, Pop DEF FramesOK
  <2>3. \A at \in {"member", "base", "store"} : \A o : Has(stack', at, o) <=> Has(Tail(stack), at, o)
    BY <1>2, <2>1, HasReleased
  <2>4. \A o : /\ Has(stack', "member", o) <=> Has(stack, "member", o) /\ o # f.on
               /\ Has(stack', "base", o) <=> Has(stack, "base", o)
               /\ Has(stack', "store", o) <=> Has(stack, "store", o)
    BY <1>2, <2>1, <2>3
  <2>5. Has(stack, "member", f.on)
    BY <1>2, <2>1
  <2>6. life'[f.on] = "ending" /\ \A o \in Objects \ {f.on} : life'[o] = life[o]
    BY <1>1, <2>1, <2>2 DEF TypeOK
  <2> QED BY <1>1, <2>4, <2>5, <2>6 DEF EndsInOrder
<1>14. CASE EndBase
  <2> DEFINE f == Head(stack)
  <2>1. /\ stack # <<>> /\ f.at = "base" /\ life' = [life EXCEPT ![f.on] = "none"]
        /\ stack' = Tail(stack)
    BY <1>14 DEF EndBase, AtTop, Rest
  <2>2. f.on \in Objects /\ \A o : ~Has(stack, "member", o)
    BY <1>1, <1>2, <2>1, Pop DEF FramesOK, Has
  <2>3. \A o : /\ ~Has(stack', "member", o)
               /\ Has(stack', "base", o) <=> Has(stack, "base", o) /\ o # f.on
               /\ Has(stack', "store", o) <=> Has(stack, "store", o)
    BY <1>2, <2>1, <2>2
  <2>4. life'[f.on] = "none" /\ \A o \in Objects \ {f.on} : life'[o] = life[o]
    BY <1>1, <2>1, <2>2 DEF TypeOK
  <2> QED BY <1>1, <2>2, <2>3, <2>4 DEF EndsInOrder
<1>15. ASSUME NEW o \in Objects,
              MakeStatic(o) \/ \E s \in Slots, b \in Blocks : Make(s, o, b)
       PROVE  EndsInOrder'
  BY <1>4, <1>15 DEF Make, MakeStatic
<1>16. ASSUME \/ \E w \in WeakPtrs : ResetWeak(w)
              \/ \E w \in WeakPtrs, s \in Slots : Lock(s, w)
              \/ \E w \in WeakPtrs, o \in Objects : WeakFromThis(w, o)
              \/ \E s \in Slots, o \in Objects : SharedFromThis(s, o)
              \/ \E s \in Slots, o \in Objects, b \in Blocks : Adopt(s, o, b)
       PROVE  EndsInOrder'
  BY <1>5, <1>16 DEF Adopt, SharedFromThis, WeakFromThis, Lock, ResetWeak, objects
<1>17. CASE UNCHANGED vars
  BY <1>5, <1>17 DEF vars, objects
<1> QED
  BY <1>6, <1>7, <1>10, <1>11, <1>12, <1>13, <1>14, <1>15, <1>16, <1>17
     DEF Next, Client, Library

-----------------------------------------------------------------------------
(* The theorems.                                                           *)

(* Whatever the client's operations, and wherever its deleters and         *)
(* destructors run them: the inductive invariant holds.                    *)
THEOREM SharedFromThisInvariant == Spec => []IInv
<1>1. Init => IInv
  BY InitIsGood DEF IInv, Init, EndsInOrder, Has, In
<1>2. IInv /\ [Next]_vars => IInv'
  BY CoreKeeps, EndsStep DEF IInv
<1> QED BY <1>1, <1>2, PTL DEF Spec

(* The counts of a block are those of the shared_ptrs and weak_ptrs that   *)
(* have it, pending stores counted, whenever client code runs under        *)
(* unfinished operations; and the state keeps its types, so that no count  *)
(* was ever decremented below zero.                                        *)
THEOREM CountsAreExact == Spec => []CountsExact
BY SharedFromThisInvariant, InvariantIsExact, PTL

(* A shared_ptr that client code reads, in a deleter or a destructor too,  *)
(* names a block that is not ending, and an object that is alive if the    *)
(* block is the one to delete it.                                          *)
THEOREM OwnersAlwaysSeeTheirObject == Spec => []OwnersSeeObject
BY SharedFromThisInvariant, InvariantOwnersSee, PTL

(* No object is destroyed twice and no block is ended twice, also after a  *)
(* count has overflowed; a block that is ending exists, until one has.     *)
THEOREM EverythingEndsOnce == Spec => []EndsOnce
BY SharedFromThisInvariant, InvariantEndsOnce, PTL

LEMMA FirstOwnerStep ==
  ASSUME IInv, [Next]_vars, NEW o \in Objects, ~Expired(weakThis[o]), life'[o] = "alive"
  PROVE  weakThis'[o] = weakThis[o]
<1>1. TypeOK /\ (life[o] = "none" => weakThis[o] = NoBlock)
  BY DEF IInv, Core, Structure, NoneIsUnwatched
<1>2. life[o] # "none"
  BY <1>1 DEF Expired
<1>3. ASSUME NEW s \in Slots, NEW a \in Objects, NEW b \in Blocks, Make(s, a, b)
      PROVE  weakThis'[o] = weakThis[o]
  BY <1>1, <1>2, <1>3 DEF Make, TypeOK
<1>4. ASSUME NEW s \in Slots, NEW a \in Objects, NEW b \in Blocks, Adopt(s, a, b)
      PROVE  weakThis'[o] = weakThis[o]
  BY <1>1, <1>4 DEF Adopt, Assigns, TypeOK
<1>5. CASE EndBase
  BY <1>1, <1>5 DEF EndBase, TypeOK
<1>6. ASSUME NEW a \in Objects, MakeStatic(a) \/ EndStatic(a)
      PROVE  weakThis'[o] = weakThis[o]
  BY <1>6 DEF MakeStatic, EndStatic, objects
<1>7. ASSUME NEW s \in Slots, NEW a \in Objects, SharedFromThis(s, a)
      PROVE  weakThis'[o] = weakThis[o]
  BY <1>7 DEF SharedFromThis, objects
<1>8. ASSUME NEW s \in Slots, Reset(s) \/ \E w \in WeakPtrs : Lock(s, w)
      PROVE  weakThis'[o] = weakThis[o]
  BY <1>8 DEF Lock, Reset, objects
<1>9. ASSUME NEW s \in Slots, NEW r \in Slots, CopyAssign(s, r) \/ MoveAssign(s, r)
      PROVE  weakThis'[o] = weakThis[o]
  BY <1>9 DEF CopyAssign, MoveAssign, objects
<1>10. ASSUME NEW w \in WeakPtrs, ResetWeak(w) \/ \E a \in Objects : WeakFromThis(w, a)
       PROVE  weakThis'[o] = weakThis[o]
  BY <1>10 DEF ResetWeak, WeakFromThis, objects
<1>11. CASE Store \/ EndBody \/ EndMember \/ EndOwners
  BY <1>11 DEF Store, EndBody, EndMember, EndOwners, objects
<1>12. CASE UNCHANGED vars
  BY <1>12 DEF vars
<1> QED
  BY <1>3, <1>4, <1>5, <1>6, <1>7, <1>8, <1>9, <1>10, <1>11, <1>12 DEF Next, Client, Library

(* While an object is alive and has the owner that _M_weak_this refers to, *)
(* no step gives it another one.                                           *)
THEOREM TheFirstOwnerStays == Spec => FirstOwnerStays
<1>1. IInv /\ [Next]_vars =>
        \A o \in Objects :
          ~Expired(weakThis[o]) /\ life'[o] = "alive" => weakThis'[o] = weakThis[o]
  BY FirstOwnerStep
<1>2. IInv /\ [Next]_vars =>
        [\A o \in Objects :
           ~Expired(weakThis[o]) /\ life'[o] = "alive" => weakThis'[o] = weakThis[o]]_vars
  BY <1>1
<1> QED BY <1>2, SharedFromThisInvariant, PTL DEF Spec, FirstOwnerStays

LEMMA NewOwnerStep ==
  ASSUME IInv, [Next]_vars, NEW b \in Blocks, weak[b] = 0, weak'[b] > 0
  PROVE  use'[weakThis'[obj'[b]]] > 0
<1>1. TypeOK /\ Structure /\ weak \in [Blocks -> Nat] /\ use \in [Blocks -> Nat]
  BY TypesAre DEF IInv, Core, Structure
<1>2. ~trapped => WeakOK
  BY DEF IInv, Core
<1>3. \A x \in BlocksOrNo : Dec(weak, x)[b] <= 0
  BY <1>1, SharedFromThisAssumption DEF Dec, BlocksOrNo
<1>4. ASSUME NEW x \in BlocksOrNo, WeakCounts(Dec(weak, x))
      PROVE  FALSE
  <2>1. weak' = Dec(weak, x)
    BY <1>4 DEF WeakCounts
  <2>2. Dec(weak, x)[b] \in Int
    BY <1>1, SharedFromThisAssumption DEF Dec, BlocksOrNo
  <2> QED BY <1>3, <2>1, <2>2
<1>5. weak' # weak
  BY <1>1
<1>6. ASSUME NEW s \in Slots, NEW o \in Objects, NEW c \in Blocks, Make(s, o, c)
      PROVE  use'[weakThis'[obj'[b]]] > 0
  <2>1. c = b
    BY <1>1, <1>6 DEF Make
  <2>2. obj'[b] = o /\ weakThis'[o] = b /\ use'[b] = 1
    BY <1>1, <1>6, <2>1 DEF Make, TypeOK
  <2> QED BY <2>2
<1>7. ASSUME NEW s \in Slots, NEW o \in Objects, NEW c \in Blocks, Adopt(s, o, c)
      PROVE  use'[weakThis'[obj'[b]]] > 0
  <2>1. ~trapped /\ use' = [use EXCEPT ![c] = 1]
    BY <1>7 DEF Adopt, Calling
  <2>2. c = b
    <3> SUFFICES ASSUME c # b
                 PROVE  FALSE
      OBVIOUS
    <3>1. weakThis[o] \in BlocksOrNo
      BY <1>1 DEF TypeOK
    <3>2. weak'[b] = weak[b] \/ weak'[b] = Dec(weak, weakThis[o])[b]
      BY <1>1, <1>7, <3>1, SharedFromThisAssumption DEF Adopt, Dec, BlocksOrNo
    <3>3. Dec(weak, weakThis[o])[b] \in Int
      BY <1>1, <3>1, SharedFromThisAssumption DEF Dec, BlocksOrNo
    <3> QED BY <1>3, <3>1, <3>2, <3>3
  <2>3. obj'[b] = o
    BY <1>7, <2>2 DEF Adopt
  <2>4. CASE Assigns(o)
    BY <1>1, <1>7, <2>1, <2>2, <2>3, <2>4 DEF Adopt, TypeOK
  <2>5. CASE ~Assigns(o)
    <3>1. weakThis'[o] = weakThis[o] /\ weakThis[o] \in Blocks /\ use[weakThis[o]] # 0
      BY <1>1, <1>7, <2>5 DEF Adopt, Assigns, Expired, TypeOK, BlocksOrNo
    <3>2. weakThis[o] # b
      BY <1>1, <1>2, <2>1, CountedNow
    <3> QED BY <1>1, <2>1, <2>2, <2>3, <3>1, <3>2
  <2> QED BY <2>4, <2>5
<1>8. ASSUME NEW w \in WeakPtrs, NEW o \in Objects, WeakFromThis(w, o)
      PROVE  FALSE
  <2>1. ~trapped /\ weakThis[o] \in Blocks
    BY <1>1, <1>8 DEF WeakFromThis, WeakAddRef, Calling, TypeOK, BlocksOrNo
  <2>2. weakThis[o] = b
    BY <1>1, <1>8, <2>1 DEF WeakFromThis, WeakAddRef
  <2> QED BY <1>1, <1>2, <2>1, <2>2, CountedNow
<1>9. CASE EndBase
  <2>1. weakThis[Head(stack).on] \in BlocksOrNo
    BY <1>1, <1>9, EndingIs DEF EndBase, AtTop, Structure, TypeOK
  <2> QED BY <1>4, <1>9, <2>1 DEF EndBase
<1>10. CASE EndOwners
  <2>1. Head(stack).blk \in BlocksOrNo
    BY <1>1, <1>10, Pop DEF EndOwners, AtTop, Structure, Good, FrameType
  <2> QED BY <1>4, <1>10, <2>1 DEF EndOwners
<1>11. ASSUME NEW w \in WeakPtrs, ResetWeak(w)
       PROVE  FALSE
  <2>1. wp[w] \in BlocksOrNo
    BY <1>1 DEF TypeOK
  <2> QED BY <1>4, <1>11, <2>1 DEF ResetWeak
<1>12. ASSUME NEW o \in Objects, MakeStatic(o) \/ EndStatic(o)
       PROVE  FALSE
  BY <1>5, <1>12 DEF MakeStatic, EndStatic
<1>13. ASSUME NEW s \in Slots, NEW o \in Objects, SharedFromThis(s, o)
       PROVE  FALSE
  BY <1>5, <1>13 DEF SharedFromThis
<1>14. ASSUME NEW s \in Slots, Reset(s) \/ \E w \in WeakPtrs : Lock(s, w)
       PROVE  FALSE
  BY <1>5, <1>14 DEF Lock, Reset
<1>15. ASSUME NEW s \in Slots, NEW r \in Slots, CopyAssign(s, r) \/ MoveAssign(s, r)
       PROVE  FALSE
  BY <1>5, <1>15 DEF CopyAssign, MoveAssign
<1>16. CASE Store \/ EndBody \/ EndMember
  BY <1>5, <1>16 DEF Store, EndBody, EndMember
<1>17. CASE UNCHANGED vars
  BY <1>5, <1>17 DEF vars
<1> QED
  BY <1>6, <1>7, <1>8, <1>9, <1>10, <1>11, <1>12, <1>13, <1>14, <1>15, <1>16, <1>17
     DEF Next, Client, Library

(* A step that makes a block leaves its object with an owner that          *)
(* shared_from_this() finds: the new one, or the one it had.               *)
THEOREM TheNewOwnerShares == Spec => NewOwnerShares
<1>1. IInv /\ [Next]_vars =>
        \A b \in Blocks :
          weak[b] = 0 /\ weak'[b] > 0 => use'[weakThis'[obj'[b]]] > 0
  BY NewOwnerStep
<1>2. IInv /\ [Next]_vars =>
        [\A b \in Blocks :
           weak[b] = 0 /\ weak'[b] > 0 => use'[weakThis'[obj'[b]]] > 0]_vars
  BY <1>1
<1> QED BY <1>2, SharedFromThisInvariant, PTL DEF Spec, NewOwnerShares

(* An expired block stays expired: neither shared_from_this() in a         *)
(* destructor, nor lock() or an assignment in a deleter, gives a block an  *)
(* owner again.                                                            *)
ExpiredStays ==
  \A b \in Blocks : weak[b] > 0 /\ use[b] = 0 /\ weak'[b] > 0 => use'[b] = 0

LEMMA ExpiredStep ==
  ASSUME IInv, Next, NEW b \in Blocks, weak[b] > 0, use[b] = 0
  PROVE  use'[b] = 0
<1>1. TypeOK /\ Structure /\ use \in [Blocks -> Nat]
  BY TypesAre DEF IInv, Core, Structure
<1>2. use'[b] \in Nat
  <2>1. Structure'
    BY CoreKeeps DEF Core
  <2>2. use' \in [Blocks -> 0..MaxUse]
    BY <2>1 DEF Structure, TypeOK
  <2> QED BY <2>2, SharedFromThisAssumption
<1>3. ASSUME NEW u, NEW x, NEW rest, u[b] = 0, u \in [Blocks -> Nat], Release(u, x, rest)
      PROVE  use'[b] = 0
  <2>1. use' = Dec(u, x)
    BY <1>3 DEF Release
  <2>2. Dec(u, x)[b] <= 0
    BY <1>3 DEF Dec
  <2> QED BY <1>2, <2>1, <2>2
<1>4. ASSUME NEW x \in Blocks, use[x] # 0, use' = Inc(use, x)
      PROVE  use'[b] = 0
  BY <1>1, <1>4, IncIs
<1>5. CASE use' = use
  BY <1>5
<1>6. ASSUME NEW s \in Slots, NEW o \in Objects, NEW c \in Blocks, Make(s, o, c) \/ Adopt(s, o, c)
      PROVE  use'[b] = 0
  <2>1. use' = [use EXCEPT ![c] = 1] /\ c # b
    BY <1>6 DEF Make, Adopt
  <2> QED BY <1>1, <2>1
<1>7. ASSUME NEW s \in Slots, NEW o \in Objects, SharedFromThis(s, o)
      PROVE  use'[b] = 0
  <2>1. weakThis[o] \in Blocks /\ use[weakThis[o]] # 0 /\ use' = Inc(use, weakThis[o])
    BY <1>1, <1>7 DEF SharedFromThis, Expired, TypeOK, BlocksOrNo
  <2> QED BY <1>4, <2>1
<1>8. ASSUME NEW s \in Slots, NEW w \in WeakPtrs, Lock(s, w)
      PROVE  use'[b] = 0
  <2>1. wp[w] \in Blocks /\ use[wp[w]] # 0 /\ use' = Inc(use, wp[w])
    BY <1>1, <1>8 DEF Lock, Expired, TypeOK, BlocksOrNo
  <2> QED BY <1>4, <2>1
<1>9. ASSUME NEW s \in Slots, NEW r \in Slots, CopyAssign(s, r)
      PROVE  use'[b] = 0
  <2>1. /\ ~trapped /\ sp[r] \in BlocksOrNo /\ Wills[r] = sp[r]
        /\ Release(Inc(use, sp[r]), sp[s], <<Frame("store", s, sp[r])>> \o stack)
    BY <1>1, <1>9, UsableIs DEF CopyAssign, Calling, TypeOK
  <2>2. CASE sp[r] = NoBlock
    BY <1>1, <1>3, <2>1, <2>2 DEF Inc
  <2>3. CASE sp[r] # NoBlock
    <3>1. sp[r] \in Blocks /\ use[sp[r]] > 0
      BY <2>1, <2>3, WillsAreCounted DEF IInv, BlocksOrNo
    <3>2. Inc(use, sp[r])[b] = 0
      BY <1>1, <3>1, IncIs
    <3>3. Inc(use, sp[r]) \in [Blocks -> Nat]
      <4>1. Inc(use, sp[r]) \in [Blocks -> 0..MaxUse] /\ 0..MaxUse \subseteq Nat
        BY <1>1, <3>1, IncIs, SharedFromThisAssumption
      <4> QED BY <4>1
    <3> QED BY <1>3, <2>1, <3>2, <3>3
  <2> QED BY <2>2, <2>3
<1>10. ASSUME NEW s \in Slots, NEW r \in Slots, MoveAssign(s, r)
       PROVE  use'[b] = 0
  BY <1>1, <1>3, <1>10 DEF MoveAssign
<1>11. ASSUME NEW s \in Slots, Reset(s)
       PROVE  use'[b] = 0
  BY <1>1, <1>3, <1>11 DEF Reset
<1>12. CASE EndMember
  BY <1>1, <1>3, <1>12 DEF EndMember
<1>13. ASSUME NEW o \in Objects,
              MakeStatic(o) \/ EndStatic(o) \/ \E w \in WeakPtrs : WeakFromThis(w, o)
       PROVE  use'[b] = 0
  BY <1>5, <1>13 DEF MakeStatic, EndStatic, WeakFromThis
<1>14. CASE (\E w \in WeakPtrs : ResetWeak(w)) \/ Store \/ EndBody \/ EndBase \/ EndOwners
  BY <1>5, <1>14 DEF ResetWeak, Store, EndBody, EndBase, EndOwners
<1> QED
  BY <1>6, <1>7, <1>8, <1>9, <1>10, <1>11, <1>12, <1>13, <1>14 DEF Next, Client, Library

(* No block whose owners are gone gets an owner again while it exists,     *)
(* whoever calls shared_from_this() or lock() from a destructor.           *)
THEOREM ExpiredIsForever == Spec => [][ExpiredStays]_vars
<1>1. IInv /\ [Next]_vars => [ExpiredStays]_vars
  BY ExpiredStep DEF ExpiredStays
<1> QED BY <1>1, SharedFromThisInvariant, PTL DEF Spec

NothingHalfEnded == stack = <<>> => \A o \in Objects : life[o] # "ending"

(* When the client's outermost call has returned, no object is left whose  *)
(* destructor has begun: whatever the deleters and destructors did under   *)
(* it, every end was carried through.                                      *)
THEOREM NothingIsHalfEnded == Spec => []NothingHalfEnded
<1>1. IInv => NothingHalfEnded
  BY DEF IInv, EndsInOrder, NothingHalfEnded, Has, In
<1> QED BY <1>1, SharedFromThisInvariant, PTL
=============================================================================
