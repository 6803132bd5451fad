----------------------------- MODULE IrqFlowProofs -----------------------------
(***************************************************************************)
(* TLAPS proofs about IrqFlow, on one CPU and on several, with the level   *)
(* and with the edge flow, for any number of drivers and entries.          *)
(***************************************************************************)
EXTENDS IrqFlow, FiniteSetTheorems, SequenceTheorems, TLAPS

-------------------------------------------------------------------------------
(* The chain of actions, for a chain c and the next pointers g of the       *)
(* actions that are unlinked                                                *)

InChain(c, d) == \E k \in 1..Len(c) : c[k] = d
Place(c, d) == CHOOSE k \in 1..Len(c) : c[k] = d
Follows(c, g, d) == IF ~InChain(c, d) THEN g[d]
                    ELSE IF Place(c, d) = Len(c) THEN Null ELSE c[Place(c, d) + 1]
Once(c) == \A j, k \in 1..Len(c) : c[j] = c[k] => j = k

\* The operators of the model, in terms of these.
LEMMA ChainOps ==
    ASSUME chain \in Seq(Dev)
    PROVE  /\ IsInjective(chain) <=> Once(chain)
           /\ \A d : Linked(d) <=> InChain(chain, d)
           /\ \A d : Position(d) = Place(chain, d)
           /\ \A d : NextAction(d) = Follows(chain, gone, d)
  <1>1. DOMAIN chain = 1..Len(chain)
    BY LenProperties
  <1>2. /\ IsInjective(chain) <=> Once(chain)
        /\ \A d : Linked(d) <=> InChain(chain, d)
        /\ \A d : Position(d) = Place(chain, d)
    BY <1>1 DEF IsInjective, Once, Linked, InChain, Position, Place
  <1>. QED BY <1>2 DEF NextAction, Follows

\* The same in the next state.
LEMMA ChainOpsPrime ==
    ASSUME chain' \in Seq(Dev)
    PROVE  /\ IsInjective(chain') <=> Once(chain')
           /\ \A d : Linked(d)' <=> InChain(chain', d)
           /\ \A d : NextAction(d)' = Follows(chain', gone', d)
  <1>1. DOMAIN chain' = 1..Len(chain')
    BY LenProperties
  <1>2. /\ IsInjective(chain') <=> Once(chain')
        /\ \A d : Linked(d)' <=> InChain(chain', d)
        /\ \A d : Position(d)' = Place(chain', d)
    BY <1>1 DEF IsInjective, Once, Linked, InChain, Position, Place
  <1>. QED BY <1>2 DEF NextAction, Follows

\* In a chain without repetitions an action is followed by its neighbour.
LEMMA PlaceOf ==
    ASSUME NEW c \in Seq(Dev), Once(c), NEW k \in 1..Len(c), NEW g
    PROVE  /\ InChain(c, c[k]) /\ Place(c, c[k]) = k
           /\ Follows(c, g, c[k]) = IF k = Len(c) THEN Null ELSE c[k + 1]
  <1>1. InChain(c, c[k])
    BY DEF InChain
  <1>2. Place(c, c[k]) \in 1..Len(c) /\ c[Place(c, c[k])] = c[k]
    BY DEF Place
  <1>3. Place(c, c[k]) = k
    BY <1>2 DEF Once
  <1>. QED BY <1>1, <1>3 DEF Follows

\* What follows a linked action is linked.
LEMMA FollowsLinked ==
    ASSUME NEW c \in Seq(Dev), Once(c), NEW d, InChain(c, d), NEW g
    PROVE  Follows(c, g, d) = Null \/ InChain(c, Follows(c, g, d))
  <1>1. PICK k \in 1..Len(c) : c[k] = d
    BY DEF InChain
  <1>2. Follows(c, g, d) = IF k = Len(c) THEN Null ELSE c[k + 1]
    BY <1>1, PlaceOf
  <1>3. k # Len(c) => k + 1 \in 1..Len(c)
    OBVIOUS
  <1>. QED BY <1>2, <1>3 DEF InChain

\* setup_irq puts an action at the end of the chain.
LEMMA AppendChain ==
    ASSUME NEW c \in Seq(Dev), Once(c), NEW d \in Dev, ~InChain(c, d),
           NEW q, q = Append(c, d)
    PROVE  /\ q \in Seq(Dev) /\ Once(q) /\ q # <<>>
           /\ \A x : InChain(q, x) <=> InChain(c, x) \/ x = d
           /\ Place(q, d) = Len(q)
           /\ \A g, x : x # d => Follows(q, g, x) \in {Follows(c, g, x), d}
  <1>1. /\ q \in Seq(Dev) /\ Len(c) \in Nat /\ Len(q) = Len(c) + 1 /\ q[Len(c) + 1] = d
        /\ \A k \in 1..Len(c) : q[k] = c[k]
    OBVIOUS
  <1>2. \A k \in 1..Len(q) : (k = Len(c) + 1 /\ q[k] = d) \/ (k \in 1..Len(c) /\ q[k] = c[k])
    BY <1>1
  <1>3. Once(q)
    BY <1>2 DEF Once, InChain
  <1>4. \A k \in 1..Len(c) : k \in 1..Len(q)
    BY <1>1
  <1>5. Len(c) + 1 \in 1..Len(q)
    BY <1>1
  <1>6. \A x : InChain(q, x) <=> InChain(c, x) \/ x = d
    <2>1. ASSUME NEW x, InChain(q, x) PROVE InChain(c, x) \/ x = d
      BY <2>1, <1>2 DEF InChain
    <2>2. ASSUME NEW x, InChain(c, x) PROVE InChain(q, x)
      <3>1. PICK k \in 1..Len(c) : c[k] = x
        BY <2>2 DEF InChain
      <3>2. k \in 1..Len(q) /\ q[k] = x
        BY <3>1, <1>1
      <3>. QED BY <3>2 DEF InChain
    <2>3. InChain(q, d)
      BY <1>1, <1>5 DEF InChain
    <2>. QED BY <2>1, <2>2, <2>3
  <1>7. Place(q, d) = Len(q)
    <2>1. PICK k \in 1..Len(q) : k = Len(q) /\ q[k] = d
      BY <1>1, <1>5
    <2>. QED BY <2>1, <1>1, <1>3, PlaceOf
  <1>8. ASSUME NEW g, NEW x, x # d PROVE Follows(q, g, x) \in {Follows(c, g, x), d}
    <2>1. CASE ~InChain(c, x)
      BY <2>1, <1>6, <1>8 DEF Follows
    <2>2. CASE InChain(c, x)
      <3>1. PICK k \in 1..Len(c) : c[k] = x
        BY <2>2 DEF InChain
      <3>2. Follows(c, g, x) = IF k = Len(c) THEN Null ELSE c[k + 1]
        BY <3>1, PlaceOf
      <3>3. Follows(q, g, x) = IF k = Len(q) THEN Null ELSE q[k + 1]
        <4>1. k \in 1..Len(q) /\ q[k] = x
          BY <3>1, <1>1
        <4>. QED BY <4>1, <1>1, <1>3, PlaceOf
      <3>4. k # Len(q) /\ (k = Len(c) => q[k + 1] = d) /\ (k # Len(c) => q[k + 1] = c[k + 1])
        BY <1>1
      <3>. QED BY <3>2, <3>3, <3>4
    <2>. QED BY <2>1, <2>2
  <1>. QED BY <1>1, <1>3, <1>5, <1>6, <1>7, <1>8

\* The sequence that is left when the element at p is unlinked.
LEMMA RemoveAtSeq ==
    ASSUME NEW S, NEW c \in Seq(S), NEW p \in 1..Len(c), NEW q, q = RemoveAt(c, p)
    PROVE  /\ q \in Seq(S) /\ Len(c) \in Nat /\ Len(q) = Len(c) - 1
           /\ \A k \in 1..Len(q) : q[k] = IF k < p THEN c[k] ELSE c[k + 1]
  <1>1. PICK n \in Nat : n = Len(c)
    OBVIOUS
  <1>2. PICK a \in Nat : a = p - 1
    BY <1>1
  <1>3. PICK u, v : u = SubSeq(c, 1, a) /\ v = SubSeq(c, p + 1, n)
    OBVIOUS
  <1>4. \A i \in 1..n : c[i] \in S
    BY <1>1
  <1>5. /\ u \in Seq(S) /\ Len(u) = IF 1 <= a THEN a - 1 + 1 ELSE 0
        /\ \A i \in 1 .. a - 1 + 1 : u[i] = c[1 + i - 1]
    <2>1. \A i \in 1..a : c[i] \in S
      BY <1>1, <1>2, <1>4
    <2>. QED BY <2>1, <1>2, <1>3, SubSeqProperties
  <1>6. Len(u) = a /\ \A i \in 1..a : u[i] = c[i]
    BY <1>5
  <1>7. /\ v \in Seq(S) /\ Len(v) = IF p + 1 <= n THEN n - (p + 1) + 1 ELSE 0
        /\ \A i \in 1 .. n - (p + 1) + 1 : v[i] = c[(p + 1) + i - 1]
    <2>1. p + 1 \in Int /\ n \in Int /\ \A i \in (p + 1)..n : c[i] \in S
      BY <1>1, <1>4
    <2>. QED BY <2>1, <1>3, SubSeqProperties
  <1>8. PICK b \in Nat : b = n - p
    <2>1. p \in 1..n
      BY <1>1
    <2>. QED BY <2>1
  <1>9. Len(v) = b /\ \A i \in 1..b : v[i] = c[p + i]
    <2>1. Len(v) = b
      BY <1>1, <1>7, <1>8
    <2>2. ASSUME NEW i \in 1..b PROVE v[i] = c[p + i]
      <3>1. i \in 1 .. n - (p + 1) + 1 /\ (p + 1) + i - 1 = p + i
        BY <1>1, <1>8
      <3>. QED BY <3>1, <1>7
    <2>. QED BY <2>1, <2>2
  <1>10. q = u \o v
    BY <1>1, <1>2, <1>3 DEF RemoveAt
  <1>11. /\ q \in Seq(S) /\ Len(q) = a + b
         /\ \A i \in 1 .. a + b : q[i] = IF i <= a THEN u[i] ELSE v[i - a]
    <2>1. /\ q \in Seq(S) /\ Len(q) = Len(u) + Len(v)
          /\ \A i \in 1 .. Len(u) + Len(v) : q[i] = IF i <= Len(u) THEN u[i] ELSE v[i - Len(u)]
      <3>1. u \in Seq(S) /\ v \in Seq(S)
        BY <1>5, <1>7
      <3>2. /\ u \o v \in Seq(S) /\ Len(u \o v) = Len(u) + Len(v)
            /\ \A i \in 1 .. Len(u) + Len(v) : (u \o v)[i] = IF i <= Len(u) THEN u[i] ELSE v[i - Len(u)]
        BY <3>1, ConcatProperties
      <3>. QED BY <3>2, <1>10
    <2>. QED BY <2>1, <1>6, <1>9
  <1>12. ASSUME NEW k \in 1..Len(q) PROVE q[k] = IF k < p THEN c[k] ELSE c[k + 1]
    <2>1. CASE k < p
      <3>1. k \in 1..a /\ k \in 1 .. a + b /\ k <= a
        BY <2>1, <1>2, <1>11
      <3>. QED BY <3>1, <2>1, <1>6, <1>11
    <2>2. CASE ~(k < p)
      <3>1. k - a \in 1..b /\ k \in 1 .. a + b /\ ~(k <= a) /\ p + (k - a) = k + 1
        BY <2>2, <1>2, <1>11
      <3>. QED BY <3>1, <2>2, <1>9, <1>11
    <2>. QED BY <2>1, <2>2
  <1>13. a + b = Len(c) - 1
    BY <1>1, <1>2, <1>8
  <1>. QED BY <1>1, <1>11, <1>12, <1>13

\* free_irq unlinks an action: who had it as its next gets the one after it.
LEMMA RemoveChain ==
    ASSUME NEW c \in Seq(Dev), Once(c), NEW d \in Dev, InChain(c, d),
           NEW q, q = RemoveAt(c, Place(c, d))
    PROVE  /\ q \in Seq(Dev) /\ Once(q) /\ (c = <<d>> => q = <<>>)
           /\ \A x : InChain(q, x) <=> InChain(c, x) /\ x # d
           /\ \A g, h, x : InChain(c, x) /\ x # d =>
                 \/ Follows(q, h, x) = Follows(c, g, x)
                 \/ Follows(c, g, x) = d /\ Follows(q, h, x) = Follows(c, g, d)
  <1>1. PICK p \in 1..Len(c) : p = Place(c, d) /\ c[p] = d
    BY DEF Place, InChain
  <1>2. /\ q \in Seq(Dev) /\ Len(c) \in Nat /\ Len(q) = Len(c) - 1
        /\ \A k \in 1..Len(q) : q[k] = IF k < p THEN c[k] ELSE c[k + 1]
    BY <1>1, RemoveAtSeq
  <1>3. PICK n \in Nat : n = Len(c) /\ Len(q) = n - 1 /\ p \in 1..n
    BY <1>2
  <1>4. ASSUME NEW k \in 1..Len(q)
        PROVE  \E m \in 1..n : /\ m = (IF k < p THEN k ELSE k + 1) /\ m # p /\ q[k] = c[m]
    <2>1. PICK m : m = IF k < p THEN k ELSE k + 1
      OBVIOUS
    <2>2. m \in 1..n /\ m # p
      BY <2>1, <1>3
    <2>3. q[k] = c[m]
      BY <2>1, <1>2
    <2>. QED BY <2>1, <2>2, <2>3
  <1>5. ASSUME NEW m \in 1..n, m # p
        PROVE  \E k \in 1..Len(q) : /\ k = (IF m < p THEN m ELSE m - 1) /\ q[k] = c[m]
    <2>1. PICK k : k = IF m < p THEN m ELSE m - 1
      OBVIOUS
    <2>2. k \in 1..Len(q) /\ (IF k < p THEN k ELSE k + 1) = m
      BY <1>5, <2>1, <1>3
    <2>3. q[k] = c[m]
      BY <2>2, <1>2
    <2>. QED BY <2>1, <2>2, <2>3
  <1>6. Once(q)
    <2>. SUFFICES ASSUME NEW j \in 1..Len(q), NEW k \in 1..Len(q), q[j] = q[k] PROVE j = k
      BY DEF Once
    <2>1. PICK a \in 1..n : a = (IF j < p THEN j ELSE j + 1) /\ a # p /\ q[j] = c[a]
      BY <1>4
    <2>2. PICK b \in 1..n : b = (IF k < p THEN k ELSE k + 1) /\ b # p /\ q[k] = c[b]
      BY <1>4
    <2>3. a = b
      BY <2>1, <2>2, <1>3 DEF Once
    <2>. QED BY <2>1, <2>2, <2>3, <1>3
  <1>7. ASSUME NEW x PROVE InChain(q, x) <=> InChain(c, x) /\ x # d
    <2>1. ASSUME InChain(q, x) PROVE InChain(c, x) /\ x # d
      <3>1. PICK k \in 1..Len(q) : q[k] = x
        BY <2>1 DEF InChain
      <3>2. PICK m \in 1..n : m # p /\ c[m] = x
        BY <3>1, <1>4
      <3>. QED BY <3>2, <1>1, <1>3 DEF InChain, Once
    <2>2. ASSUME InChain(c, x), x # d PROVE InChain(q, x)
      <3>1. PICK m \in 1..n : c[m] = x /\ m # p
        BY <2>2, <1>1, <1>3 DEF InChain
      <3>. QED BY <3>1, <1>5 DEF InChain
    <2>. QED BY <2>1, <2>2
  <1>8. ASSUME NEW g, NEW h, NEW x, InChain(c, x), x # d
        PROVE  \/ Follows(q, h, x) = Follows(c, g, x)
               \/ Follows(c, g, x) = d /\ Follows(q, h, x) = Follows(c, g, d)
    <2>1. PICK m \in 1..n : c[m] = x /\ m # p
      BY <1>8, <1>1, <1>3 DEF InChain
    <2>2. PICK k \in 1..Len(q) : k = (IF m < p THEN m ELSE m - 1) /\ q[k] = x
      BY <2>1, <1>5
    <2>3. Follows(c, g, x) = IF m = n THEN Null ELSE c[m + 1]
      <3>1. Follows(c, g, x) = IF m = Len(c) THEN Null ELSE c[m + 1]
        BY <2>1, <1>3, PlaceOf
      <3>. QED BY <3>1, <1>3
    <2>4. Follows(q, h, x) = IF k = n - 1 THEN Null ELSE q[k + 1]
      <3>1. Follows(q, h, q[k]) = IF k = Len(q) THEN Null ELSE q[k + 1]
        BY <1>2, <1>6, PlaceOf
      <3>. QED BY <3>1, <2>2, <1>3
    <2>5. Follows(c, g, d) = IF p = n THEN Null ELSE c[p + 1]
      <3>1. Follows(c, g, d) = IF p = Len(c) THEN Null ELSE c[p + 1]
        BY <1>1, PlaceOf
      <3>. QED BY <3>1, <1>3
    <2>6. k # n - 1 => k + 1 \in 1..Len(q) /\ q[k + 1] = IF k + 1 < p THEN c[k + 1] ELSE c[k + 2]
      <3>. SUFFICES ASSUME k # n - 1
                    PROVE  k + 1 \in 1..Len(q) /\ q[k + 1] = IF k + 1 < p THEN c[k + 1] ELSE c[k + 2]
        OBVIOUS
      <3>1. k + 1 \in 1..Len(q) /\ (k + 1) + 1 = k + 2
        BY <1>3
      <3>. QED BY <3>1, <1>2
    <2>7. CASE m > p
      <3>1. k = m - 1 /\ (m = n <=> k = n - 1) /\ ~(k + 1 < p) /\ k + 2 = m + 1
        BY <2>2, <2>7, <1>3
      <3>. QED BY <3>1, <2>3, <2>4, <2>6
    <2>8. CASE m < p /\ m + 1 # p
      <3>1. k = m /\ m # n /\ k # n - 1 /\ k + 1 < p
        BY <2>2, <2>8, <1>3
      <3>. QED BY <3>1, <2>3, <2>4, <2>6
    <2>9. CASE m < p /\ m + 1 = p
      <3>1. k = m /\ m # n /\ (k = n - 1 <=> p = n) /\ ~(k + 1 < p) /\ k + 2 = p + 1
        BY <2>2, <2>9, <1>3
      <3>. QED BY <3>1, <2>3, <2>4, <2>5, <2>6, <2>9, <1>1
    <2>. QED BY <2>1, <2>7, <2>8, <2>9, <1>3
  <1>9. c = <<d>> => q = <<>>
    BY <1>2
  <1>. QED BY <1>2, <1>6, <1>7, <1>8, <1>9

-------------------------------------------------------------------------------
(* The entries of the flow handler                                         *)

PcType == [Entry -> {"out", "entry", "run", "ran"}]
CurType == [Entry -> Dev \cup {Null}]

\* An interrupt or the tasklet enters the flow handler.
LEMMA EnterStep ==
    ASSUME IInv, NEW i \in Entry, pc[i] = "out", Enter(i)
    PROVE  /\ StackInv' /\ stack' \in Seq(Entry) /\ pc' \in PcType /\ cur' = cur
           /\ pc'[i] = "entry" /\ \A j \in Entry : j # i => pc'[j] = pc[j]
  <1>. USE DEF IInv, Serialized
  <1>1. /\ pc' \in PcType /\ cur' = cur
        /\ pc'[i] = "entry" /\ \A j \in Entry : j # i => pc'[j] = pc[j]
    BY DEF Enter, TypeOK, PcType
  <1>2. CASE Smp
    BY <1>1, <1>2 DEF Enter, StackInv, TypeOK
  <1>3. CASE ~Smp
    <2>1. /\ stack \in Seq(Entry) /\ stack' = Append(stack, i)
          /\ \A x \in Entry : pc[x] # "out" <=> \E k \in 1..Len(stack) : stack[k] = x
          /\ \A j, k \in 1..Len(stack) : stack[j] = stack[k] => j = k
      BY <1>3 DEF Enter, TypeOK, StackInv
    <2>2. /\ stack' \in Seq(Entry) /\ Len(stack') = Len(stack) + 1 /\ Len(stack) \in Nat
          /\ stack'[Len(stack) + 1] = i
          /\ \A k \in 1..Len(stack) : stack'[k] = stack[k]
      BY <2>1
    <2>3. \A k \in 1..Len(stack') : \/ k = Len(stack) + 1 /\ stack'[k] = i
                                    \/ k \in 1..Len(stack) /\ stack'[k] = stack[k]
      BY <2>2
    <2>4. \A j, k \in 1..Len(stack') : stack'[j] = stack'[k] => j = k
      BY <2>1, <2>3
    <2>5. ASSUME NEW x \in Entry
          PROVE  pc'[x] # "out" <=> \E k \in 1..Len(stack') : stack'[k] = x
      <3>1. CASE x = i
        <4>1. Len(stack) + 1 \in 1..Len(stack')
          BY <2>2
        <4>. QED BY <3>1, <4>1, <1>1, <2>2
      <3>2. CASE x # i
        <4>1. ASSUME NEW k \in 1..Len(stack), stack[k] = x
              PROVE \E m \in 1..Len(stack') : stack'[m] = x
          <5>1. k \in 1..Len(stack') /\ stack'[k] = x
            BY <4>1, <2>2
          <5>. QED BY <5>1
        <4>2. ASSUME NEW k \in 1..Len(stack'), stack'[k] = x
              PROVE \E m \in 1..Len(stack) : stack[m] = x
          BY <4>2, <3>2, <2>3
        <4>. QED BY <3>2, <4>1, <4>2, <1>1, <2>1
      <3>. QED BY <3>1, <3>2
    <2>. QED BY <1>1, <2>2, <2>4, <2>5 DEF StackInv
  <1>. QED BY <1>2, <1>3

\* What Front leaves of a sequence that is not empty.
LEMMA FrontOf ==
    ASSUME NEW S, NEW s \in Seq(S), s # <<>>
    PROVE  /\ Front(s) \in Seq(S) /\ Len(s) \in Nat \ {0} /\ Len(Front(s)) = Len(s) - 1
           /\ \A k \in 1 .. Len(s) - 1 : Front(s)[k] = s[k]
           /\ Last(s) = s[Len(s)]
  <1>1. PICK n \in Nat : n = Len(s) /\ n # 0
    OBVIOUS
  <1>2. PICK m \in Nat : m = n - 1
    BY <1>1
  <1>3. \A k \in 1..m : s[k] \in S
    BY <1>1, <1>2
  <1>4. /\ Front(s) \in Seq(S) /\ Len(Front(s)) = IF 1 <= m THEN m - 1 + 1 ELSE 0
        /\ \A k \in 1 .. m - 1 + 1 : Front(s)[k] = s[1 + k - 1]
    BY <1>1, <1>2, <1>3, SubSeqProperties DEF Front
  <1>5. Len(Front(s)) = m /\ \A k \in 1..m : Front(s)[k] = s[k]
    BY <1>4
  <1>. QED BY <1>1, <1>2, <1>4, <1>5 DEF Last

\* An entry leaves: on one CPU it is the innermost.
LEMMA LeaveStep ==
    ASSUME IInv, NEW i \in Entry, pc[i] # "out", MayRun(i), Leave(i)
    PROVE  /\ StackInv' /\ stack' \in Seq(Entry) /\ pc' \in PcType /\ cur' \in CurType
           /\ pc'[i] = "out" /\ \A j \in Entry : j # i => pc'[j] = pc[j] /\ cur'[j] = cur[j]
  <1>. USE DEF IInv, Serialized
  <1>1. /\ pc' \in PcType /\ cur' \in CurType
        /\ pc'[i] = "out" /\ \A j \in Entry : j # i => pc'[j] = pc[j] /\ cur'[j] = cur[j]
    BY DEF Leave, TypeOK, PcType, CurType
  <1>2. CASE Smp
    BY <1>1, <1>2 DEF Leave, StackInv, TypeOK
  <1>3. CASE ~Smp
    <2>1. /\ stack \in Seq(Entry) /\ stack' = Front(stack) /\ stack # <<>> /\ Last(stack) = i
          /\ \A x \in Entry : pc[x] # "out" <=> \E k \in 1..Len(stack) : stack[k] = x
          /\ \A j, k \in 1..Len(stack) : stack[j] = stack[k] => j = k
      BY <1>3 DEF Leave, MayRun, TypeOK, StackInv
    <2>2. /\ stack' \in Seq(Entry) /\ Len(stack) \in Nat \ {0} /\ Len(stack') = Len(stack) - 1
          /\ \A k \in 1 .. Len(stack) - 1 : stack'[k] = stack[k]
          /\ i = stack[Len(stack)]
      BY <2>1, FrontOf
    <2>3. /\ \A k \in 1..Len(stack') : k \in 1..Len(stack) /\ k # Len(stack) /\ stack'[k] = stack[k]
          /\ \A k \in 1..Len(stack) : k = Len(stack) \/ k \in 1..Len(stack')
          /\ Len(stack) \in 1..Len(stack)
      BY <2>2
    <2>4. \A j, k \in 1..Len(stack') : stack'[j] = stack'[k] => j = k
      BY <2>1, <2>3
    <2>5. ASSUME NEW x \in Entry
          PROVE  pc'[x] # "out" <=> \E k \in 1..Len(stack') : stack'[k] = x
      <3>1. CASE x = i
        BY <3>1, <1>1, <2>1, <2>2, <2>3
      <3>2. CASE x # i
        <4>1. ASSUME NEW k \in 1..Len(stack), stack[k] = x
              PROVE \E m \in 1..Len(stack') : stack'[m] = x
          BY <4>1, <3>2, <2>2, <2>3
        <4>2. ASSUME NEW k \in 1..Len(stack'), stack'[k] = x
              PROVE \E m \in 1..Len(stack) : stack[m] = x
          BY <4>2, <2>3
        <4>. QED BY <3>2, <4>1, <4>2, <1>1, <2>1
      <3>. QED BY <3>1, <3>2
    <2>. QED BY <1>1, <2>2, <2>4, <2>5 DEF StackInv
  <1>. QED BY <1>2, <1>3

\* An entry moves on without leaving.
LEMMA StayStep ==
    ASSUME IInv, NEW i \in Entry, pc[i] # "out", NEW to \in {"run", "ran"}, NEW d \in Dev \cup {Null},
           pc' = [pc EXCEPT ![i] = to], cur' = [cur EXCEPT ![i] = d], UNCHANGED stack
    PROVE  /\ StackInv' /\ stack' \in Seq(Entry) /\ pc' \in PcType /\ cur' \in CurType
           /\ pc'[i] = to /\ cur'[i] = d
           /\ \A j \in Entry : j # i => pc'[j] = pc[j] /\ cur'[j] = cur[j]
  <1>. USE DEF IInv, Serialized
  <1>1. /\ pc' \in PcType /\ cur' \in CurType /\ stack' \in Seq(Entry)
        /\ pc'[i] = to /\ cur'[i] = d
        /\ \A j \in Entry : j # i => pc'[j] = pc[j] /\ cur'[j] = cur[j]
    BY DEF TypeOK, PcType, CurType
  <1>2. StackInv'
    BY <1>1 DEF StackInv
  <1>. QED BY <1>1, <1>2

\* Who waits in synchronize_irq, or runs in a task on one CPU, has seen every
\* handler end.
LEMMA Quiesced ==
    ASSUME IInv, TaskMayRun, SynchronizeIrq
    PROVE  \A i \in Entry : ~Running(i)
  <1>1. CASE Smp
    BY <1>1 DEF SynchronizeIrq, IInv, Serialized
  <1>2. CASE ~Smp
    BY <1>2 DEF TaskMayRun, IInv, StackInv, Running
  <1>. QED BY <1>1, <1>2
-------------------------------------------------------------------------------
(* The disable calls that are outstanding, for the counts h of the drivers  *)

Outstanding(h) == {x \in Dev \X (1..MaxHold) : x[2] <= h[x[1]]}
HoldType == [Dev -> 0..MaxHold]

\* They are finitely many.
LEMMA FiniteHolds ==
    ASSUME NEW h \in HoldType
    PROVE  IsFiniteSet(Outstanding(h)) /\ Cardinality(Outstanding(h)) \in Nat
  <1>1. IsFiniteSet(Dev) /\ MaxHold \in Nat
    BY FlowAssumption
  <1>2. IsFiniteSet(1..MaxHold)
    BY <1>1, FS_Interval
  <1>3. IsFiniteSet(Dev \X (1..MaxHold))
    BY <1>1, <1>2, FS_Product
  <1>4. Outstanding(h) \subseteq Dev \X (1..MaxHold)
    BY DEF Outstanding
  <1>5. IsFiniteSet(Outstanding(h))
    BY <1>3, <1>4, FS_Subset
  <1>. QED BY <1>5, FS_CardinalityType

\* One more disable call is one more outstanding.
LEMMA OneMoreHold ==
    ASSUME NEW h \in HoldType, NEW d \in Dev, NEW k \in HoldType,
           k[d] = h[d] + 1, \A e \in Dev : e # d => k[e] = h[e]
    PROVE  Cardinality(Outstanding(k)) = Cardinality(Outstanding(h)) + 1
  <1>1. MaxHold \in Nat /\ h[d] \in 0..MaxHold /\ k[d] \in 0..MaxHold
    BY FlowAssumption DEF HoldType
  <1>2. PICK n \in Nat : n = h[d] + 1
    BY <1>1
  <1>3. n \in 1..MaxHold
    BY <1>1, <1>2
  <1>4. <<d, n>> \notin Outstanding(h)
    BY <1>1, <1>2 DEF Outstanding
  <1>5. ASSUME NEW e \in Dev, NEW m \in 1..MaxHold
        PROVE  m <= k[e] <=> m <= h[e] \/ <<e, m>> = <<d, n>>
    <2>1. CASE e = d
      BY <2>1, <1>1, <1>2, <1>3
    <2>2. CASE e # d
      BY <2>2
    <2>. QED BY <2>1, <2>2
  <1>6. ASSUME NEW x PROVE x \in Outstanding(k) <=> x \in Outstanding(h) \cup {<<d, n>>}
    <2>1. CASE x \in Dev \X (1..MaxHold)
      <3>1. PICK e \in Dev, m \in 1..MaxHold : x = <<e, m>>
        BY <2>1
      <3>. QED BY <3>1, <1>5 DEF Outstanding
    <2>2. CASE x \notin Dev \X (1..MaxHold)
      BY <2>2, <1>3 DEF Outstanding
    <2>. QED BY <2>1, <2>2
  <1>7. Outstanding(k) = Outstanding(h) \cup {<<d, n>>}
    BY <1>6
  <1>. QED BY <1>4, <1>7, FiniteHolds, FS_AddElement

\* A driver that holds the line disabled is counted.
LEMMA HoldsCount ==
    ASSUME NEW h \in HoldType, NEW d \in Dev, h[d] > 0
    PROVE  Cardinality(Outstanding(h)) > 0
  <1>1. MaxHold \in Nat /\ h[d] \in 0..MaxHold
    BY FlowAssumption DEF HoldType
  <1>2. <<d, 1>> \in Outstanding(h)
    BY <1>1 DEF Outstanding
  <1>3. Outstanding(h) # {}
    BY <1>2
  <1>. QED BY <1>3, FiniteHolds, FS_EmptySet

\* Nobody holds it: none is outstanding.
LEMMA NoHolds ==
    ASSUME NEW h \in HoldType, \A d \in Dev : h[d] = 0
    PROVE  Cardinality(Outstanding(h)) = 0
  <1>1. MaxHold \in Nat
    BY FlowAssumption
  <1>2. Outstanding(h) = {}
    BY <1>1 DEF Outstanding
  <1>. QED BY <1>2, FS_EmptySet

-------------------------------------------------------------------------------
(* What the steps preserve, one lemma for each action                      *)

\* The invariant without its two parts about the mask bit
CoreInv == /\ Serialized /\ StackInv /\ RunInv /\ HoldInv
           /\ ~CanStick => DisableHolds

MaskInvs == MaskInv /\ NotLeftMasked

\* The next pointers are functions of the chain and of gone.
LEMMA SameChain ==
    ASSUME UNCHANGED <<chain, gone>>
    PROVE  /\ \A d : NextAction(d)' = NextAction(d) /\ (Linked(d)' <=> Linked(d))
           /\ IsInjective(chain)' <=> IsInjective(chain)
  <1>1. \A d : Linked(d)' <=> Linked(d)
    BY DEF Linked
  <1>2. \A d : Position(d)' = Position(d)
    BY DEF Position
  <1>. QED BY <1>1, <1>2 DEF NextAction

\* What a walk can reach stays there as long as none of it is freed.
LEMMA StillReachable ==
    ASSUME UNCHANGED <<chain, gone>>, NEW R, Reachable(R), \A d \in R : drv'[d] # "none"
    PROVE  Reachable(R)'
  BY SameChain DEF Reachable

\* depth and the outstanding calls, when neither is touched.
LEMMA SameHolds ==
    ASSUME HoldInv, UNCHANGED <<depth, chain, drv, hold, quiet>>
    PROVE  HoldInv'
  <1>1. Tokens' = Tokens
    BY DEF Tokens
  <1>. QED BY <1>1 DEF HoldInv

\* Linked actions are those of the registered drivers.
LEMMA LinkedDrivers ==
    ASSUME IInv
    PROVE  /\ \A d \in Dev : drv[d] \in {"reg", "sync"} => chain # <<>>
           /\ chain # <<>> => Head(chain) \in Dev /\ Linked(Head(chain))
  <1>. USE DEF IInv, Serialized
  <1>1. chain \in Seq(Dev) /\ \A d \in Dev : Linked(d) <=> drv[d] \in {"reg", "sync"}
    BY DEF TypeOK
  <1>2. DOMAIN chain = 1..Len(chain)
    BY <1>1, LenProperties
  <1>3. ASSUME NEW d \in Dev, Linked(d) PROVE chain # <<>>
    BY <1>3, <1>2 DEF Linked
  <1>4. ASSUME chain # <<>> PROVE Head(chain) \in Dev /\ Linked(Head(chain))
    <2>1. Head(chain) = chain[1] /\ 1 \in 1..Len(chain) /\ Head(chain) \in Dev
      BY <1>1, <1>4
    <2>. QED BY <2>1, <1>2 DEF Linked
  <1>. QED BY <1>1, <1>3, <1>4

\* The linked actions are all there, and none of them leads out of the chain.
LEMMA ChainReachable ==
    ASSUME IInv
    PROVE  Reachable({d \in Dev : Linked(d)})
  <1>. USE DEF IInv, Serialized
  <1>1. /\ chain \in Seq(Dev) /\ IsInjective(chain)
        /\ \A d \in Dev : Linked(d) <=> drv[d] \in {"reg", "sync"}
    BY DEF TypeOK
  <1>2. Once(chain)
    BY <1>1, ChainOps
  <1>3. ASSUME NEW d \in Dev, Linked(d)
        PROVE  NextAction(d) = Null \/ (NextAction(d) \in Dev /\ Linked(NextAction(d)))
    <2>1. InChain(chain, d) /\ NextAction(d) = Follows(chain, gone, d)
      BY <1>1, <1>3, ChainOps
    <2>2. NextAction(d) = Null \/ InChain(chain, NextAction(d))
      BY <2>1, <1>1, <1>2, FollowsLinked
    <2>3. ASSUME NEW x, InChain(chain, x) PROVE x \in Dev /\ Linked(x)
      <3>1. x \in Dev
        BY <2>3, <1>1 DEF InChain
      <3>. QED BY <3>1, <2>3, <1>1, ChainOps
    <2>. QED BY <2>2, <2>3
  <1>4. \A d \in Dev : Linked(d) => drv[d] # "none"
    BY <1>1
  <1>. QED BY <1>3, <1>4 DEF Reachable
\* A step that changes neither the descriptor's chain, depth and IRQ_DISABLED
\* nor a driver keeps the types.
LEMMA FlowTypes ==
    ASSUME IInv, UNCHANGED <<handle_irq, depth, chain, gone, drv, hold, quiet>>,
           status' \subseteq Flags, "DISABLED" \in status' <=> "DISABLED" \in status,
           mask' \in BOOLEAN, latch' \in BOOLEAN, req' \in [Dev -> BOOLEAN], resend' \in BOOLEAN,
           pc' \in PcType, cur' \in CurType, stack' \in Seq(Entry)
    PROVE  TypeOK'
  <1>. USE DEF IInv, Serialized
  <1>1. /\ handle_irq' \in Flows /\ depth' \in Nat /\ chain' \in Seq(Dev)
        /\ gone' \in [Dev -> Dev \cup {Null}]
        /\ drv' \in [Dev -> {"none", "reg", "sync", "free"}]
        /\ hold' \in [Dev -> 0..MaxHold] /\ quiet' \in [Dev -> BOOLEAN]
        /\ chain' # <<>> => (depth' > 0 <=> "DISABLED" \in status')
    BY DEF TypeOK
  <1>2. IsInjective(chain)' /\ \A d \in Dev : Linked(d)' <=> drv'[d] \in {"reg", "sync"}
    BY SameChain DEF TypeOK
  <1>. QED BY <1>1, <1>2 DEF TypeOK, PcType, CurType

\* Nobody's handlers start to run: what holds of those that run still does.
LEMMA NoneStarts ==
    ASSUME IInv, UNCHANGED <<depth, chain, gone, drv, hold, quiet>>, TypeOK', StackInv',
           \A j \in Entry : Running(j)' => /\ Running(j) /\ "INPROGRESS" \in status'
                                           /\ pc'[j] = pc[j] /\ cur'[j] = cur[j]
    PROVE  CoreInv'
  <1>. USE DEF IInv
  <1>1. Serialized'
    BY DEF Serialized
  <1>2. RunInv'
    <2>. SUFFICES ASSUME NEW j \in Entry
                  PROVE  /\ Running(j)' => \E d \in Dev : drv'[d] # "none"
                         /\ pc'[j] = "run" => \E R \in SUBSET Dev : cur'[j] \in R /\ Reachable(R)'
      BY DEF RunInv
    <2>1. Running(j)' => \E d \in Dev : drv'[d] # "none"
      BY DEF RunInv
    <2>2. ASSUME pc'[j] = "run"
          PROVE  \E R \in SUBSET Dev : cur'[j] \in R /\ Reachable(R)'
      <3>1. pc[j] = "run" /\ cur'[j] = cur[j]
        BY <2>2 DEF Running
      <3>2. PICK R \in SUBSET Dev : cur[j] \in R /\ Reachable(R)
        BY <3>1 DEF RunInv
      <3>3. Reachable(R)'
        BY <3>2, StillReachable DEF Reachable
      <3>. QED BY <3>1, <3>2, <3>3
    <2>. QED BY <2>1, <2>2
  <1>3. HoldInv'
    BY SameHolds
  <1>4. ~CanStick => DisableHolds'
    BY DEF DisableHolds
  <1>. QED BY <1>1, <1>2, <1>3, <1>4 DEF CoreInv

\* An entry leaves and clears IRQ_INPROGRESS only if it ran the handlers.
LEMMA LeaveCore ==
    ASSUME IInv, NEW i \in Entry, pc[i] # "out", MayRun(i), Leave(i),
           UNCHANGED <<handle_irq, depth, chain, gone, drv, hold, quiet>>,
           status' \subseteq Flags, "DISABLED" \in status' <=> "DISABLED" \in status,
           mask' \in BOOLEAN, latch' \in BOOLEAN, req' \in [Dev -> BOOLEAN], resend' \in BOOLEAN,
           "INPROGRESS" \in status /\ ~Running(i) => "INPROGRESS" \in status'
    PROVE  CoreInv'
  <1>1. /\ StackInv' /\ stack' \in Seq(Entry) /\ pc' \in PcType /\ cur' \in CurType
        /\ pc'[i] = "out" /\ \A j \in Entry : j # i => pc'[j] = pc[j] /\ cur'[j] = cur[j]
    BY LeaveStep
  <1>2. TypeOK'
    BY <1>1, FlowTypes
  <1>3. ASSUME NEW j \in Entry, Running(j)'
        PROVE  /\ Running(j) /\ "INPROGRESS" \in status'
               /\ pc'[j] = pc[j] /\ cur'[j] = cur[j]
    <2>1. j # i /\ Running(j) /\ pc'[j] = pc[j] /\ cur'[j] = cur[j]
      BY <1>3, <1>1 DEF Running
    <2>2. ~Running(i) /\ "INPROGRESS" \in status
      BY <2>1 DEF IInv, Serialized
    <2>. QED BY <2>1, <2>2
  <1>. QED BY <1>1, <1>2, <1>3, NoneStarts

\* An entry calls the handlers of the chain, with IRQ_INPROGRESS set.
LEMMA RunCore ==
    ASSUME IInv, NEW i \in Entry, pc[i] # "out", MayRun(i), RunChain(i), chain # <<>>,
           UNCHANGED <<handle_irq, depth, chain, gone, drv, hold, quiet>>,
           status' \subseteq Flags, "DISABLED" \in status' <=> "DISABLED" \in status,
           mask' \in BOOLEAN, latch' \in BOOLEAN, req' \in [Dev -> BOOLEAN], resend' \in BOOLEAN,
           "INPROGRESS" \in status',
           Running(i) \/ ("INPROGRESS" \notin status /\ "DISABLED" \notin status)
    PROVE  CoreInv'
  <1>. USE DEF IInv
  <1>1. PICK e \in Dev : e = Head(chain) /\ Linked(e)
    BY LinkedDrivers
  <1>2. /\ StackInv' /\ stack' \in Seq(Entry) /\ pc' \in PcType /\ cur' \in CurType
        /\ pc'[i] = "run" /\ cur'[i] = e
        /\ \A j \in Entry : j # i => pc'[j] = pc[j] /\ cur'[j] = cur[j]
    BY <1>1, StayStep DEF RunChain
  <1>3. TypeOK'
    BY <1>2, FlowTypes
  <1>4. \A j \in Entry : Running(j)' => j = i
    BY <1>2 DEF Running, Serialized
  <1>5. Serialized'
    BY <1>3, <1>4 DEF Serialized
  <1>6. RunInv'
    <2>1. drv'[e] # "none"
      BY <1>1 DEF Serialized, TypeOK
    <2>2. PICK R \in SUBSET Dev : e \in R /\ Reachable(R)
      BY <1>1, ChainReachable
    <2>3. Reachable(R)'
      BY <2>2, StillReachable DEF Reachable
    <2>. QED BY <1>2, <1>4, <2>1, <2>2, <2>3 DEF RunInv, Running
  <1>7. HoldInv'
    BY SameHolds
  <1>8. ASSUME ~CanStick PROVE DisableHolds'
    <2>. SUFFICES ASSUME NEW d \in Dev, quiet[d] PROVE FALSE
      BY DEF DisableHolds
    <2>1. ~Running(i)
      BY <1>8 DEF DisableHolds
    <2>2. hold[d] > 0 /\ depth = Cardinality(Tokens)
      BY <1>8 DEF HoldInv
    <2>3. Cardinality(Tokens) > 0
      BY <2>2, HoldsCount DEF Tokens, Outstanding, HoldType, Serialized, TypeOK
    <2>4. "DISABLED" \in status
      BY <2>2, <2>3 DEF Serialized, TypeOK
    <2>. QED BY <2>1, <2>4
  <1>. QED BY <1>2, <1>5, <1>6, <1>7, <1>8 DEF CoreInv

\* An interrupt, or the resend tasklet, enters the flow handler.
LEMMA EnterInv ==
    ASSUME IInv, NEW i \in Entry, pc[i] = "out", Enter(i),
           UNCHANGED <<handle_irq, status, depth, chain, gone, drv, hold, quiet, mask, latch, req>>,
           resend' \in BOOLEAN
    PROVE  IInv'
  <1>. USE DEF IInv, Serialized
  <1>1. /\ StackInv' /\ stack' \in Seq(Entry) /\ pc' \in PcType /\ cur' = cur
        /\ pc'[i] = "entry" /\ \A j \in Entry : j # i => pc'[j] = pc[j]
    BY EnterStep
  <1>2. TypeOK'
    <2>1. /\ mask' \in BOOLEAN /\ latch' \in BOOLEAN /\ req' \in [Dev -> BOOLEAN]
          /\ status' \subseteq Flags /\ cur' \in CurType
      BY <1>1 DEF TypeOK, CurType
    <2>. QED BY <2>1, <1>1, FlowTypes
  <1>3. CoreInv'
    BY <1>1, <1>2, NoneStarts DEF Running
  <1>4. MaskInv' /\ NotLeftMasked'
    BY DEF MaskInv, NotLeftMasked
  <1>. QED BY <1>3, <1>4 DEF CoreInv
LEMMA LevelEntryInv ==
    ASSUME IInv, NEW i \in Entry, LevelEntry(i)
    PROVE  IInv'
  <1>1. /\ UNCHANGED <<handle_irq, depth, chain, gone, resend, req, drv, hold, quiet>>
        /\ handle_irq = "level" /\ pc[i] = "entry" /\ MayRun(i) /\ mask' = TRUE /\ latch' = FALSE
    BY DEF LevelEntry, drvVars
  <1>2. /\ status \subseteq Flags /\ mask' \in BOOLEAN /\ latch' \in BOOLEAN
        /\ req' \in [Dev -> BOOLEAN] /\ resend' \in BOOLEAN
        /\ pc[i] # "out" /\ ~Running(i)
    BY <1>1 DEF IInv, Serialized, TypeOK, Running
  <1>3. CASE "INPROGRESS" \in status
    <2>1. Leave(i) /\ status' = status
      BY <1>3 DEF LevelEntry
    <2>2. CoreInv'
      BY <1>1, <1>2, <2>1, LeaveCore
    <2>. QED BY <1>1, <1>3, <2>1, <2>2 DEF CoreInv, IInv, MaskInv, NotLeftMasked
  <1>4. CASE "INPROGRESS" \notin status /\ ("DISABLED" \in status \/ chain = <<>>)
    <2>1. Leave(i) /\ status' = status \ {"REPLAY"}
      BY <1>4 DEF LevelEntry
    <2>2. CoreInv'
      BY <1>1, <1>2, <1>4, <2>1, LeaveCore
    <2>. QED BY <1>1, <1>4, <2>1, <2>2 DEF CoreInv, IInv, MaskInv, NotLeftMasked
  <1>5. CASE "INPROGRESS" \notin status /\ "DISABLED" \notin status /\ chain # <<>>
    <2>1. RunChain(i) /\ status' = (status \ {"REPLAY"}) \cup {"INPROGRESS"}
      BY <1>5 DEF LevelEntry
    <2>2. status' \subseteq Flags /\ "INPROGRESS" \in status' /\ "DISABLED" \notin status'
      BY <1>2, <1>5, <2>1 DEF Flags
    <2>3. CoreInv'
      BY <1>1, <1>2, <1>5, <2>1, <2>2, RunCore
    <2>. QED BY <1>1, <2>2, <2>3 DEF CoreInv, IInv, MaskInv, NotLeftMasked
  <1>. QED BY <1>3, <1>4, <1>5

LEMMA LevelExitInv ==
    ASSUME IInv, NEW i \in Entry, LevelExit(i)
    PROVE  IInv'
  <1>1. /\ UNCHANGED <<handle_irq, depth, chain, gone, resend, latch, req, drv, hold, quiet>>
        /\ handle_irq = "level" /\ pc[i] = "ran" /\ MayRun(i) /\ Leave(i)
        /\ status' = status \ {"INPROGRESS"} /\ mask' = ("DISABLED" \in status /\ mask)
    BY DEF LevelExit, drvVars
  <1>2. /\ status' \subseteq Flags /\ latch' \in BOOLEAN
        /\ req' \in [Dev -> BOOLEAN] /\ resend' \in BOOLEAN
        /\ pc[i] # "out" /\ Running(i)
    BY <1>1 DEF IInv, Serialized, TypeOK, Running
  <1>3. mask' \in BOOLEAN
    BY <1>1
  <1>4. CoreInv'
    BY <1>1, <1>2, <1>3, LeaveCore
  <1>. QED BY <1>1, <1>4 DEF CoreInv, IInv, MaskInv, NotLeftMasked

\* The head of the loop of handle_edge_irq, entered with IRQ_INPROGRESS set, by
\* an entry that runs the handlers or that found nobody running them.
LEMMA EdgeLoopInv ==
    ASSUME IInv, NEW i \in Entry, NEW st, EdgeLoop(i, st), handle_irq = "edge",
           UNCHANGED <<handle_irq, depth, chain, gone, resend, req, drv, hold, quiet>>,
           latch' \in BOOLEAN, pc[i] # "out", MayRun(i),
           st \subseteq Flags, "INPROGRESS" \in st, "DISABLED" \in st <=> "DISABLED" \in status,
           \A f \in {"PENDING", "MASKED"} : f \in st <=> f \in status,
           Running(i) \/ ("INPROGRESS" \notin status /\ "DISABLED" \notin status)
    PROVE  IInv'
  <1>1. req' \in [Dev -> BOOLEAN] /\ resend' \in BOOLEAN /\ mask \in BOOLEAN
    BY DEF IInv, Serialized, TypeOK
  <1>2. CASE chain = <<>>
    <2>1. mask' = TRUE /\ status' = st /\ Leave(i)
      BY <1>2 DEF EdgeLoop
    <2>2. CoreInv'
      BY <1>1, <2>1, LeaveCore
    <2>. QED BY <1>2, <2>2 DEF CoreInv, IInv, MaskInv, NotLeftMasked
  <1>3. CASE chain # <<>>
    <2>1. PICK missed \in BOOLEAN : missed = ({"PENDING", "MASKED"} \subseteq st /\ "DISABLED" \notin st)
      OBVIOUS
    <2>2. /\ mask' = (mask /\ ~missed) /\ RunChain(i)
          /\ status' = st \ (IF missed THEN {"PENDING", "MASKED"} ELSE {"PENDING"})
      BY <1>3, <2>1 DEF EdgeLoop
    <2>3. /\ status' \subseteq Flags /\ "INPROGRESS" \in status'
          /\ "DISABLED" \in status' <=> "DISABLED" \in status
      BY <2>2
    <2>4. mask' \in BOOLEAN
      BY <2>2
    <2>5. CoreInv'
      BY <1>1, <1>3, <2>2, <2>3, <2>4, RunCore
    <2>6. "DISABLED" \notin status' => ~mask'
      <3>. SUFFICES ASSUME "DISABLED" \notin status, mask PROVE missed
        BY <2>2, <2>3
      <3>1. "PENDING" \in status /\ "MASKED" \in status
        BY <1>3 DEF IInv, MaskInv
      <3>. QED BY <3>1, <2>1
    <2>7. MaskInv' /\ NotLeftMasked'
      BY <2>3, <2>6 DEF MaskInv, NotLeftMasked
    <2>. QED BY <2>5, <2>7 DEF CoreInv, IInv
  <1>. QED BY <1>2, <1>3

LEMMA EdgeEntryInv ==
    ASSUME IInv, NEW i \in Entry, EdgeEntry(i)
    PROVE  IInv'
  <1>1. /\ UNCHANGED <<handle_irq, depth, chain, gone, resend, req, drv, hold, quiet>>
        /\ handle_irq = "edge" /\ pc[i] = "entry" /\ MayRun(i) /\ latch' = FALSE
    BY DEF EdgeEntry, drvVars
  <1>2. /\ status \subseteq Flags /\ latch' \in BOOLEAN
        /\ req' \in [Dev -> BOOLEAN] /\ resend' \in BOOLEAN
        /\ pc[i] # "out" /\ ~Running(i)
    BY <1>1 DEF IInv, Serialized, TypeOK, Running
  <1>3. PICK st : st = status \ {"REPLAY"}
    OBVIOUS
  <1>4. CASE st \cap {"INPROGRESS", "DISABLED"} # {} \/ chain = <<>>
    <2>1. status' = st \cup {"PENDING", "MASKED"} /\ mask' = TRUE /\ Leave(i)
      BY <1>3, <1>4 DEF EdgeEntry
    <2>2. /\ status' \subseteq Flags
          /\ "DISABLED" \in status' <=> "DISABLED" \in status
          /\ "INPROGRESS" \in status' <=> "INPROGRESS" \in status
      BY <1>2, <1>3, <2>1 DEF Flags
    <2>3. CoreInv'
      BY <1>1, <1>2, <2>1, <2>2, LeaveCore
    <2>4. MaskInv'
      BY <2>1 DEF MaskInv
    <2>5. NotLeftMasked'
      BY <1>1, <1>3, <1>4, <2>2 DEF NotLeftMasked
    <2>. QED BY <2>3, <2>4, <2>5 DEF CoreInv, IInv
  <1>5. CASE ~(st \cap {"INPROGRESS", "DISABLED"} # {} \/ chain = <<>>)
    <2>1. EdgeLoop(i, st \cup {"INPROGRESS"})
      BY <1>3, <1>5 DEF EdgeEntry
    <2>2. "INPROGRESS" \notin status /\ "DISABLED" \notin status
      BY <1>3, <1>5
    <2>3. PICK su : su = st \cup {"INPROGRESS"}
      OBVIOUS
    <2>4. /\ su \subseteq Flags /\ "INPROGRESS" \in su
          /\ "DISABLED" \in su <=> "DISABLED" \in status
          /\ \A f \in {"PENDING", "MASKED"} : f \in su <=> f \in status
      BY <1>2, <1>3, <2>3 DEF Flags
    <2>5. EdgeLoop(i, su)
      BY <2>1, <2>3
    <2>. QED BY <1>1, <1>2, <2>2, <2>4, <2>5, EdgeLoopInv
  <1>. QED BY <1>4, <1>5

LEMMA EdgeExitInv ==
    ASSUME IInv, NEW i \in Entry, EdgeExit(i)
    PROVE  IInv'
  <1>1. /\ UNCHANGED <<handle_irq, depth, chain, gone, resend, latch, req, drv, hold, quiet>>
        /\ handle_irq = "edge" /\ pc[i] = "ran" /\ MayRun(i)
    BY DEF EdgeExit, drvVars
  <1>2. /\ status \subseteq Flags /\ latch' \in BOOLEAN /\ mask \in BOOLEAN
        /\ req' \in [Dev -> BOOLEAN] /\ resend' \in BOOLEAN
        /\ pc[i] # "out" /\ Running(i) /\ "INPROGRESS" \in status
    BY <1>1 DEF IInv, Serialized, TypeOK, Running
  <1>3. CASE "PENDING" \in status /\ "DISABLED" \notin status
    <2>1. EdgeLoop(i, status)
      BY <1>3 DEF EdgeExit
    <2>. QED BY <1>1, <1>2, <2>1, EdgeLoopInv
  <1>4. CASE ~("PENDING" \in status /\ "DISABLED" \notin status)
    <2>1. status' = status \ {"INPROGRESS"} /\ Leave(i) /\ mask' = mask
      BY <1>4 DEF EdgeExit
    <2>2. CoreInv'
      BY <1>1, <1>2, <2>1, LeaveCore
    <2>3. MaskInv' /\ NotLeftMasked'
      BY <1>1, <1>4, <2>1 DEF IInv, MaskInv, NotLeftMasked
    <2>. QED BY <2>2, <2>3 DEF CoreInv, IInv
  <1>. QED BY <1>3, <1>4

LEMMA HandlerInv ==
    ASSUME IInv, NEW i \in Entry, Handler(i)
    PROVE  IInv'
  <1>. USE DEF IInv
  <1>1. /\ UNCHANGED <<handle_irq, status, depth, chain, gone, resend, mask, latch, stack, drv, hold, quiet>>
        /\ pc[i] = "run"
    BY DEF Handler, descVars, drvVars
  <1>2. PICK R \in SUBSET Dev : cur[i] \in R /\ Reachable(R)
    BY <1>1 DEF RunInv
  <1>3. PICK n : n = NextAction(cur[i])
    OBVIOUS
  <1>4. n = Null \/ n \in R
    BY <1>2, <1>3 DEF Reachable
  <1>5. PICK to \in {"run", "ran"} : to = IF n = Null THEN "ran" ELSE "run"
    OBVIOUS
  <1>6. /\ StackInv' /\ stack' \in Seq(Entry) /\ pc' \in PcType /\ cur' \in CurType
        /\ pc'[i] = to /\ cur'[i] = n
        /\ \A j \in Entry : j # i => pc'[j] = pc[j] /\ cur'[j] = cur[j]
    <2>1. pc' = [pc EXCEPT ![i] = to] /\ cur' = [cur EXCEPT ![i] = n] /\ n \in Dev \cup {Null}
      BY <1>2, <1>3, <1>4, <1>5 DEF Handler
    <2>. QED BY <2>1, <1>1, StayStep
  <1>7. TypeOK'
    <2>1. req' \in [Dev -> BOOLEAN]
      BY <1>2 DEF Handler, Serialized, TypeOK
    <2>2. mask' \in BOOLEAN /\ latch' \in BOOLEAN /\ resend' \in BOOLEAN /\ status' \subseteq Flags
      BY <1>1 DEF Serialized, TypeOK
    <2>. QED BY <1>1, <1>6, <2>1, <2>2, FlowTypes
  <1>8. \A j \in Entry : Running(j)' <=> Running(j)
    BY <1>1, <1>5, <1>6 DEF Running
  <1>9. Serialized'
    BY <1>1, <1>7, <1>8 DEF Serialized
  <1>10. RunInv'
    <2>1. Reachable(R)'
      BY <1>1, <1>2, StillReachable DEF Reachable
    <2>2. ASSUME NEW j \in Entry, pc'[j] = "run" PROVE j = i
      <3>1. Running(j) /\ Running(i)
        BY <2>2, <1>1, <1>8 DEF Running
      <3>. QED BY <3>1 DEF Serialized
    <2>3. pc'[i] = "run" => cur'[i] \in R
      BY <1>4, <1>5, <1>6
    <2>. QED BY <1>1, <1>2, <1>8, <2>1, <2>2, <2>3 DEF RunInv
  <1>11. HoldInv'
    BY <1>1, SameHolds
  <1>12. ~CanStick => DisableHolds'
    BY <1>1, <1>8 DEF DisableHolds
  <1>13. MaskInv' /\ NotLeftMasked'
    BY <1>1 DEF MaskInv, NotLeftMasked
  <1>. QED BY <1>6, <1>9, <1>10, <1>11, <1>12, <1>13
\* A driver's step moves no entry of the flow handler.
LEMMA SameFlow ==
    ASSUME IInv, UNCHANGED <<pc, cur, stack>>
    PROVE  /\ StackInv' /\ \A i \in Entry : Running(i)' <=> Running(i)
           /\ pc' \in [Entry -> {"out", "entry", "run", "ran"}]
           /\ cur' \in [Entry -> Dev \cup {Null}] /\ stack' \in Seq(Entry)
  BY DEF IInv, Serialized, TypeOK, StackInv, Running

\* disable_irq_nosync, by a task that goes on to wait or by a handler.
LEMMA DisableNosyncInv ==
    ASSUME IInv, NEW d \in Dev, drv[d] = "reg", DisableNosync(d),
           drv' \in {drv, [drv EXCEPT ![d] = "sync"]},
           UNCHANGED <<handle_irq, chain, gone, resend, mask, latch, req, pc, cur, stack, quiet>>
    PROVE  IInv'
  <1>. USE FlowAssumption DEF IInv
  <1>1. /\ hold[d] < MaxHold /\ hold' = [hold EXCEPT ![d] = @ + 1] /\ depth' = depth + 1
        /\ status' = IF depth = 0 THEN status \cup {"DISABLED"} ELSE status
    BY DEF DisableNosync
  <1>2. /\ hold \in HoldType /\ depth \in Nat /\ status \subseteq Flags /\ chain # <<>>
        /\ depth > 0 <=> "DISABLED" \in status
    BY LinkedDrivers DEF Serialized, TypeOK, HoldType
  <1>3. /\ hold' \in HoldType /\ hold'[d] = hold[d] + 1 /\ hold[d] \in Nat
        /\ \A e \in Dev : e # d => hold'[e] = hold[e]
    BY <1>1, <1>2 DEF HoldType
  <1>4. /\ drv' \in [Dev -> {"none", "reg", "sync", "free"}] /\ drv'[d] \in {"reg", "sync"}
        /\ \A e \in Dev : e # d => drv'[e] = drv[e]
    BY DEF Serialized, TypeOK
  <1>5. /\ status' \subseteq Flags /\ "DISABLED" \in status' /\ depth' \in Nat /\ depth' > 0
        /\ "INPROGRESS" \in status' <=> "INPROGRESS" \in status
    BY <1>1, <1>2 DEF Flags
  <1>6. TypeOK'
    <2>1. IsInjective(chain)' /\ \A e \in Dev : Linked(e)' <=> drv'[e] \in {"reg", "sync"}
      BY <1>4, SameChain DEF Serialized, TypeOK
    <2>. QED BY <1>3, <1>4, <1>5, <2>1, SameFlow DEF Serialized, TypeOK, HoldType
  <1>7. Serialized'
    BY <1>5, <1>6, SameFlow DEF Serialized
  <1>8. RunInv'
    <2>1. \A e \in Dev : drv[e] # "none" => drv'[e] # "none"
      BY <1>4
    <2>2. ASSUME NEW R \in SUBSET Dev, Reachable(R) PROVE Reachable(R)'
      BY <2>1, <2>2, StillReachable DEF Reachable
    <2>. QED BY <2>1, <2>2, SameFlow DEF RunInv
  <1>9. HoldInv'
    <2>1. Tokens = Outstanding(hold) /\ Tokens' = Outstanding(hold')
      BY DEF Tokens, Outstanding
    <2>2. ~CanStick => depth' = Cardinality(Tokens')
      BY <1>1, <1>2, <1>3, <2>1, OneMoreHold DEF HoldInv
    <2>3. ASSUME NEW e \in Dev
          PROVE  /\ hold'[e] > 0 => drv'[e] \in {"reg", "sync"}
                 /\ drv'[e] = "sync" \/ quiet'[e] => hold'[e] > 0
      <3>1. CASE e = d
        BY <3>1, <1>3, <1>4
      <3>2. CASE e # d
        BY <3>2, <1>3, <1>4 DEF HoldInv
      <3>. QED BY <3>1, <3>2
    <2>. QED BY <2>2, <2>3 DEF HoldInv
  <1>10. ~CanStick => DisableHolds'
    BY SameFlow DEF DisableHolds
  <1>11. MaskInv' /\ NotLeftMasked'
    BY <1>5 DEF MaskInv, NotLeftMasked
  <1>. QED BY <1>7, <1>8, <1>9, <1>10, <1>11, SameFlow

\* enable_irq, by a task or by a handler.
LEMMA EnableInv ==
    ASSUME IInv, NEW d \in Dev, drv[d] = "reg", Enable(d),
           UNCHANGED <<handle_irq, chain, gone, latch, req, pc, cur, stack, drv>>
    PROVE  IInv'
  <1>. USE FlowAssumption DEF IInv
  <1>1. /\ hold[d] > 0 /\ hold' = [hold EXCEPT ![d] = @ - 1]
        /\ quiet' = [quiet EXCEPT ![d] = @ /\ hold[d] > 1]
        /\ depth' = IF depth = 0 THEN 0 ELSE depth - 1
    BY DEF Enable
  <1>2. /\ hold \in HoldType /\ depth \in Nat /\ status \subseteq Flags /\ chain # <<>>
        /\ depth > 0 <=> "DISABLED" \in status
        /\ mask \in BOOLEAN /\ resend \in BOOLEAN
    BY LinkedDrivers DEF Serialized, TypeOK, HoldType
  <1>3. /\ hold' \in HoldType /\ hold[d] = hold'[d] + 1 /\ hold[d] \in Nat
        /\ \A e \in Dev : e # d => hold'[e] = hold[e]
    BY <1>1, <1>2 DEF HoldType
  <1>4. quiet' \in [Dev -> BOOLEAN]
    BY <1>1 DEF Serialized, TypeOK
  <1>5. /\ quiet'[d] => hold'[d] > 0
        /\ \A e \in Dev : quiet'[e] => quiet[e]
    <2>1. quiet'[d] => hold[d] > 1 /\ quiet[d]
      BY <1>1 DEF Serialized, TypeOK
    <2>2. \A e \in Dev : e # d => quiet'[e] = quiet[e]
      BY <1>1 DEF Serialized, TypeOK
    <2>3. hold[d] > 1 => hold'[d] > 0
      BY <1>3 DEF HoldType
    <2>4. \A e \in Dev : quiet'[e] => quiet[e]
      BY <2>1, <2>2
    <2>. QED BY <2>1, <2>3, <2>4
  <1>6. /\ status' \subseteq Flags /\ resend' \in BOOLEAN /\ mask' \in BOOLEAN
        /\ "INPROGRESS" \in status' <=> "INPROGRESS" \in status
        /\ depth' \in Nat
        /\ depth' > 0 <=> "DISABLED" \in status'
        /\ \/ ~mask'
           \/ mask' = mask /\ status' = status
    <2>1. CASE depth = 1
      <3>1. /\ mask' = FALSE /\ depth' = 0
            /\ \/ /\ status' = ((status \ {"DISABLED"}) \ {"PENDING"}) \cup {"REPLAY"}
                  /\ resend' = TRUE
               \/ status' = (status \ {"DISABLED"}) \ {"MASKED"} /\ resend' = resend
        BY <2>1, <1>1 DEF Enable, CheckIrqResend
      <3>2. /\ status' \subseteq Flags /\ "DISABLED" \notin status'
            /\ "INPROGRESS" \in status' <=> "INPROGRESS" \in status
        BY <3>1, <1>2 DEF Flags
      <3>3. resend' \in BOOLEAN
        BY <3>1, <1>2
      <3>4. depth' \in Nat /\ ~(depth' > 0)
        BY <3>1
      <3>. QED BY <3>1, <3>2, <3>3, <3>4
    <2>2. CASE depth # 1
      <3>1. mask' = mask /\ status' = status /\ resend' = resend
        BY <2>2 DEF Enable
      <3>2. depth' \in Nat /\ (depth' > 0 <=> depth > 0)
        BY <2>2, <1>1, <1>2
      <3>. QED BY <3>1, <3>2, <1>2
    <2>. QED BY <2>1, <2>2
  <1>7. TypeOK'
    <2>1. IsInjective(chain)' /\ \A e \in Dev : Linked(e)' <=> drv'[e] \in {"reg", "sync"}
      BY SameChain DEF Serialized, TypeOK
    <2>. QED BY <1>3, <1>4, <1>6, <2>1, SameFlow DEF Serialized, TypeOK, HoldType
  <1>8. Serialized'
    BY <1>6, <1>7, SameFlow DEF Serialized
  <1>9. RunInv'
    <2>1. ASSUME NEW R \in SUBSET Dev, Reachable(R) PROVE Reachable(R)'
      BY <2>1, StillReachable DEF Reachable
    <2>. QED BY <2>1, SameFlow DEF RunInv
  <1>10. HoldInv'
    <2>1. Tokens = Outstanding(hold) /\ Tokens' = Outstanding(hold')
      BY DEF Tokens, Outstanding
    <2>2. ASSUME ~CanStick PROVE depth' = Cardinality(Tokens')
      <3>1. depth = Cardinality(Outstanding(hold')) + 1 /\ Cardinality(Outstanding(hold')) \in Nat
        BY <2>2, <1>2, <1>3, <2>1, OneMoreHold, FiniteHolds DEF HoldInv
      <3>2. PICK n \in Nat : n = Cardinality(Outstanding(hold')) /\ depth = n + 1
        BY <3>1
      <3>3. depth' = IF depth = 0 THEN 0 ELSE depth - 1
        BY DEF Enable
      <3>4. n + 1 # 0 /\ (n + 1) - 1 = n
        OBVIOUS
      <3>5. depth' = n
        BY <3>2, <3>3, <3>4
      <3>. QED BY <3>2, <3>5, <2>1
    <2>3. ASSUME NEW e \in Dev
          PROVE  /\ hold'[e] > 0 => drv'[e] \in {"reg", "sync"}
                 /\ drv'[e] = "sync" \/ quiet'[e] => hold'[e] > 0
      <3>1. CASE e = d
        BY <3>1, <1>5
      <3>2. CASE e # d
        BY <3>2, <1>3, <1>5 DEF HoldInv
      <3>. QED BY <3>1, <3>2
    <2>. QED BY <2>2, <2>3 DEF HoldInv
  <1>11. ~CanStick => DisableHolds'
    BY <1>5, SameFlow DEF DisableHolds
  <1>12. MaskInv' /\ NotLeftMasked'
    BY <1>6 DEF MaskInv, NotLeftMasked
  <1>. QED BY <1>8, <1>9, <1>10, <1>11, <1>12, SameFlow

\* note_interrupt kills the line.
LEMMA KillIrqInv ==
    ASSUME IInv, NEW i \in Entry, KillIrq(i)
    PROVE  IInv'
  <1>. USE DEF IInv
  <1>1. /\ UNCHANGED <<handle_irq, chain, gone, resend, mask, latch, req, pc, cur, stack, drv, hold, quiet>>
        /\ CanStick /\ status' = status \cup {"DISABLED"} /\ depth' = 1
    BY DEF KillIrq, hwVars, flowVars, drvVars
  <1>2. /\ status' \subseteq Flags /\ "DISABLED" \in status' /\ depth' \in Nat /\ depth' > 0
        /\ "INPROGRESS" \in status' <=> "INPROGRESS" \in status
    BY <1>1 DEF Serialized, TypeOK, Flags
  <1>3. TypeOK'
    <2>1. IsInjective(chain)' /\ \A e \in Dev : Linked(e)' <=> drv'[e] \in {"reg", "sync"}
      BY <1>1, SameChain DEF Serialized, TypeOK
    <2>. QED BY <1>1, <1>2, <2>1, SameFlow DEF Serialized, TypeOK
  <1>4. Serialized' /\ StackInv'
    BY <1>1, <1>2, <1>3, SameFlow DEF Serialized
  <1>5. RunInv'
    <2>1. ASSUME NEW R \in SUBSET Dev, Reachable(R) PROVE Reachable(R)'
      BY <1>1, <2>1, StillReachable DEF Reachable
    <2>. QED BY <1>1, <2>1, SameFlow DEF RunInv
  <1>6. HoldInv'
    BY <1>1 DEF HoldInv
  <1>7. MaskInv' /\ NotLeftMasked'
    BY <1>2 DEF MaskInv, NotLeftMasked
  <1>. QED BY <1>1, <1>4, <1>5, <1>6, <1>7

\* A device asks for service.
LEMMA RaiseInv ==
    ASSUME IInv, NEW d \in Dev, Raise(d)
    PROVE  IInv'
  <1>1. /\ UNCHANGED <<handle_irq, status, depth, chain, gone, resend, mask, pc, cur, stack, drv, hold, quiet>>
        /\ req' = [req EXCEPT ![d] = TRUE] /\ latch' = TRUE
    BY DEF Raise, descVars, flowVars, drvVars
  <1>2. TypeOK'
    <2>1. /\ mask' \in BOOLEAN /\ latch' \in BOOLEAN /\ req' \in [Dev -> BOOLEAN]
          /\ resend' \in BOOLEAN /\ status' \subseteq Flags
      BY <1>1 DEF IInv, Serialized, TypeOK
    <2>. QED BY <1>1, <2>1, SameFlow, FlowTypes DEF PcType, CurType
  <1>3. CoreInv'
    BY <1>1, <1>2, SameFlow, NoneStarts DEF IInv, Serialized
  <1>. QED BY <1>1, <1>3 DEF CoreInv, IInv, MaskInv, NotLeftMasked

\* Nothing happens.
LEMMA StutterInv ==
    ASSUME IInv, UNCHANGED vars
    PROVE  IInv'
  <1>1. UNCHANGED <<handle_irq, status, depth, chain, gone, resend, mask, latch, req,
                    pc, cur, stack, drv, hold, quiet>>
    BY DEF vars, descVars, hwVars, flowVars, drvVars
  <1>2. TypeOK'
    <2>1. /\ mask' \in BOOLEAN /\ latch' \in BOOLEAN /\ req' \in [Dev -> BOOLEAN]
          /\ resend' \in BOOLEAN /\ status' \subseteq Flags
      BY <1>1 DEF IInv, Serialized, TypeOK
    <2>. QED BY <1>1, <2>1, SameFlow, FlowTypes DEF PcType, CurType
  <1>3. CoreInv'
    BY <1>1, <1>2, SameFlow, NoneStarts DEF IInv, Serialized
  <1>. QED BY <1>1, <1>3 DEF CoreInv, IInv, MaskInv, NotLeftMasked
\* request_irq.  The first action resets the line: nobody runs handlers then,
\* because on several CPUs no other driver is inside free_irq.  Another action
\* joins the end of the chain, where a walk that is under way may find it.
LEMMA RequestIrqInv ==
    ASSUME OrderlySetup, IInv, NEW d \in Dev, RequestIrq(d)
    PROVE  IInv'
  <1>. USE FlowAssumption DEF IInv
  <1>1. /\ UNCHANGED <<handle_irq, gone, resend, latch, req, pc, cur, stack, hold, quiet>>
        /\ drv[d] = "none" /\ TaskMayRun
        /\ ConcurrentSetup \/ \A e \in Dev : drv[e] # "free"
        /\ chain' = Append(chain, d) /\ drv' = [drv EXCEPT ![d] = "reg"]
    BY DEF RequestIrq, flowVars
  <1>2. /\ chain \in Seq(Dev) /\ IsInjective(chain)
        /\ \A e \in Dev : Linked(e) <=> drv[e] \in {"reg", "sync"}
        /\ drv \in [Dev -> {"none", "reg", "sync", "free"}]
    BY DEF Serialized, TypeOK
  <1>3. /\ drv' \in [Dev -> {"none", "reg", "sync", "free"}] /\ drv'[d] = "reg"
        /\ \A e \in Dev : e # d => drv'[e] = drv[e]
    BY <1>1, <1>2
  <1>4. /\ chain' \in Seq(Dev) /\ Once(chain') /\ chain' # <<>>
        /\ \A x : InChain(chain', x) <=> InChain(chain, x) \/ x = d
        /\ Follows(chain', gone, d) = Null
        /\ \A x : x # d => Follows(chain', gone, x) \in {Follows(chain, gone, x), d}
    <2>1. Once(chain) /\ ~InChain(chain, d)
      BY <1>1, <1>2, ChainOps
    <2>2. PICK c, q, g : c = chain /\ q = chain' /\ g = gone
      OBVIOUS
    <2>3. c \in Seq(Dev) /\ Once(c) /\ ~InChain(c, d) /\ q = Append(c, d)
      BY <1>1, <1>2, <2>1, <2>2
    <2>4. /\ q \in Seq(Dev) /\ Once(q) /\ q # <<>>
          /\ \A x : InChain(q, x) <=> InChain(c, x) \/ x = d
          /\ Follows(q, g, d) = Null
          /\ \A x : x # d => Follows(q, g, x) \in {Follows(c, g, x), d}
      <3>1. q \in Seq(Dev) /\ Once(q) /\ q # <<>>
        BY <2>3, AppendChain
      <3>2. \A x : InChain(q, x) <=> InChain(c, x) \/ x = d
        BY <2>3, AppendChain
      <3>3. Follows(q, g, d) = Null
        <4>1. Place(q, d) = Len(q)
          BY <2>3, AppendChain
        <4>. QED BY <4>1, <3>2 DEF Follows
      <3>4. \A x : x # d => Follows(q, g, x) \in {Follows(c, g, x), d}
        BY <2>3, AppendChain
      <3>. QED BY <3>1, <3>2, <3>3, <3>4
    <2>. QED BY <2>2, <2>4
  <1>5. /\ IsInjective(chain') /\ \A x : Linked(x)' <=> Linked(x) \/ x = d
        /\ NextAction(d)' = Null
        /\ \A x : x # d => NextAction(x)' \in {NextAction(x), d}
    <2>1. /\ \A x : Linked(x) <=> InChain(chain, x)
          /\ \A x : NextAction(x) = Follows(chain, gone, x)
      BY <1>2, ChainOps
    <2>2. /\ IsInjective(chain') <=> Once(chain')
          /\ \A x : Linked(x)' <=> InChain(chain', x)
          /\ \A x : NextAction(x)' = Follows(chain', gone', x)
      BY <1>4, ChainOpsPrime
    <2>. QED BY <1>1, <1>4, <2>1, <2>2
  <1>6. \A e \in Dev : Linked(e)' <=> drv'[e] \in {"reg", "sync"}
    BY <1>2, <1>3, <1>5
  <1>7. chain = <<>> => \A i \in Entry : ~Running(i)
    <2>. SUFFICES ASSUME chain = <<>> PROVE \A i \in Entry : ~Running(i)
      OBVIOUS
    <2>1. CASE Smp
      <3>1. \A e \in Dev : drv[e] \notin {"reg", "sync", "free"}
        BY <2>1, <1>1, LinkedDrivers DEF OrderlySetup
      <3>2. \A e \in Dev : drv[e] = "none"
        BY <3>1, <1>2
      <3>. QED BY <3>2 DEF RunInv
    <2>2. CASE ~Smp
      BY <2>2, <1>1 DEF TaskMayRun, StackInv, Running
    <2>. QED BY <2>1, <2>2
  <1>8. \/ chain = <<>> /\ StartUp
        \/ chain # <<>> /\ UNCHANGED <<status, depth, mask>>
    BY DEF RequestIrq
  <1>9. /\ status' \subseteq Flags /\ depth' \in Nat /\ mask' \in BOOLEAN
        /\ depth' > 0 <=> "DISABLED" \in status'
        /\ "INPROGRESS" \in status /\ chain # <<>> => "INPROGRESS" \in status'
        /\ ~mask' \/ (chain # <<>> /\ mask' = mask /\ status' = status)
    <2>1. CASE chain = <<>>
      <3>1. status' = status \ {"INPROGRESS", "DISABLED", "MASKED"} /\ depth' = 0 /\ mask' = FALSE
        BY <2>1, <1>8 DEF StartUp
      <3>2. status' \subseteq Flags /\ "DISABLED" \notin status'
        BY <3>1 DEF Serialized, TypeOK
      <3>3. depth' \in Nat /\ ~(depth' > 0)
        BY <3>1
      <3>. QED BY <2>1, <3>1, <3>2, <3>3
    <2>2. CASE chain # <<>>
      <3>1. UNCHANGED <<status, depth, mask>>
        BY <2>2, <1>8
      <3>. QED BY <2>2, <3>1 DEF Serialized, TypeOK
    <2>. QED BY <2>1, <2>2
  <1>10. TypeOK'
    BY <1>1, <1>3, <1>4, <1>5, <1>6, <1>9, SameFlow DEF Serialized, TypeOK
  <1>11. Serialized'
    BY <1>1, <1>7, <1>9, <1>10, SameFlow DEF Serialized
  <1>12. RunInv'
    <2>. SUFFICES ASSUME NEW i \in Entry, pc[i] = "run"
                  PROVE  \E R \in SUBSET Dev : cur[i] \in R /\ Reachable(R)'
      BY <1>1, <1>3 DEF RunInv
    <2>1. PICK R \in SUBSET Dev : cur[i] \in R /\ Reachable(R)
      BY DEF RunInv
    <2>2. d \notin R
      BY <1>1, <2>1 DEF Reachable
    <2>3. ASSUME NEW x \in R \cup {d}
          PROVE  drv'[x] # "none" /\ (NextAction(x)' = Null \/ NextAction(x)' \in R \cup {d})
      <3>1. CASE x = d
        BY <3>1, <1>3, <1>5
      <3>2. CASE x # d
        BY <3>2, <2>1, <2>3, <1>3, <1>5 DEF Reachable
      <3>. QED BY <3>1, <3>2
    <2>4. Reachable(R \cup {d})'
      BY <2>3 DEF Reachable
    <2>. QED BY <2>1, <2>4
  <1>13. HoldInv'
    <2>1. Tokens = Outstanding(hold) /\ Tokens' = Outstanding(hold)
      BY <1>1 DEF Tokens, Outstanding
    <2>2. ASSUME ~CanStick PROVE depth' = Cardinality(Tokens')
      <3>1. CASE chain = <<>>
        <4>1. hold \in HoldType
          BY DEF Serialized, TypeOK, HoldType
        <4>2. \A e \in Dev : ~(hold[e] > 0)
          BY <3>1, LinkedDrivers DEF HoldInv
        <4>3. \A e \in Dev : hold[e] = 0
          BY <4>1, <4>2 DEF HoldType
        <4>. QED BY <4>1, <4>3, <2>1, <3>1, <1>8, NoHolds DEF StartUp
      <3>2. CASE chain # <<>>
        BY <2>1, <2>2, <3>2, <1>8 DEF HoldInv
      <3>. QED BY <3>1, <3>2
    <2>3. ASSUME NEW e \in Dev
          PROVE  /\ hold'[e] > 0 => drv'[e] \in {"reg", "sync"}
                 /\ drv'[e] = "sync" \/ quiet'[e] => hold'[e] > 0
      BY <1>1, <1>3 DEF HoldInv
    <2>. QED BY <2>2, <2>3 DEF HoldInv
  <1>14. ~CanStick => DisableHolds'
    BY <1>1, SameFlow DEF DisableHolds
  <1>15. MaskInv' /\ NotLeftMasked'
    BY <1>1, <1>9 DEF MaskInv, NotLeftMasked
  <1>. QED BY <1>1, <1>11, <1>12, <1>13, <1>14, <1>15, SameFlow

\* disable_irq returns from synchronize_irq.
LEMMA DisableIrqReturnsInv ==
    ASSUME IInv, NEW d \in Dev, DisableIrqReturns(d)
    PROVE  IInv'
  <1>. USE DEF IInv
  <1>1. /\ UNCHANGED <<handle_irq, status, depth, chain, gone, resend, mask, latch, req, pc, cur, stack, hold>>
        /\ drv[d] = "sync" /\ TaskMayRun /\ SynchronizeIrq
        /\ drv' = [drv EXCEPT ![d] = "reg"] /\ quiet' = [quiet EXCEPT ![d] = TRUE]
    BY DEF DisableIrqReturns, descVars, hwVars, flowVars
  <1>2. /\ drv' \in [Dev -> {"none", "reg", "sync", "free"}] /\ drv'[d] = "reg"
        /\ \A e \in Dev : e # d => drv'[e] = drv[e]
    BY <1>1 DEF Serialized, TypeOK
  <1>3. /\ quiet' \in [Dev -> BOOLEAN]
        /\ \A e \in Dev : e # d => quiet'[e] = quiet[e]
    BY <1>1 DEF Serialized, TypeOK
  <1>4. \A i \in Entry : ~Running(i) /\ ~Running(i)'
    BY <1>1, Quiesced, SameFlow
  <1>5. TypeOK'
    <2>1. IsInjective(chain)' /\ \A e \in Dev : Linked(e)' <=> drv'[e] \in {"reg", "sync"}
      BY <1>1, <1>2, SameChain DEF Serialized, TypeOK
    <2>. QED BY <1>1, <1>2, <1>3, <2>1, SameFlow DEF Serialized, TypeOK
  <1>6. Serialized' /\ RunInv' /\ DisableHolds'
    BY <1>4, <1>5 DEF Serialized, RunInv, DisableHolds, Running
  <1>7. HoldInv'
    <2>1. Tokens' = Tokens
      BY <1>1 DEF Tokens
    <2>2. ASSUME NEW e \in Dev
          PROVE  /\ hold'[e] > 0 => drv'[e] \in {"reg", "sync"}
                 /\ drv'[e] = "sync" \/ quiet'[e] => hold'[e] > 0
      <3>1. CASE e = d
        BY <3>1, <1>1, <1>2 DEF HoldInv
      <3>2. CASE e # d
        BY <3>2, <1>1, <1>2, <1>3 DEF HoldInv
      <3>. QED BY <3>1, <3>2
    <2>. QED BY <1>1, <2>1, <2>2 DEF HoldInv
  <1>8. MaskInv' /\ NotLeftMasked'
    BY <1>1 DEF MaskInv, NotLeftMasked
  <1>. QED BY <1>1, <1>6, <1>7, <1>8, SameFlow

\* free_irq unlinks the action.  A walk that is at it, or before it, still finds
\* all it could reach: the unlinked action keeps its next pointer.
LEMMA FreeIrqInv ==
    ASSUME IInv, NEW d \in Dev, FreeIrq(d)
    PROVE  IInv'
  <1>. USE FlowAssumption DEF IInv
  <1>1. /\ UNCHANGED <<handle_irq, depth, resend, mask, latch, pc, cur, stack>>
        /\ drv[d] = "reg" /\ (hold[d] = 0 \/ chain = <<d>>)
        /\ chain' = RemoveAt(chain, Position(d))
        /\ gone' = [gone EXCEPT ![d] = NextAction(d)]
        /\ status' = IF chain' = <<>> THEN status \cup {"DISABLED"} ELSE status
        /\ drv' = [drv EXCEPT ![d] = "free"] /\ hold' = [hold EXCEPT ![d] = 0]
    BY DEF FreeIrq, flowVars
  <1>2. /\ chain \in Seq(Dev) /\ IsInjective(chain)
        /\ \A e \in Dev : Linked(e) <=> drv[e] \in {"reg", "sync"}
        /\ drv \in [Dev -> {"none", "reg", "sync", "free"}]
        /\ gone \in [Dev -> Dev \cup {Null}] /\ hold \in HoldType
    BY DEF Serialized, TypeOK, HoldType
  <1>3. /\ drv' \in [Dev -> {"none", "reg", "sync", "free"}] /\ drv'[d] = "free"
        /\ \A e \in Dev : e # d => drv'[e] = drv[e]
    BY <1>1, <1>2
  <1>4. /\ hold' \in HoldType /\ hold'[d] = 0
        /\ \A e \in Dev : e # d => hold'[e] = hold[e]
    BY <1>1, <1>2 DEF HoldType
  <1>5. /\ req' \in [Dev -> BOOLEAN] /\ quiet' \in [Dev -> BOOLEAN] /\ ~quiet'[d]
        /\ \A e \in Dev : e # d => quiet'[e] = quiet[e]
    BY DEF FreeIrq, Serialized, TypeOK
  <1>6. /\ \A x : Linked(x) <=> InChain(chain, x)
        /\ Position(d) = Place(chain, d)
        /\ \A x : NextAction(x) = Follows(chain, gone, x)
        /\ Once(chain) /\ InChain(chain, d) /\ chain # <<>>
    BY <1>1, <1>2, ChainOps, LinkedDrivers
  <1>7. /\ chain' \in Seq(Dev) /\ Once(chain') /\ (chain = <<d>> => chain' = <<>>)
        /\ \A x : InChain(chain', x) <=> InChain(chain, x) /\ x # d
        /\ Follows(chain', gone', d) = Follows(chain, gone, d)
        /\ \A x \in Dev : x # d =>
              \/ Follows(chain', gone', x) = Follows(chain, gone, x)
              \/ Follows(chain, gone, x) = d /\ Follows(chain', gone', x) = Follows(chain, gone, d)
    <2>1. /\ chain' = RemoveAt(chain, Place(chain, d))
          /\ gone' = [gone EXCEPT ![d] = Follows(chain, gone, d)]
      BY <1>1, <1>6
    <2>2. PICK c, q, g, h : c = chain /\ q = chain' /\ g = gone /\ h = gone'
      OBVIOUS
    <2>3. /\ c \in Seq(Dev) /\ Once(c) /\ InChain(c, d) /\ g \in [Dev -> Dev \cup {Null}]
          /\ q = RemoveAt(c, Place(c, d)) /\ h = [g EXCEPT ![d] = Follows(c, g, d)]
      BY <1>2, <1>6, <2>1, <2>2
    <2>4. /\ q \in Seq(Dev) /\ Once(q) /\ (c = <<d>> => q = <<>>)
          /\ \A x : InChain(q, x) <=> InChain(c, x) /\ x # d
          /\ Follows(q, h, d) = Follows(c, g, d)
          /\ \A x \in Dev : x # d =>
                \/ Follows(q, h, x) = Follows(c, g, x)
                \/ Follows(c, g, x) = d /\ Follows(q, h, x) = Follows(c, g, d)
      <3>1. q \in Seq(Dev) /\ Once(q) /\ (c = <<d>> => q = <<>>)
        BY <2>3, RemoveChain
      <3>2. \A x : InChain(q, x) <=> InChain(c, x) /\ x # d
        BY <2>3, RemoveChain
      <3>3. Follows(q, h, d) = Follows(c, g, d)
        BY <3>2, <2>3 DEF Follows
      <3>4. ASSUME NEW x \in Dev, x # d
            PROVE  \/ Follows(q, h, x) = Follows(c, g, x)
                   \/ Follows(c, g, x) = d /\ Follows(q, h, x) = Follows(c, g, d)
        <4>1. CASE InChain(c, x)
          BY <4>1, <3>4, <2>3, RemoveChain
        <4>2. CASE ~InChain(c, x)
          BY <4>2, <3>2, <3>4, <2>3 DEF Follows
        <4>. QED BY <4>1, <4>2
      <3>. QED BY <3>1, <3>2, <3>3, <3>4
    <2>. QED BY <2>2, <2>4
  <1>8. /\ IsInjective(chain') /\ \A x : Linked(x)' <=> Linked(x) /\ x # d
        /\ NextAction(d)' = NextAction(d)
        /\ \A x \in Dev : x # d =>
              \/ NextAction(x)' = NextAction(x)
              \/ NextAction(x) = d /\ NextAction(x)' = NextAction(d)
    <2>1. /\ IsInjective(chain') <=> Once(chain')
          /\ \A x : Linked(x)' <=> InChain(chain', x)
          /\ \A x : NextAction(x)' = Follows(chain', gone', x)
      BY <1>7, ChainOpsPrime
    <2>. QED BY <1>6, <1>7, <2>1
  <1>9. gone' \in [Dev -> Dev \cup {Null}]
    <2>1. NextAction(d) = Null \/ NextAction(d) \in Dev
      BY <1>1, <1>2, ChainReachable DEF Reachable
    <2>. QED BY <1>1, <1>2, <2>1
  <1>10. /\ status' \subseteq Flags
         /\ "INPROGRESS" \in status' <=> "INPROGRESS" \in status
         /\ chain' # <<>> => status' = status
    BY <1>1 DEF Serialized, TypeOK, Flags
  <1>11. TypeOK'
    <2>1. \A e \in Dev : Linked(e)' <=> drv'[e] \in {"reg", "sync"}
      BY <1>2, <1>3, <1>8
    <2>2. depth' \in Nat /\ (chain' # <<>> => (depth' > 0 <=> "DISABLED" \in status'))
      BY <1>1, <1>6, <1>10 DEF Serialized, TypeOK
    <2>3. handle_irq' \in Flows /\ mask' \in BOOLEAN /\ latch' \in BOOLEAN /\ resend' \in BOOLEAN
      BY <1>1 DEF Serialized, TypeOK
    <2>. QED BY <1>1, <1>3, <1>4, <1>5, <1>7, <1>8, <1>9, <1>10, <2>1, <2>2, <2>3, SameFlow
             DEF TypeOK, HoldType
  <1>12. Serialized'
    BY <1>1, <1>10, <1>11, SameFlow DEF Serialized
  <1>13. RunInv'
    <2>1. \A e \in Dev : drv[e] # "none" => drv'[e] # "none"
      BY <1>3
    <2>2. ASSUME NEW R \in SUBSET Dev, Reachable(R) PROVE Reachable(R)'
      <3>1. ASSUME NEW x \in R
            PROVE  drv'[x] # "none" /\ (NextAction(x)' = Null \/ NextAction(x)' \in R)
        <4>1. x \in Dev /\ drv[x] # "none" /\ (NextAction(x) = Null \/ NextAction(x) \in R)
          BY <2>2 DEF Reachable
        <4>2. NextAction(x)' = Null \/ NextAction(x)' \in R
          <5>1. CASE NextAction(x)' = NextAction(x)
            BY <5>1, <4>1
          <5>2. CASE NextAction(x) = d /\ NextAction(x)' = NextAction(d)
            <6>1. d \in R
              BY <5>2, <4>1
            <6>. QED BY <6>1, <5>2, <2>2 DEF Reachable
          <5>. QED BY <5>1, <5>2, <1>8
        <4>. QED BY <4>1, <4>2, <2>1
      <3>. QED BY <3>1 DEF Reachable
    <2>. QED BY <1>1, <2>1, <2>2, SameFlow DEF RunInv
  <1>14. HoldInv'
    <2>1. ASSUME chain' # <<>> PROVE Tokens' = Tokens
      <3>1. \A e \in Dev : hold'[e] = hold[e]
        BY <2>1, <1>1, <1>4, <1>7
      <3>. QED BY <3>1 DEF Tokens
    <2>2. ~CanStick /\ chain' # <<>> => depth' = Cardinality(Tokens')
      BY <1>1, <1>6, <2>1 DEF HoldInv
    <2>3. ASSUME NEW e \in Dev
          PROVE  /\ hold'[e] > 0 => drv'[e] \in {"reg", "sync"}
                 /\ drv'[e] = "sync" \/ quiet'[e] => hold'[e] > 0
      <3>1. CASE e = d
        <4>1. ~(hold'[e] > 0)
          BY <3>1, <1>4
        <4>. QED BY <3>1, <4>1, <1>3, <1>5
      <3>2. CASE e # d
        BY <3>2, <1>3, <1>4, <1>5 DEF HoldInv
      <3>. QED BY <3>1, <3>2
    <2>. QED BY <2>2, <2>3 DEF HoldInv
  <1>15. ~CanStick => DisableHolds'
    BY <1>1, <1>5, SameFlow DEF DisableHolds
  <1>16. MaskInv' /\ NotLeftMasked'
    BY <1>1, <1>6, <1>10 DEF MaskInv, NotLeftMasked
  <1>. QED BY <1>1, <1>12, <1>13, <1>14, <1>15, <1>16, SameFlow

\* free_irq returns from synchronize_irq, and the action is freed.
LEMMA FreeIrqReturnsInv ==
    ASSUME IInv, NEW d \in Dev, FreeIrqReturns(d)
    PROVE  IInv'
  <1>. USE DEF IInv
  <1>1. /\ UNCHANGED <<handle_irq, status, depth, chain, resend, mask, latch, req, pc, cur, stack, hold, quiet>>
        /\ drv[d] = "free" /\ TaskMayRun /\ SynchronizeIrq
        /\ drv' = [drv EXCEPT ![d] = "none"] /\ gone' = [gone EXCEPT ![d] = Null]
    BY DEF FreeIrqReturns, hwVars, flowVars
  <1>2. /\ drv' \in [Dev -> {"none", "reg", "sync", "free"}] /\ drv'[d] = "none"
        /\ \A e \in Dev : e # d => drv'[e] = drv[e]
        /\ gone' \in [Dev -> Dev \cup {Null}]
    BY <1>1 DEF Serialized, TypeOK
  <1>3. \A i \in Entry : ~Running(i) /\ ~Running(i)'
    BY <1>1, Quiesced, SameFlow
  <1>4. TypeOK'
    <2>1. \A x : Linked(x)' <=> Linked(x)
      BY <1>1 DEF Linked
    <2>2. \A e \in Dev : Linked(e)' <=> drv'[e] \in {"reg", "sync"}
      BY <1>1, <1>2, <2>1 DEF Serialized, TypeOK
    <2>. QED BY <1>1, <1>2, <2>2, SameFlow DEF Serialized, TypeOK
  <1>5. Serialized' /\ RunInv' /\ DisableHolds'
    BY <1>3, <1>4 DEF Serialized, RunInv, DisableHolds, Running
  <1>6. HoldInv'
    <2>1. Tokens' = Tokens
      BY <1>1 DEF Tokens
    <2>2. ASSUME NEW e \in Dev
          PROVE  /\ hold'[e] > 0 => drv'[e] \in {"reg", "sync"}
                 /\ drv'[e] = "sync" \/ quiet'[e] => hold'[e] > 0
      <3>1. CASE e = d
        BY <3>1, <1>1, <1>2 DEF HoldInv
      <3>2. CASE e # d
        BY <3>2, <1>1, <1>2 DEF HoldInv
      <3>. QED BY <3>1, <3>2
    <2>. QED BY <1>1, <2>1, <2>2 DEF HoldInv
  <1>7. MaskInv' /\ NotLeftMasked'
    BY <1>1 DEF MaskInv, NotLeftMasked
  <1>. QED BY <1>1, <1>5, <1>6, <1>7, SameFlow
-------------------------------------------------------------------------------
(* The theorems                                                            *)

LEMMA InitInv ==
    ASSUME Init
    PROVE  IInv
  <1>. USE FlowAssumption DEF Init
  <1>1. TypeOK
    <2>1. \A d \in Dev : ~Linked(d)
      BY DEF Linked
    <2>2. IsInjective(chain)
      BY DEF IsInjective
    <2>3. 0 \in 0..MaxHold /\ 1 \in Nat /\ 1 > 0
      OBVIOUS
    <2>4. hold \in [Dev -> 0..MaxHold] /\ depth \in Nat
      BY <2>3
    <2>5. /\ chain \in Seq(Dev) /\ stack \in Seq(Entry) /\ status \subseteq Flags
          /\ gone \in [Dev -> Dev \cup {Null}] /\ cur \in [Entry -> Dev \cup {Null}]
      BY DEF Flags
    <2>6. /\ pc \in [Entry -> {"out", "entry", "run", "ran"}]
          /\ drv \in [Dev -> {"none", "reg", "sync", "free"}]
          /\ \A d \in Dev : drv[d] \notin {"reg", "sync"}
      OBVIOUS
    <2>7. /\ mask \in BOOLEAN /\ latch \in BOOLEAN /\ req \in [Dev -> BOOLEAN] /\ resend \in BOOLEAN
          /\ quiet \in [Dev -> BOOLEAN]
      OBVIOUS
    <2>8. handle_irq \in Flows /\ chain = <<>>
      OBVIOUS
    <2>. QED BY ONLY <2>1, <2>2, <2>4, <2>5, <2>6, <2>7, <2>8 DEF TypeOK
  <1>2. \A i \in Entry : pc[i] = "out"
    OBVIOUS
  <1>3. Serialized /\ RunInv /\ DisableHolds
    BY <1>1, <1>2 DEF Serialized, RunInv, DisableHolds, Running
  <1>4. StackInv
    BY <1>2 DEF StackInv
  <1>5. HoldInv
    BY DEF HoldInv
  <1>6. MaskInv /\ NotLeftMasked
    BY DEF MaskInv, NotLeftMasked
  <1>. QED BY <1>3, <1>4, <1>5, <1>6 DEF IInv

LEMMA NextInv ==
    ASSUME OrderlySetup, IInv, [Next]_vars
    PROVE  IInv'
  <1>1. ASSUME NEW h \in Hw, Deliver(h) PROVE IInv'
    <2>1. h \in Entry
      BY DEF Entry
    <2>2. /\ pc[h] = "out" /\ Enter(h)
          /\ UNCHANGED <<handle_irq, status, depth, chain, gone, drv, hold, quiet, mask, latch, req, resend>>
      BY <1>1 DEF Deliver, descVars, hwVars, drvVars
    <2>3. resend' \in BOOLEAN
      BY <2>2 DEF IInv, Serialized, TypeOK
    <2>. QED BY <2>1, <2>2, <2>3, EnterInv
  <1>2. ASSUME ResendIrqs PROVE IInv'
    <2>1. Tasklet \in Entry
      BY DEF Entry
    <2>2. /\ pc[Tasklet] = "out" /\ Enter(Tasklet) /\ resend' = FALSE
          /\ UNCHANGED <<handle_irq, status, depth, chain, gone, drv, hold, quiet, mask, latch, req>>
      BY <1>2 DEF ResendIrqs, hwVars, drvVars
    <2>. QED BY <2>1, <2>2, EnterInv
  <1>3. ASSUME NEW i \in Entry, FlowStep(i) PROVE IInv'
    BY <1>3, LevelEntryInv, LevelExitInv, EdgeEntryInv, EdgeExitInv, HandlerInv DEF FlowStep
  <1>4. ASSUME NEW i \in Entry, pc[i] = "run" PROVE cur[i] \in Dev
    BY <1>4 DEF IInv, RunInv
  <1>5. ASSUME NEW i \in Entry, HandlerDisables(i) PROVE IInv'
    <2>1. /\ pc[i] = "run" /\ drv[cur[i]] = "reg" /\ DisableNosync(cur[i])
          /\ UNCHANGED <<handle_irq, chain, gone, resend, mask, latch, req, pc, cur, stack, quiet, drv>>
      BY <1>5 DEF HandlerDisables, hwVars, flowVars
    <2>. QED BY <2>1, <1>4, DisableNosyncInv
  <1>6. ASSUME NEW i \in Entry, HandlerEnables(i) PROVE IInv'
    <2>1. /\ pc[i] = "run" /\ drv[cur[i]] = "reg" /\ Enable(cur[i])
          /\ UNCHANGED <<handle_irq, chain, gone, latch, req, pc, cur, stack, drv>>
      BY <1>6 DEF HandlerEnables, flowVars
    <2>. QED BY <2>1, <1>4, EnableInv
  <1>7. ASSUME NEW d \in Dev, DisableIrq(d) PROVE IInv'
    <2>1. /\ drv[d] = "reg" /\ DisableNosync(d) /\ drv' = [drv EXCEPT ![d] = "sync"]
          /\ UNCHANGED <<handle_irq, chain, gone, resend, mask, latch, req, pc, cur, stack, quiet>>
      BY <1>7 DEF DisableIrq, hwVars, flowVars
    <2>. QED BY <2>1, DisableNosyncInv
  <1>8. ASSUME NEW d \in Dev, EnableIrq(d) PROVE IInv'
    <2>1. /\ drv[d] = "reg" /\ Enable(d)
          /\ UNCHANGED <<handle_irq, chain, gone, latch, req, pc, cur, stack, drv>>
      BY <1>8 DEF EnableIrq, flowVars
    <2>. QED BY <2>1, EnableInv
  <1>9. CASE UNCHANGED vars
    BY <1>9, StutterInv
  <1>. QED BY <1>1, <1>2, <1>3, <1>5, <1>6, <1>7, <1>8, <1>9, KillIrqInv, RaiseInv, RequestIrqInv,
              DisableIrqReturnsInv, FreeIrqInv, FreeIrqReturnsInv DEF Next

\* The invariant holds in every behaviour, with any number of drivers and of
\* entries of the flow handler, if on several CPUs the drivers' set-up is orderly.
THEOREM Invariance ==
    ASSUME OrderlySetup
    PROVE  Safety => []IInv
  <1>1. Init => IInv
    BY InitInv
  <1>2. IInv /\ [Next]_vars => IInv'
    BY NextInv
  <1>. QED BY <1>1, <1>2, PTL DEF Safety

\* IRQ_INPROGRESS: the handlers of a line never run twice at a time, on another
\* CPU, nested, from the resend tasklet, or after the line was set up anew; and
\* the descriptor keeps its types, with depth and IRQ_DISABLED in step.
THEOREM SerializedHolds ==
    ASSUME OrderlySetup
    PROVE  Safety => []Serialized
  <1>1. IInv => Serialized
    BY DEF IInv
  <1>. QED BY <1>1, Invariance, PTL

\* free_irq: no walk of handle_IRQ_event along the chain is ever at an action
\* that free_irq has returned from.
THEOREM FreeIsSyncHolds ==
    ASSUME OrderlySetup
    PROVE  Safety => []FreeIsSync
  <1>1. IInv => FreeIsSync
    BY DEF IInv, RunInv, Reachable, FreeIsSync
  <1>. QED BY <1>1, Invariance, PTL

\* disable_irq: however the calls of the drivers of a shared line nest, no
\* handler runs between its return and the matching enable_irq, as long as
\* note_interrupt does not kill the line, which resets the depth.
THEOREM DisableHoldsHolds ==
    ASSUME OrderlySetup, ~CanStick
    PROVE  Safety => []DisableHolds
  <1>1. IInv => DisableHolds
    BY DEF IInv
  <1>. QED BY <1>1, Invariance, PTL

\* A line that is enabled and has an action is masked only while somebody who
\* will unmask it is inside the flow handler.
THEOREM NotLeftMaskedHolds ==
    ASSUME OrderlySetup
    PROVE  Safety => []NotLeftMasked
  <1>1. IInv => NotLeftMasked
    BY DEF IInv
  <1>. QED BY <1>1, Invariance, PTL
===============================================================================
