-------------------------- MODULE PluginQueryProofs --------------------------
(***************************************************************************)
(* Proofs about PluginQuery, for answers of any length and for all caps.   *)
(*                                                                         *)
(* The builders of Proposals are folds, and what a fold computes is shown  *)
(* by induction over the items.  The induction runs over sets of numbers   *)
(* (WFMin): no fact is about an arbitrary predicate.                       *)
(***************************************************************************)
EXTENDS PluginQuery, TLAPS, WellFoundedInduction, FiniteSetTheorems, FunctionTheorems

-----------------------------------------------------------------------------
(* Induction and maxima                                                     *)

LEMMA LeastNumber ==
  ASSUME NEW S, S \subseteq Nat, S # {}
  PROVE  \E m \in S : \A k \in S : m <= k
<1> DEFINE R == OpToRel(<, Nat)
<1>1. \E m \in S : \A k \in S : ~ (<<k, m>> \in R)
  BY NatLessThanWellFounded, WFMin
<1>2. \A k, m \in Nat : <<k, m>> \in R <=> k < m
  BY DEF OpToRel
<1> HIDE DEF R
<1>3. PICK m \in S : \A k \in S : ~ (<<k, m>> \in R)
  BY <1>1
<1>4. \A k \in S : ~ (k < m)
  BY <1>2, <1>3
<1>5. \A k \in S : m <= k
  BY <1>4, SMT
<1> QED
  BY <1>5

\* A set that contains 0 and is closed under successor as far as n.
LEMMA UpTo ==
  ASSUME NEW n \in Nat, NEW S, 0 \in S, \A k \in 1..n : k - 1 \in S => k \in S
  PROVE  0..n \subseteq S
<1> DEFINE T == {k \in 0..n : k \notin S}
<1>1. SUFFICES ASSUME T # {} PROVE FALSE
  BY <1>1
<1>2. PICK m \in T : \A k \in T : m <= k
  <2>1. T \subseteq Nat
    OBVIOUS
  <2> HIDE DEF T
  <2> QED
    BY <1>1, <2>1, LeastNumber
<1>3. m \in 0..n /\ m \notin S /\ m # 0
  BY <1>2
<1>4. m - 1 \in 0..n /\ m \in 1..n /\ ~(m <= m - 1)
  BY <1>3
<1>5. m - 1 \in S
  BY <1>2, <1>4
<1> QED
  BY <1>3, <1>4, <1>5

LEMMA MaxOf ==
  ASSUME NEW n \in Nat, NEW S, S \subseteq 1..n, S # {}
  PROVE  Max(S) \in S /\ \A k \in S : k <= Max(S)
<1> DEFINE T == {n - k : k \in S}
<1>1. T \subseteq Nat /\ T # {}
  OBVIOUS
<1>2. PICK t \in T : \A u \in T : t <= u
  BY <1>1, LeastNumber
<1>3. PICK m \in S : t = n - m
  OBVIOUS
<1>4. \A k \in S : m >= k
  <2> TAKE k \in S
  <2>1. n - m <= n - k
    BY <1>2, <1>3
  <2> QED
    BY <2>1
<1>5. \E x \in S : \A y \in S : x >= y
  BY <1>4
<1>6. Max(S) \in S /\ \A y \in S : Max(S) >= y
  BY <1>5 DEF Max
<1> QED
  BY <1>6

\* The items of a loop up to its k-th, and the last of them.
LEMMA MaxOfPrefix ==
  ASSUME NEW n \in Nat, NEW k \in 1..n
  PROVE  Max(1..k) = k /\ (1..k) \ {k} = 1..(k - 1) /\ 1..k # {}
<1>1. 1..k \subseteq 1..n /\ k \in 1..k
  OBVIOUS
<1>2. Max(1..k) \in 1..k /\ k <= Max(1..k)
  BY <1>1, MaxOf
<1> QED
  BY <1>1, <1>2

-----------------------------------------------------------------------------
(* Folds                                                                    *)

\* A loop over n items with an accumulator in A: what step makes of the
\* accumulator and the number of the item.
Loops(n, A, base, step) == n \in Nat /\ base \in A /\ step \in [A \X (1..n) -> A]

\* The function that MapThenFoldSet recurs by.
Recurs(g, n, A, base, step) ==
  /\ g \in [SUBSET (1..n) -> A]
  /\ \A s \in SUBSET (1..n) :
       g[s] = IF s = {} THEN base ELSE step[<<g[s \ {Max(s)}], Max(s)>>]

\* A function that does the same as long as it stays in A.
Follows(it, n, A, base, step) ==
  /\ it[{}] = base
  /\ \A s \in SUBSET (1..n) :
       s # {} /\ it[s \ {Max(s)}] \in A => it[s] = step[<<it[s \ {Max(s)}], Max(s)>>]

\* The accumulator after each item.
Passes(v, n, A, base, step) ==
  /\ v \in [0..n -> A]
  /\ v[0] = base
  /\ \A k \in 1..n : v[k] = step[<<v[k - 1], k>>]

LEMMA FoldExists ==
  ASSUME NEW n, NEW A, NEW base, NEW step, Loops(n, A, base, step)
  PROVE  \E g : Recurs(g, n, A, base, step)
<1>0. n \in Nat /\ base \in A /\ step \in [A \X (1..n) -> A]
  BY DEF Loops
<1> DEFINE Right(g, k) ==
             /\ g \in [SUBSET (1..k) -> A]
             /\ \A s \in SUBSET (1..k) :
                  g[s] = IF s = {} THEN base ELSE step[<<g[s \ {Max(s)}], Max(s)>>]
           T == {k \in 0..n : \E g : Right(g, k)}
<1>1. 0 \in T
  <2> DEFINE g == [s \in SUBSET (1..0) |-> base]
  <2>1. 1..0 = {} /\ 0 \in 0..n
    BY <1>0
  <2>2. Right(g, 0)
    BY <1>0, <2>1
  <2> HIDE DEF g, Right
  <2>3. \E h : Right(h, 0)
    BY <2>2
  <2> QED
    BY <2>1, <2>3
<1>2. ASSUME NEW k \in 1..n, k - 1 \in T PROVE k \in T
  <2>1. PICK g : Right(g, k - 1)
    BY <1>2
  <2> DEFINE h == [s \in SUBSET (1..k) |->
                     IF k \in s THEN step[<<g[s \ {k}], k>>] ELSE g[s]]
  <2>2. \A s \in SUBSET (1..k) : /\ s \ {k} \in SUBSET (1..(k - 1))
                                 /\ k \notin s => s \in SUBSET (1..(k - 1))
    OBVIOUS
  <2>3. h \in [SUBSET (1..k) -> A]
    <3> SUFFICES ASSUME NEW s \in SUBSET (1..k)
                 PROVE  (IF k \in s THEN step[<<g[s \ {k}], k>>] ELSE g[s]) \in A
      OBVIOUS
    <3>1. g \in [SUBSET (1..(k - 1)) -> A]
      BY <2>1
    <3>2. g[s \ {k}] \in A /\ (k \notin s => g[s] \in A)
      BY <2>2, <3>1
    <3>3. <<g[s \ {k}], k>> \in A \X (1..n)
      BY <3>2
    <3> QED
      BY <1>0, <3>2, <3>3
  <2>4. ASSUME NEW s \in SUBSET (1..k)
        PROVE  h[s] = IF s = {} THEN base ELSE step[<<h[s \ {Max(s)}], Max(s)>>]
    <3>1. CASE k \in s
      <4>1. Max(s) = k
        <5>1. n \in Nat /\ s \subseteq 1..n /\ s # {}
          BY <1>0, <3>1
        <5>2. Max(s) \in s /\ k <= Max(s)
          BY <3>1, <5>1, MaxOf
        <5>3. Max(s) \in 1..k
          BY <5>2
        <5> QED
          BY <5>2, <5>3
      <4>2. h[s] = step[<<g[s \ {k}], k>>]
        BY <3>1
      <4>3. s \ {k} \in SUBSET (1..k) /\ k \notin s \ {k}
        OBVIOUS
      <4>4. h[s \ {k}] = g[s \ {k}]
        BY <4>3
      <4> HIDE DEF h
      <4> QED
        BY <3>1, <4>1, <4>2, <4>4
    <3>2. CASE k \notin s
      <4>1. s \in SUBSET (1..(k - 1)) /\ h[s] = g[s]
        BY <2>2, <3>2
      <4>2. s \ {Max(s)} \in SUBSET (1..k) /\ k \notin s \ {Max(s)}
        BY <3>2
      <4>3. h[s \ {Max(s)}] = g[s \ {Max(s)}]
        BY <4>2
      <4>4. g[s] = IF s = {} THEN base ELSE step[<<g[s \ {Max(s)}], Max(s)>>]
        BY <2>1, <4>1
      <4> HIDE DEF h
      <4> QED
        BY <4>1, <4>3, <4>4
    <3> QED
      BY <3>1, <3>2
  <2> HIDE DEF h
  <2>5. Right(h, k)
    BY <2>3, <2>4
  <2> HIDE DEF Right
  <2>6. \E f : Right(f, k)
    BY <2>5
  <2> QED
    BY <2>6
<1> HIDE DEF Right
<1>3. n \in T
  <2>1. 0..n \subseteq T
    BY <1>0, <1>1, <1>2, UpTo
  <2> QED
    BY <1>0, <2>1
<1> QED
  BY <1>3 DEF Right, Recurs

\* What such a function makes of the first items, the first two, and so on.
LEMMA FoldRuns ==
  ASSUME NEW n, NEW A, NEW base, NEW step, Loops(n, A, base, step),
         NEW it, Follows(it, n, A, base, step)
  PROVE  \E v : Passes(v, n, A, base, step) /\ it[1..n] = v[n]
<1>0. n \in Nat /\ base \in A /\ step \in [A \X (1..n) -> A]
  BY DEF Loops
<1> DEFINE v == [k \in 0..n |-> it[1..k]]
<1>1. v[0] = base
  <2>1. 1..0 = {} /\ v[0] = it[1..0]
    BY <1>0
  <2> QED
    BY <2>1 DEF Follows
<1>2. ASSUME NEW k \in 1..n, v[k - 1] \in A
      PROVE  v[k] = step[<<v[k - 1], k>>] /\ v[k] \in A
  <2>1. /\ 1..k \in SUBSET (1..n) /\ 1..k # {}
        /\ Max(1..k) = k /\ (1..k) \ {k} = 1..(k - 1)
    BY <1>0, MaxOfPrefix
  <2>2. v[k] = it[1..k] /\ v[k - 1] = it[1..(k - 1)]
    BY <1>0
  <2> HIDE DEF v
  <2>3. v[k] = step[<<v[k - 1], k>>]
    BY <1>2, <2>1, <2>2 DEF Follows
  <2>4. <<v[k - 1], k>> \in A \X (1..n)
    BY <1>2
  <2> QED
    BY <1>0, <2>3, <2>4
<1>3. v[n] = it[1..n]
  BY <1>0
<1>4. \A k \in 0..n : v[k] \in A
  <2> DEFINE S == {k \in 0..n : v[k] \in A}
  <2> HIDE DEF v
  <2>1. 0 \in S
    BY <1>0, <1>1
  <2>3. ASSUME NEW k \in 1..n, k - 1 \in S PROVE k \in S
    <3>1. v[k - 1] \in A /\ k \in 0..n
      BY <1>0, <2>3
    <3>2. v[k] \in A
      BY <1>2, <3>1
    <3> QED
      BY <3>1, <3>2
  <2>2. 0..n \subseteq S
    <3> HIDE DEF S
    <3> QED
      BY <1>0, <2>1, <2>3, UpTo
  <2> QED
    BY <2>2
<1>5. v \in [0..n -> A]
  BY <1>4
<1>6. \A k \in 1..n : v[k] = step[<<v[k - 1], k>>]
  <2> HIDE DEF v
  <2> TAKE k \in 1..n
  <2>1. k - 1 \in 0..n
    BY <1>0
  <2>2. v[k - 1] \in A
    BY <1>4, <2>1
  <2> QED
    BY <1>2, <2>2
<1> HIDE DEF v
<1> QED
  BY <1>1, <1>3, <1>5, <1>6 DEF Passes

-----------------------------------------------------------------------------
(* Types                                                                    *)

RefKinds == {"input", "sub", "ip", "domain", "host", "ip-a", "ip-aaaa", "ns", "mx", "snap",
             "gh", "co"}
Types == {"DOMAIN", "IP_ADDRESS", "URL", "PERSON", "ORGANIZATION"}
Rels == {"SUBDOMAIN_OF", "RESOLVES_TO", "ASSOCIATED_WITH"}

RefT == RefKinds \X Nat
EntityT == [ref : RefT, type : Types, label : Labels]
LinkT == [src : RefT, dst : RefT, rel : Rels]
LoopT == [entities : Seq(EntityT), links : Seq(LinkT), truncated : BOOLEAN]
KindT == [prefix : RefKinds, type : Types, rel : Rels, fromInput : BOOLEAN, once : BOOLEAN]

LEMMA Atoms ==
  /\ MaxSubdomains \in Nat /\ MaxEntities \in Nat /\ MaxSnapshots \in Nat /\ MaxMatches \in Nat
  /\ Names \subseteq Labels /\ Hosts \subseteq Names /\ Junk \in Labels
  /\ Own \notin Names /\ Junk \notin Names
  /\ Input \in RefT
<1>1. Own \notin Names /\ Junk \notin Names
  <2>1. {Own, Junk} \cap Names = {}
    BY CapsOK
  <2> QED
    BY <2>1
<1>2. /\ MaxSubdomains \in Nat /\ MaxEntities \in Nat
      /\ MaxSnapshots \in Nat /\ MaxMatches \in Nat
  BY CapsOK
<1>3. Names \subseteq Labels /\ Hosts \subseteq Names /\ Junk \in Labels
  BY DEF Labels, Items, Hosts
<1>4. Input \in RefT
  BY DEF Input, RefT, RefKinds
<1> QED
  BY <1>1, <1>2, <1>3, <1>4

\* What Append does to the items and to the length.
LEMMA AppendFacts ==
  ASSUME NEW S, NEW s \in Seq(S), NEW x \in S
  PROVE  /\ Append(s, x) \in Seq(S)
         /\ Len(Append(s, x)) = Len(s) + 1
         /\ DOMAIN Append(s, x) = DOMAIN s \cup {Len(s) + 1}
         /\ \A i \in DOMAIN s : i # Len(s) + 1 /\ Append(s, x)[i] = s[i]
         /\ Append(s, x)[Len(s) + 1] = x
  OBVIOUS

-----------------------------------------------------------------------------
(* The loops of virustotal and shodan                                       *)

\* What Loop does with one item.
Offer(a, label, kind) ==
  CASE Full(a, kind) -> [a EXCEPT !.truncated = TRUE]
    [] ~Full(a, kind) /\ Wanted(a, label, kind) -> Propose(a, label, kind)
    [] ~Full(a, kind) /\ ~Wanted(a, label, kind) -> a

\* The entity and the link of a proposal.
Proposed(a, label, kind) == Entity(<<kind.prefix, Len(a.entities)>>, kind.type, label)
Joined(a, kind) ==
  LET ref == <<kind.prefix, Len(a.entities)>>
  IN  IF kind.fromInput THEN Link(Input, ref, kind.rel) ELSE Link(ref, Input, kind.rel)

LEMMA ProposeFacts ==
  ASSUME NEW a \in LoopT, NEW label \in Labels, NEW kind \in KindT
  PROVE  /\ Propose(a, label, kind) \in LoopT
         /\ Propose(a, label, kind).entities = Append(a.entities, Proposed(a, label, kind))
         /\ Propose(a, label, kind).links = Append(a.links, Joined(a, kind))
         /\ Propose(a, label, kind).truncated = a.truncated
         /\ Proposed(a, label, kind) \in EntityT /\ Joined(a, kind) \in LinkT
<1>1. a.entities \in Seq(EntityT) /\ a.links \in Seq(LinkT) /\ Len(a.entities) \in Nat
  BY DEF LoopT
<1>2. <<kind.prefix, Len(a.entities)>> \in RefT
  BY <1>1 DEF KindT, RefT
<1>3. Proposed(a, label, kind) \in EntityT
  BY <1>2 DEF Proposed, Entity, EntityT, KindT
<1>4. Joined(a, kind) \in LinkT
  BY <1>2, Atoms DEF Joined, Link, LinkT, KindT
<1>5. Propose(a, label, kind) =
        [a EXCEPT !.entities = Append(@, Proposed(a, label, kind)),
                  !.links = Append(@, Joined(a, kind))]
  BY DEF Propose, Proposed, Joined
<1>6. Append(a.entities, Proposed(a, label, kind)) \in Seq(EntityT)
  BY <1>1, <1>3, AppendFacts
<1>7. Append(a.links, Joined(a, kind)) \in Seq(LinkT)
  BY <1>1, <1>4, AppendFacts
<1> QED
  BY <1>3, <1>4, <1>5, <1>6, <1>7 DEF LoopT

LEMMA OfferCases ==
  ASSUME NEW a \in LoopT, NEW label \in Labels, NEW kind \in KindT
  PROVE  /\ Offer(a, label, kind) \in LoopT
         /\ Full(a, kind) => Offer(a, label, kind) = [a EXCEPT !.truncated = TRUE]
         /\ ~Full(a, kind) /\ Wanted(a, label, kind)
              => Offer(a, label, kind) = Propose(a, label, kind)
         /\ ~Full(a, kind) /\ ~Wanted(a, label, kind) => Offer(a, label, kind) = a
<1>1. Full(a, kind) \in BOOLEAN /\ Wanted(a, label, kind) \in BOOLEAN
  BY DEF Full, Wanted
<1>2. [a EXCEPT !.truncated = TRUE] \in LoopT
  BY DEF LoopT
<1> QED
  BY <1>1, <1>2, ProposeFacts DEF Offer

\* The loop, item by item.
LEMMA LoopUnfolds ==
  ASSUME NEW acc \in LoopT, NEW labels \in Seq(Labels), NEW kind \in KindT
  PROVE  \E v \in [0..Len(labels) -> LoopT] :
           /\ v[0] = acc
           /\ \A k \in 1..Len(labels) : v[k] = Offer(v[k - 1], labels[k], kind)
           /\ Loop(acc, labels, kind) = v[Len(labels)]
<1> DEFINE n == Len(labels)
           Eq(g) == g = [s \in SUBSET (DOMAIN labels) |->
                           IF s = {} THEN acc
                           ELSE Offer(g[s \ {Max(s)}], labels[Max(s)], kind)]
           it == CHOOSE g : Eq(g)
           step == [x \in LoopT \X (1..n) |-> Offer(x[1], labels[x[2]], kind)]
<1>1. n \in Nat /\ DOMAIN labels = 1..n /\ \A k \in 1..n : labels[k] \in Labels
  OBVIOUS
<1>2. Loops(n, LoopT, acc, step)
  BY <1>1, OfferCases DEF Loops
<1>3. Loop(acc, labels, kind) = it[1..n]
  BY <1>1 DEF Loop, FoldLeft, MapThenFoldSet, Offer
<1> HIDE DEF n
<1>4. \A a \in LoopT, k \in 1..n : step[<<a, k>>] = Offer(a, labels[k], kind)
  OBVIOUS
<1> HIDE DEF step
<1>5. PICK g : Recurs(g, n, LoopT, acc, step)
  BY <1>2, FoldExists
<1>6. \A s \in SUBSET (1..n) : s # {} => Max(s) \in 1..n /\ s \ {Max(s)} \in SUBSET (1..n)
  BY <1>1, MaxOf
<1>7. Eq(g)
  <2>1. \A s \in SUBSET (1..n) : g[s] \in LoopT
    BY <1>5 DEF Recurs
  <2> QED
    BY <1>1, <1>4, <1>5, <1>6, <2>1 DEF Recurs
<1>8. Eq(it)
  <2> HIDE DEF Eq
  <2> QED
    BY <1>7
<1> HIDE DEF it
<1>9. Follows(it, n, LoopT, acc, step)
  BY <1>1, <1>4, <1>6, <1>8 DEF Follows
<1>10. PICK v : Passes(v, n, LoopT, acc, step) /\ it[1..n] = v[n]
  BY <1>2, <1>9, FoldRuns
<1>11. ASSUME NEW k \in 1..n PROVE v[k] = Offer(v[k - 1], labels[k], kind)
  <2>1. v[k - 1] \in LoopT
    BY <1>1, <1>10 DEF Passes
  <2> QED
    BY <1>4, <1>10, <2>1 DEF Passes
<1> QED
  BY <1>3, <1>10, <1>11 DEF Passes, n

\* The names, by type, that a sequence of entities stands for.
Pairs(entities) == {<<entities[i].type, entities[i].label>> : i \in DOMAIN entities}

\* What holds of the accumulator of a loop that proposes entities of kinds.
LoopOK(a) ==
  /\ a \in LoopT
  /\ Len(a.entities) <= MaxEntities
  /\ Len(a.links) = Len(a.entities)
  /\ \A i \in DOMAIN a.entities : a.entities[i].ref[2] = i - 1
  /\ \A i \in DOMAIN a.links :
       LET link == a.links[i]
       IN  \/ link.src = Input /\ link.dst = a.entities[i].ref
           \/ link.dst = Input /\ link.src = a.entities[i].ref

LEMMA ProposeKeepsOK ==
  ASSUME NEW a, NEW label \in Labels, NEW kind \in KindT, LoopOK(a), ~Full(a, kind)
  PROVE  LoopOK(Propose(a, label, kind))
<1> DEFINE b == Propose(a, label, kind)
           x == Proposed(a, label, kind)
           y == Joined(a, kind)
           n == Len(a.entities)
<1>1. /\ b \in LoopT /\ x \in EntityT /\ y \in LinkT
      /\ b.entities = Append(a.entities, x) /\ b.links = Append(a.links, y)
  BY ProposeFacts DEF LoopOK
<1>2. x.ref = <<kind.prefix, n>> /\ x.ref[2] = n
  BY DEF Proposed, Entity
<1>3. \/ y.src = Input /\ y.dst = x.ref
      \/ y.dst = Input /\ y.src = x.ref
  BY <1>2 DEF Joined, Link
<1> HIDE DEF b, x, y, n
<1>4. /\ a.entities \in Seq(EntityT) /\ a.links \in Seq(LinkT)
      /\ Len(a.links) = n /\ n \in Nat /\ n < MaxEntities
      /\ DOMAIN a.entities = 1..n /\ DOMAIN a.links = 1..n
  BY Atoms DEF LoopOK, LoopT, Full, n
<1>5. /\ Len(b.entities) = n + 1 /\ DOMAIN b.entities = 1..(n + 1)
      /\ \A i \in 1..n : b.entities[i] = a.entities[i]
      /\ b.entities[n + 1] = x
  BY <1>1, <1>4 DEF n
<1>6. /\ Len(b.links) = n + 1 /\ DOMAIN b.links = 1..(n + 1)
      /\ \A i \in 1..n : b.links[i] = a.links[i]
      /\ b.links[n + 1] = y
  BY <1>1, <1>4
<1>7. \A i \in 1..(n + 1) : b.entities[i].ref[2] = i - 1
  <2> TAKE i \in 1..(n + 1)
  <2>1. CASE i = n + 1
    BY <1>2, <1>4, <1>5, <2>1
  <2>2. CASE i # n + 1
    <3>1. i \in 1..n
      BY <1>4, <2>2
    <3>2. a.entities[i].ref[2] = i - 1
      BY <1>4, <3>1 DEF LoopOK
    <3> QED
      BY <1>5, <3>1, <3>2
  <2> QED
    BY <2>1, <2>2
<1>8. ASSUME NEW i \in 1..(n + 1)
      PROVE  \/ b.links[i].src = Input /\ b.links[i].dst = b.entities[i].ref
             \/ b.links[i].dst = Input /\ b.links[i].src = b.entities[i].ref
  <2>1. CASE i = n + 1
    BY <1>3, <1>5, <1>6, <2>1
  <2>2. CASE i # n + 1
    <3>1. i \in 1..n
      BY <1>4, <2>2
    <3> QED
      BY <1>4, <1>5, <1>6, <3>1 DEF LoopOK
  <2> QED
    BY <2>1, <2>2
<1>9. n + 1 <= MaxEntities
  BY <1>4, Atoms
<1>10. LoopOK(b)
  BY <1>1, <1>5, <1>6, <1>7, <1>8, <1>9 DEF LoopOK
<1> QED
  BY <1>10 DEF b

\* b has what a had and nothing but new besides, and says so if it lacks any.
Adds(a, b, new, kind) ==
  /\ Pairs(a.entities) \subseteq Pairs(b.entities)
  /\ Pairs(b.entities) \subseteq Pairs(a.entities) \cup new
  /\ a.truncated => b.truncated
  /\ b.truncated \/ new \subseteq Pairs(b.entities)
  /\ kind.once => \A i \in DOMAIN b.entities : b.entities[i].type = kind.type

PairOf(label, kind) == IF label = Junk THEN {} ELSE {<<kind.type, label>>}
PairsOf(labels, kind) == {<<kind.type, l>> : l \in ToSet(labels) \ {Junk}}

\* What one item adds: its pair, unless it is junk or nothing fits any more.
LEMMA OfferPairs ==
  ASSUME NEW a \in LoopT, NEW label \in Labels, NEW kind \in KindT,
         kind.once => \A i \in DOMAIN a.entities : a.entities[i].type = kind.type
  PROVE  Adds(a, Offer(a, label, kind), PairOf(label, kind), kind)
<1> DEFINE b == Offer(a, label, kind)
<1>1. CASE Full(a, kind)
  <2>1. b = [a EXCEPT !.truncated = TRUE]
    BY <1>1, OfferCases
  <2>2. b.entities = a.entities /\ b.truncated
    BY <2>1 DEF LoopT
  <2> HIDE DEF b
  <2>3. Adds(a, b, PairOf(label, kind), kind)
    BY <2>2 DEF Adds
  <2> QED
    BY <2>3 DEF b
<1>2. CASE ~Full(a, kind) /\ Wanted(a, label, kind)
  <2> DEFINE x == Proposed(a, label, kind)
             n == Len(a.entities)
  <2>1. b = Propose(a, label, kind)
    BY <1>2, OfferCases
  <2>2. b.entities = Append(a.entities, x) /\ b.truncated = a.truncated
    BY <2>1, ProposeFacts
  <2>3. x.type = kind.type /\ x.label = label /\ label # Junk /\ x \in EntityT
    BY <1>2, ProposeFacts DEF Proposed, Entity, Wanted
  <2> HIDE DEF x, b
  <2>4. a.entities \in Seq(EntityT)
    BY DEF LoopT
  <2>5. /\ DOMAIN b.entities = DOMAIN a.entities \cup {n + 1}
        /\ \A i \in DOMAIN a.entities : b.entities[i] = a.entities[i]
        /\ b.entities[n + 1] = x
    BY <2>2, <2>3, <2>4, AppendFacts
  <2>6. Pairs(b.entities) = Pairs(a.entities) \cup PairOf(label, kind)
    BY <2>3, <2>5 DEF Pairs, PairOf
  <2>7. Adds(a, b, PairOf(label, kind), kind)
    BY <2>2, <2>3, <2>5, <2>6 DEF Adds
  <2> QED
    BY <2>7 DEF b
<1>3. CASE ~Full(a, kind) /\ ~Wanted(a, label, kind)
  <2>1. b = a
    BY <1>3, OfferCases
  <2>2. PairOf(label, kind) \subseteq Pairs(a.entities)
    <3>1. CASE label = Junk
      BY <3>1 DEF PairOf
    <3>2. CASE label # Junk
      <4>1. PICK i \in DOMAIN a.entities : a.entities[i].label = label
        BY <1>3, <3>2 DEF Wanted
      <4>2. a.entities[i].type = kind.type
        BY <1>3, <3>2 DEF Wanted
      <4> QED
        BY <4>1, <4>2 DEF Pairs, PairOf
    <3> QED
      BY <3>1, <3>2
  <2>3. Adds(a, a, PairOf(label, kind), kind)
    BY <2>2 DEF Adds
  <2> QED
    BY <2>1, <2>3
<1> QED
  BY <1>1, <1>2, <1>3

LEMMA OfferKeepsOK ==
  ASSUME NEW a, NEW label \in Labels, NEW kind \in KindT, LoopOK(a)
  PROVE  LoopOK(Offer(a, label, kind))
<1>1. a \in LoopT
  BY DEF LoopOK
<1>2. CASE Full(a, kind)
  <2>1. LoopOK([a EXCEPT !.truncated = TRUE])
    BY DEF LoopOK, LoopT
  <2> QED
    BY <1>1, <1>2, <2>1, OfferCases
<1>3. CASE ~Full(a, kind) /\ Wanted(a, label, kind)
  BY <1>1, <1>3, OfferCases, ProposeKeepsOK
<1>4. CASE ~Full(a, kind) /\ ~Wanted(a, label, kind)
  BY <1>1, <1>4, OfferCases
<1> QED
  BY <1>2, <1>3, <1>4

\* A loop keeps its invariant, keeps what was proposed before it, proposes the
\* names of its list and nothing else, and says so when it leaves one out.
LEMMA LoopSound ==
  ASSUME NEW acc, NEW labels \in Seq(Labels), NEW kind \in KindT, LoopOK(acc),
         kind.once => \A i \in DOMAIN acc.entities : acc.entities[i].type = kind.type
  PROVE  /\ LoopOK(Loop(acc, labels, kind))
         /\ Adds(acc, Loop(acc, labels, kind), PairsOf(labels, kind), kind)
<1> DEFINE n == Len(labels)
           res == Loop(acc, labels, kind)
           Some(k) == {<<kind.type, labels[j]>> : j \in {i \in 1..k : labels[i] # Junk}}
           Sound(b, new) == LoopOK(b) /\ Adds(acc, b, new, kind)
<1>1. n \in Nat /\ DOMAIN labels = 1..n /\ \A k \in 1..n : labels[k] \in Labels
  OBVIOUS
<1>2. PICK v \in [0..n -> LoopT] :
        /\ v[0] = acc
        /\ \A k \in 1..n : v[k] = Offer(v[k - 1], labels[k], kind)
        /\ res = v[n]
  BY LoopUnfolds DEF LoopOK
<1>3. Sound(v[0], Some(0))
  <2>1. Some(0) = {}
    OBVIOUS
  <2> HIDE DEF Some
  <2> QED
    BY <1>2, <2>1 DEF Adds
<1>4. ASSUME NEW k \in 1..n, Sound(v[k - 1], Some(k - 1))
      PROVE  Sound(v[k], Some(k))
  <2> DEFINE a == v[k - 1]
             b == v[k]
             new == PairOf(labels[k], kind)
  <2>1. k - 1 \in 0..n /\ k \in 0..n /\ labels[k] \in Labels
    BY <1>1
  <2>2. b = Offer(a, labels[k], kind) /\ a \in LoopT
    BY <1>2, <2>1
  <2>3. Some(k) = Some(k - 1) \cup new
    <3>1. {i \in 1..k : labels[i] # Junk} =
            {i \in 1..(k - 1) : labels[i] # Junk} \cup (IF labels[k] = Junk THEN {} ELSE {k})
      BY <1>1
    <3> QED
      BY <3>1 DEF PairOf
  <2> HIDE DEF Some, new, a, b
  <2>4. LoopOK(a) /\ Adds(acc, a, Some(k - 1), kind)
    BY <1>4 DEF a
  <2>5. LoopOK(b)
    BY <2>1, <2>2, <2>4, OfferKeepsOK
  <2>6. kind.once => \A i \in DOMAIN a.entities : a.entities[i].type = kind.type
    BY <2>4 DEF Adds
  <2>7. Adds(a, b, new, kind)
    BY <2>1, <2>2, <2>6, OfferPairs DEF new
  <2>8. Adds(acc, b, Some(k), kind)
    BY <2>3, <2>4, <2>7 DEF Adds
  <2> QED
    BY <2>5, <2>8 DEF b
<1>5. Sound(v[n], Some(n))
  <2> DEFINE S == {k \in 0..n : Sound(v[k], Some(k))}
  <2> HIDE DEF Sound, Some
  <2>1. 0 \in S
    BY <1>1, <1>3
  <2>2. ASSUME NEW k \in 1..n, k - 1 \in S PROVE k \in S
    BY <1>1, <1>4, <2>2
  <2>3. 0..n \subseteq S
    <3> HIDE DEF S, n
    <3> QED
      BY <1>1, <2>1, <2>2, UpTo
  <2> QED
    BY <1>1, <2>3
<1>6. Some(n) = PairsOf(labels, kind)
  BY <1>1 DEF ToSet, PairsOf
<1> HIDE DEF Some
<1> QED
  BY <1>2, <1>5, <1>6

-----------------------------------------------------------------------------
(* crtsh                                                                    *)

SubT == [found : Seq(Names), truncated : BOOLEAN]

\* What ExtractSubdomains does with one line.
Collect(acc, name) ==
  CASE name \notin Names -> acc
    [] name \in Names /\ Len(acc.found) >= MaxSubdomains ->
         [acc EXCEPT !.truncated = TRUE]
    [] name \in Names /\ Len(acc.found) < MaxSubdomains ->
         [acc EXCEPT !.found = IF Contains(@, name) THEN @ ELSE Append(@, name)]

\* What one line adds: its name, if it is one and fits.
LEMMA CollectAdds ==
  ASSUME NEW a \in SubT, NEW name
  PROVE  LET b == Collect(a, name)
         IN  /\ b \in SubT
             /\ ToSet(a.found) \subseteq ToSet(b.found)
             /\ ToSet(b.found) \subseteq ToSet(a.found) \cup ({name} \cap Names)
             /\ a.truncated => b.truncated
             /\ b.truncated \/ {name} \cap Names \subseteq ToSet(b.found)
<1> DEFINE b == Collect(a, name)
<1>0. /\ a.found \in Seq(Names) /\ Len(a.found) \in Nat /\ MaxSubdomains \in Nat
      /\ a.truncated \in BOOLEAN
  BY Atoms DEF SubT
<1>1. CASE name \notin Names
  <2>1. b = a
    BY <1>1 DEF Collect
  <2> QED
    BY <1>1, <2>1
<1>2. CASE name \in Names /\ Len(a.found) >= MaxSubdomains
  <2>1. b = [a EXCEPT !.truncated = TRUE]
    BY <1>0, <1>2 DEF Collect
  <2>2. b.found = a.found /\ b.truncated /\ b \in SubT
    BY <2>1 DEF SubT
  <2> QED
    BY <2>2
<1>3. CASE name \in Names /\ Len(a.found) < MaxSubdomains
  <2>1. b = [a EXCEPT !.found = IF Contains(@, name) THEN @ ELSE Append(@, name)]
    BY <1>0, <1>3 DEF Collect
  <2>2. CASE Contains(a.found, name)
    <3>1. b = a
      BY <2>1, <2>2 DEF SubT
    <3>2. name \in ToSet(a.found)
      BY <1>0, <2>2 DEF Contains, ToSet
    <3> QED
      BY <3>1, <3>2
  <2>3. CASE ~Contains(a.found, name)
    <3>3. b = [a EXCEPT !.found = Append(@, name)]
      BY <2>1, <2>3
    <3>4. Append(a.found, name) \in Seq(Names)
      BY <1>0, <1>3, AppendFacts
    <3> HIDE DEF b
    <3>1. b.found = Append(a.found, name) /\ b.truncated = a.truncated /\ b \in SubT
      BY <1>0, <3>3, <3>4 DEF SubT
    <3>2. ToSet(b.found) = ToSet(a.found) \cup {name}
      BY <1>0, <1>3, <3>1, AppendFacts DEF ToSet
    <3>5. b.truncated \/ {name} \cap Names \subseteq ToSet(b.found)
      BY <3>2
    <3> QED
      BY <1>3, <3>1, <3>2, <3>5 DEF b
  <2> QED
    BY <2>2, <2>3
<1> QED
  BY <1>0, <1>1, <1>2, <1>3

\* The loop, line by line.
LEMMA ExtractUnfolds ==
  ASSUME NEW lines \in Seq(Labels)
  PROVE  \E v \in [0..Len(lines) -> SubT] :
           /\ v[0] = [found |-> <<>>, truncated |-> FALSE]
           /\ \A k \in 1..Len(lines) : v[k] = Collect(v[k - 1], lines[k])
           /\ ExtractSubdomains(lines) = v[Len(lines)]
<1> DEFINE n == Len(lines)
           base == [found |-> <<>>, truncated |-> FALSE]
           Eq(g) == g = [s \in SUBSET (DOMAIN lines) |->
                           IF s = {} THEN base
                           ELSE Collect(g[s \ {Max(s)}], lines[Max(s)])]
           it == CHOOSE g : Eq(g)
           step == [x \in SubT \X (1..n) |-> Collect(x[1], lines[x[2]])]
<1>1. n \in Nat /\ DOMAIN lines = 1..n /\ base \in SubT
  BY DEF SubT
<1>2. Loops(n, SubT, base, step)
  BY <1>1, CollectAdds DEF Loops
<1>3. ExtractSubdomains(lines) = it[1..n]
  BY <1>1 DEF ExtractSubdomains, FoldLeft, MapThenFoldSet, Collect
<1> HIDE DEF n, base
<1>4. \A a \in SubT, k \in 1..n : step[<<a, k>>] = Collect(a, lines[k])
  OBVIOUS
<1> HIDE DEF step
<1>5. PICK g : Recurs(g, n, SubT, base, step)
  BY <1>2, FoldExists
<1>6. \A s \in SUBSET (1..n) : s # {} => Max(s) \in 1..n /\ s \ {Max(s)} \in SUBSET (1..n)
  BY <1>1, MaxOf
<1>7. Eq(g)
  <2>1. \A s \in SUBSET (1..n) : g[s] \in SubT
    BY <1>5 DEF Recurs
  <2> QED
    BY <1>1, <1>4, <1>5, <1>6, <2>1 DEF Recurs
<1>8. Eq(it)
  <2> HIDE DEF Eq
  <2> QED
    BY <1>7
<1> HIDE DEF it
<1>9. Follows(it, n, SubT, base, step)
  BY <1>1, <1>4, <1>6, <1>8 DEF Follows
<1>10. PICK v : Passes(v, n, SubT, base, step) /\ it[1..n] = v[n]
  BY <1>2, <1>9, FoldRuns
<1>11. ASSUME NEW k \in 1..n PROVE v[k] = Collect(v[k - 1], lines[k])
  <2>1. v[k - 1] \in SubT
    BY <1>1, <1>10 DEF Passes
  <2> QED
    BY <1>4, <1>10, <2>1 DEF Passes
<1> QED
  BY <1>3, <1>10, <1>11 DEF Passes, n, base

\* The names of the lines and nothing else, or a mark.
LEMMA ExtractSound ==
  ASSUME NEW lines \in Seq(Labels)
  PROVE  LET sub == ExtractSubdomains(lines)
         IN  /\ sub \in SubT
             /\ ToSet(sub.found) \subseteq ToSet(lines) \cap Names
             /\ sub.truncated \/ ToSet(lines) \cap Names \subseteq ToSet(sub.found)
<1> DEFINE n == Len(lines)
           Some(k) == {lines[j] : j \in 1..k} \cap Names
           Sound(b, new) == /\ ToSet(b.found) \subseteq new
                            /\ b.truncated \/ new \subseteq ToSet(b.found)
<1>1. n \in Nat /\ DOMAIN lines = 1..n
  OBVIOUS
<1>2. PICK v \in [0..n -> SubT] :
        /\ v[0] = [found |-> <<>>, truncated |-> FALSE]
        /\ \A k \in 1..n : v[k] = Collect(v[k - 1], lines[k])
        /\ ExtractSubdomains(lines) = v[n]
  BY ExtractUnfolds
<1>3. Sound(v[0], Some(0))
  BY <1>2 DEF ToSet
<1>4. ASSUME NEW k \in 1..n, Sound(v[k - 1], Some(k - 1))
      PROVE  Sound(v[k], Some(k))
  <2>1. v[k - 1] \in SubT /\ v[k] = Collect(v[k - 1], lines[k])
    BY <1>1, <1>2
  <2>2. Some(k) = Some(k - 1) \cup ({lines[k]} \cap Names)
    BY <1>1
  <2> HIDE DEF Some
  <2> QED
    BY <1>4, <2>1, <2>2, CollectAdds
<1>5. Sound(v[n], Some(n))
  <2> DEFINE S == {k \in 0..n : Sound(v[k], Some(k))}
  <2> HIDE DEF Sound, Some
  <2>1. 0 \in S
    BY <1>1, <1>3
  <2>2. ASSUME NEW k \in 1..n, k - 1 \in S PROVE k \in S
    BY <1>1, <1>4, <2>2
  <2>3. 0..n \subseteq S
    <3> HIDE DEF S, n
    <3> QED
      BY <1>1, <2>1, <2>2, UpTo
  <2> QED
    BY <1>1, <2>3
<1>6. Some(n) = ToSet(lines) \cap Names
  BY <1>1 DEF ToSet
<1>7. v[n] \in SubT
  BY <1>1
<1> HIDE DEF Some
<1> QED
  BY <1>2, <1>5, <1>6, <1>7

-----------------------------------------------------------------------------
(* Keep                                                                     *)

\* The loop of Keep, item by item.
LEMMA KeepUnfolds ==
  ASSUME NEW entities \in Seq(EntityT), NEW unusable
  PROVE  \E v \in [0..Len(entities) -> Seq(EntityT)] :
           /\ v[0] = <<>>
           /\ \A k \in 1..Len(entities) :
                v[k] = IF entities[k].label \in unusable THEN v[k - 1]
                       ELSE Append(v[k - 1], entities[k])
           /\ Keep(entities, unusable) = v[Len(entities)]
<1> DEFINE n == Len(entities)
           A == Seq(EntityT)
           none == <<>>
           Visit(acc, e) == IF e.label \in unusable THEN acc ELSE Append(acc, e)
           Eq(g) == g = [s \in SUBSET (DOMAIN entities) |->
                           IF s = {} THEN none
                           ELSE Visit(g[s \ {Max(s)}], entities[Max(s)])]
           it == CHOOSE g : Eq(g)
           step == [x \in A \X (1..n) |-> Visit(x[1], entities[x[2]])]
<1>1. n \in Nat /\ DOMAIN entities = 1..n /\ none \in A
  OBVIOUS
<1>2. Loops(n, A, none, step)
  BY <1>1 DEF Loops
<1>3. Keep(entities, unusable) = it[1..n]
  BY <1>1 DEF Keep, FoldLeft, MapThenFoldSet
<1> HIDE DEF Visit, n, A, none
<1>4. \A acc \in A, k \in 1..n : step[<<acc, k>>] = Visit(acc, entities[k])
  OBVIOUS
<1> HIDE DEF step
<1>5. PICK g : Recurs(g, n, A, none, step)
  BY <1>2, FoldExists
<1>6. \A s \in SUBSET (1..n) : s # {} => Max(s) \in 1..n /\ s \ {Max(s)} \in SUBSET (1..n)
  BY <1>1, MaxOf
<1>7. Eq(g)
  <2>1. \A s \in SUBSET (1..n) : g[s] \in A
    BY <1>5 DEF Recurs
  <2> QED
    BY <1>1, <1>4, <1>5, <1>6, <2>1 DEF Recurs
<1>8. Eq(it)
  <2> HIDE DEF Eq
  <2> QED
    BY <1>7
<1> HIDE DEF it
<1>9. Follows(it, n, A, none, step)
  BY <1>1, <1>4, <1>6, <1>8 DEF Follows
<1>10. PICK v : Passes(v, n, A, none, step) /\ it[1..n] = v[n]
  BY <1>2, <1>9, FoldRuns
<1>11. ASSUME NEW k \in 1..n PROVE v[k] = Visit(v[k - 1], entities[k])
  <2>1. v[k - 1] \in A
    BY <1>1, <1>10 DEF Passes
  <2> QED
    BY <1>4, <1>10, <2>1 DEF Passes
<1> QED
  BY <1>3, <1>10, <1>11 DEF Passes, Visit, n, A, none

\* No two entities have the same ref.
Distinct(entities) ==
  \A i, j \in DOMAIN entities : entities[i].ref = entities[j].ref => i = j

\* kept is what the loop has taken from the first k entities.
KeptOf(entities, kept, unusable, k) ==
  /\ kept \in Seq(EntityT)
  /\ Len(kept) <= k
  /\ Distinct(kept)
  /\ \A i \in DOMAIN kept :
       \E j \in 1..k : kept[i] = entities[j] /\ entities[j].label \notin unusable
  /\ \A j \in 1..k :
       entities[j].label \notin unusable => \E i \in DOMAIN kept : kept[i] = entities[j]
  /\ (\E j \in 1..k : entities[j].label \in unusable) => Len(kept) < k

LEMMA KeepStep ==
  ASSUME NEW entities \in Seq(EntityT), Distinct(entities), NEW unusable,
         NEW k \in 1..Len(entities), NEW kept, KeptOf(entities, kept, unusable, k - 1)
  PROVE  KeptOf(entities,
                IF entities[k].label \in unusable THEN kept ELSE Append(kept, entities[k]),
                unusable, k)
<1> DEFINE x == entities[k]
           m == Len(kept)
<1>1. /\ kept \in Seq(EntityT) /\ m \in Nat /\ m <= k - 1 /\ DOMAIN kept = 1..m
      /\ k \in Nat /\ x \in EntityT /\ k \in DOMAIN entities
      /\ 1..k = 1..(k - 1) \cup {k} /\ k \notin 1..(k - 1)
      /\ \A j \in 1..k : j \in DOMAIN entities
  BY DEF KeptOf
<1>2. CASE x.label \in unusable
  <2>1. Len(kept) < k
    BY <1>1
  <2> HIDE DEF x, m
  <2>2. KeptOf(entities, kept, unusable, k)
    BY <1>1, <1>2, <2>1 DEF KeptOf, x, m
  <2> QED
    BY <1>2, <2>2 DEF x
<1>3. CASE x.label \notin unusable
  <2> DEFINE new == Append(kept, x)
  <2>1. /\ new \in Seq(EntityT) /\ Len(new) = m + 1 /\ DOMAIN new = DOMAIN kept \cup {m + 1}
        /\ m + 1 \notin DOMAIN kept
        /\ \A i \in DOMAIN kept : new[i] = kept[i]
        /\ new[m + 1] = x
    BY <1>1, AppendFacts
  <2> HIDE DEF new, x, m
  <2>2. \A i \in DOMAIN kept : kept[i].ref # x.ref
    <3> TAKE i \in DOMAIN kept
    <3>1. PICK j \in 1..(k - 1) : kept[i] = entities[j]
      BY DEF KeptOf
    <3>2. j # k /\ j \in DOMAIN entities
      BY <1>1
    <3> QED
      BY <1>1, <3>1, <3>2 DEF Distinct, x
  <2>3. Distinct(new)
    <3>1. \A i, j \in DOMAIN kept : new[i].ref = new[j].ref => i = j
      BY <2>1 DEF KeptOf, Distinct
    <3>2. \A i \in DOMAIN kept : new[i].ref # new[m + 1].ref
      BY <2>1, <2>2
    <3> QED
      BY <2>1, <3>1, <3>2 DEF Distinct
  <2>4. Len(new) <= k
    BY <1>1, <2>1 DEF m
  <2>5. \A i \in DOMAIN new :
          \E j \in 1..k : new[i] = entities[j] /\ entities[j].label \notin unusable
    BY <1>1, <1>3, <2>1 DEF KeptOf, x
  <2>6. \A j \in 1..k :
          entities[j].label \notin unusable => \E i \in DOMAIN new : new[i] = entities[j]
    <3> TAKE j \in 1..k
    <3>1. CASE j = k
      BY <2>1, <3>1 DEF x
    <3>2. CASE j # k
      <4>1. j \in 1..(k - 1)
        BY <1>1, <3>2
      <4> QED
        BY <2>1, <4>1 DEF KeptOf
    <3> QED
      BY <3>1, <3>2
  <2>7. (\E j \in 1..k : entities[j].label \in unusable) => Len(new) < k
    <3> SUFFICES ASSUME NEW j \in 1..k, entities[j].label \in unusable PROVE Len(new) < k
      OBVIOUS
    <3>1. j \in 1..(k - 1)
      BY <1>1, <1>3 DEF x
    <3>2. Len(kept) < k - 1
      BY <3>1 DEF KeptOf
    <3> QED
      BY <1>1, <2>1, <3>2 DEF m
  <2>8. KeptOf(entities, new, unusable, k)
    BY <2>1, <2>3, <2>4, <2>5, <2>6, <2>7 DEF KeptOf
  <2> QED
    BY <1>3, <2>8 DEF x, new
<1> QED
  BY <1>2, <1>3

\* Keep leaves out the unusable ones and nothing else, and is then shorter.
LEMMA KeepSound ==
  ASSUME NEW entities \in Seq(EntityT), Distinct(entities), NEW unusable
  PROVE  /\ Keep(entities, unusable) \in Seq(EntityT)
         /\ Distinct(Keep(entities, unusable))
         /\ Len(Keep(entities, unusable)) <= Len(entities)
         /\ Pairs(Keep(entities, unusable)) = {p \in Pairs(entities) : p[2] \notin unusable}
         /\ \/ Pairs(Keep(entities, unusable)) = Pairs(entities)
            \/ Len(Keep(entities, unusable)) < Len(entities)
<1> DEFINE n == Len(entities)
           res == Keep(entities, unusable)
<1>1. n \in Nat /\ DOMAIN entities = 1..n
  OBVIOUS
<1>2. PICK v \in [0..n -> Seq(EntityT)] :
        /\ v[0] = <<>>
        /\ \A k \in 1..n : v[k] = IF entities[k].label \in unusable THEN v[k - 1]
                                  ELSE Append(v[k - 1], entities[k])
        /\ res = v[n]
  <2> HIDE DEF n, res
  <2>1. \E v \in [0..Len(entities) -> Seq(EntityT)] :
          /\ v[0] = <<>>
          /\ \A k \in 1..Len(entities) :
               v[k] = IF entities[k].label \in unusable THEN v[k - 1]
                      ELSE Append(v[k - 1], entities[k])
          /\ Keep(entities, unusable) = v[Len(entities)]
    BY KeepUnfolds
  <2> QED
    BY <2>1 DEF n, res
<1>3. KeptOf(entities, v[0], unusable, 0)
  BY <1>2 DEF KeptOf, Distinct
<1>4. ASSUME NEW k \in 1..n, KeptOf(entities, v[k - 1], unusable, k - 1)
      PROVE  KeptOf(entities, v[k], unusable, k)
  BY <1>2, <1>4, KeepStep
<1>5. KeptOf(entities, res, unusable, n)
  <2> DEFINE S == {k \in 0..n : KeptOf(entities, v[k], unusable, k)}
  <2>1. 0 \in S
    BY <1>1, <1>3
  <2>2. ASSUME NEW k \in 1..n, k - 1 \in S PROVE k \in S
    BY <1>1, <1>4, <2>2
  <2>3. 0..n \subseteq S
    <3> HIDE DEF S, n
    <3> QED
      BY <1>1, <2>1, <2>2, UpTo
  <2> QED
    BY <1>1, <1>2, <2>3
<1> HIDE DEF n, res
<1>6. Pairs(res) = {p \in Pairs(entities) : p[2] \notin unusable}
  <2>1. ASSUME NEW i \in DOMAIN res
        PROVE  \E j \in DOMAIN entities : res[i] = entities[j] /\ entities[j].label \notin unusable
    BY <1>1, <1>5 DEF KeptOf
  <2>2. ASSUME NEW j \in DOMAIN entities, entities[j].label \notin unusable
        PROVE  \E i \in DOMAIN res : res[i] = entities[j]
    BY <1>1, <1>5, <2>2 DEF KeptOf
  <2> QED
    BY <2>1, <2>2 DEF Pairs
<1>7. Pairs(res) = Pairs(entities) \/ Len(res) < n
  <2>1. CASE \E j \in 1..n : entities[j].label \in unusable
    BY <1>5, <2>1 DEF KeptOf
  <2>2. CASE ~ \E j \in 1..n : entities[j].label \in unusable
    BY <1>1, <1>6, <2>2 DEF Pairs
  <2> QED
    BY <2>1, <2>2
<1> QED
  BY <1>5, <1>6, <1>7 DEF KeptOf, n, res

-----------------------------------------------------------------------------
(* wayback_cdx: the rows collapsed by URL                                   *)

RowT == [ts : Nat, url : Items]
SnapT == [url : Names, first : Nat, last : Nat]

Fresh(row) == [url |-> row.url, first |-> row.ts, last |-> row.ts]

\* A snapshot stretched to the time of a row.
Stretch(snap, row) ==
  [snap EXCEPT !.first = IF row.ts < @ THEN row.ts ELSE @,
               !.last  = IF row.ts > @ THEN row.ts ELSE @]

KnownAt(acc, row) == {i \in DOMAIN acc : acc[i].url = row.url}

\* What CollapseRows does with one row.
Merge(acc, row) ==
  CASE row.url = Junk -> acc
    [] row.url # Junk /\ KnownAt(acc, row) = {} -> Append(acc, Fresh(row))
    [] KnownAt(acc, row) # {} ->
         [i \in DOMAIN acc |-> IF i \notin KnownAt(acc, row) THEN acc[i] ELSE Stretch(acc[i], row)]

LEMMA MergeCases ==
  ASSUME NEW acc \in Seq(SnapT), NEW row \in RowT
  PROVE  /\ row.url = Junk => Merge(acc, row) = acc /\ KnownAt(acc, row) = {}
         /\ row.url # Junk => row.url \in Names
         /\ row.url # Junk /\ KnownAt(acc, row) = {}
              => Merge(acc, row) = Append(acc, Fresh(row)) /\ Fresh(row) \in SnapT
         /\ KnownAt(acc, row) # {}
              => /\ Merge(acc, row) = [i \in DOMAIN acc |-> IF i \notin KnownAt(acc, row) THEN acc[i]
                                                            ELSE Stretch(acc[i], row)]
                 /\ \A i \in DOMAIN acc : Stretch(acc[i], row) \in SnapT
         /\ Merge(acc, row) \in Seq(SnapT)
<1>1. /\ DOMAIN acc = 1..Len(acc) /\ Len(acc) \in Nat
      /\ \A i \in DOMAIN acc : acc[i] \in SnapT
  OBVIOUS
<1>2. row.ts \in Nat /\ row.url \in Items
  BY DEF RowT
<1>3. row.url # Junk => row.url \in Names
  BY <1>2 DEF Items
<1>4. row.url = Junk => KnownAt(acc, row) = {}
  BY <1>1, Atoms DEF KnownAt, SnapT
<1>5. CASE row.url = Junk
  <2>1. Merge(acc, row) = acc
    BY <1>4, <1>5 DEF Merge
  <2> QED
    BY <1>4, <1>5, <2>1
<1>6. CASE row.url # Junk /\ KnownAt(acc, row) = {}
  <2>1. Merge(acc, row) = Append(acc, Fresh(row))
    BY <1>6 DEF Merge
  <2>2. Fresh(row) \in SnapT
    BY <1>2, <1>3, <1>6 DEF Fresh, SnapT
  <2>3. Append(acc, Fresh(row)) \in Seq(SnapT)
    BY <2>2, AppendFacts
  <2> QED
    BY <1>3, <1>6, <2>1, <2>2, <2>3
<1>7. CASE KnownAt(acc, row) # {}
  <2>1. row.url # Junk
    BY <1>4, <1>7
  <2> DEFINE new == [i \in DOMAIN acc |-> IF i \notin KnownAt(acc, row) THEN acc[i]
                                          ELSE Stretch(acc[i], row)]
  <2>2. Merge(acc, row) = new
    BY <1>7, <2>1 DEF Merge
  <2>3. ASSUME NEW s \in SnapT PROVE Stretch(s, row) \in SnapT
    BY <1>2 DEF Stretch, SnapT
  <2>4. \A i \in DOMAIN acc : Stretch(acc[i], row) \in SnapT
    BY <1>1, <2>3
  <2>5. new \in [1..Len(acc) -> SnapT]
    BY <1>1, <2>4
  <2>6. new \in Seq(SnapT)
    BY <1>1, <2>5
  <2> QED
    BY <1>3, <1>7, <2>1, <2>2, <2>4, <2>6
<1> QED
  BY <1>5, <1>6, <1>7

\* The loop, row by row.
LEMMA CollapseUnfolds ==
  ASSUME NEW rows \in Seq(RowT)
  PROVE  \E v \in [0..Len(rows) -> Seq(SnapT)] :
           /\ v[0] = <<>>
           /\ \A k \in 1..Len(rows) : v[k] = Merge(v[k - 1], rows[k])
           /\ CollapseRows(rows) = v[Len(rows)]
<1> DEFINE n == Len(rows)
           A == Seq(SnapT)
           none == <<>>
           Eq(g) == g = [s \in SUBSET (DOMAIN rows) |->
                           IF s = {} THEN none ELSE Merge(g[s \ {Max(s)}], rows[Max(s)])]
           it == CHOOSE g : Eq(g)
           step == [x \in A \X (1..n) |-> Merge(x[1], rows[x[2]])]
<1>1. n \in Nat /\ DOMAIN rows = 1..n /\ none \in A /\ \A k \in 1..n : rows[k] \in RowT
  OBVIOUS
<1>2. Loops(n, A, none, step)
  BY <1>1, MergeCases DEF Loops
<1>3. CollapseRows(rows) = it[1..n]
  BY <1>1 DEF CollapseRows, FoldLeft, MapThenFoldSet, Merge, KnownAt, Fresh, Stretch
<1> HIDE DEF n, A, none
<1>4. \A a \in A, k \in 1..n : step[<<a, k>>] = Merge(a, rows[k])
  OBVIOUS
<1> HIDE DEF step
<1>5. PICK g : Recurs(g, n, A, none, step)
  BY <1>2, FoldExists
<1>6. \A s \in SUBSET (1..n) : s # {} => Max(s) \in 1..n /\ s \ {Max(s)} \in SUBSET (1..n)
  BY <1>1, MaxOf
<1>7. Eq(g)
  <2>1. \A s \in SUBSET (1..n) : g[s] \in A
    BY <1>5 DEF Recurs
  <2> QED
    BY <1>1, <1>4, <1>5, <1>6, <2>1 DEF Recurs
<1>8. Eq(it)
  <2> HIDE DEF Eq
  <2> QED
    BY <1>7
<1> HIDE DEF it
<1>9. Follows(it, n, A, none, step)
  BY <1>1, <1>4, <1>6, <1>8 DEF Follows
<1>10. PICK v : Passes(v, n, A, none, step) /\ it[1..n] = v[n]
  BY <1>2, <1>9, FoldRuns
<1>11. ASSUME NEW k \in 1..n PROVE v[k] = Merge(v[k - 1], rows[k])
  <2>1. v[k - 1] \in A
    BY <1>1, <1>10 DEF Passes
  <2> QED
    BY <1>4, <1>10, <2>1 DEF Passes
<1> QED
  BY <1>3, <1>10, <1>11 DEF Passes, n, A, none

\* snap spans the times of its URL among the first k rows.
Spans(rows, snap, k) ==
  /\ \E j \in 1..k : rows[j].url = snap.url /\ rows[j].ts = snap.first
  /\ \E j \in 1..k : rows[j].url = snap.url /\ rows[j].ts = snap.last
  /\ \A j \in 1..k : rows[j].url = snap.url => snap.first <= rows[j].ts /\ rows[j].ts <= snap.last

\* snaps are the first k rows, collapsed.
Collapsed(rows, snaps, k) ==
  /\ snaps \in Seq(SnapT)
  /\ \A i, j \in DOMAIN snaps : snaps[i].url = snaps[j].url => i = j
  /\ \A j \in 1..k : rows[j].url # Junk => \E i \in DOMAIN snaps : snaps[i].url = rows[j].url
  /\ \A i \in DOMAIN snaps : Spans(rows, snaps[i], k)

LEMMA SpansOn ==
  ASSUME NEW rows \in Seq(RowT), NEW k \in 1..Len(rows), NEW snap \in SnapT,
         Spans(rows, snap, k - 1)
  PROVE  /\ rows[k].url # snap.url => Spans(rows, snap, k)
         /\ rows[k].url = snap.url => Spans(rows, Stretch(snap, rows[k]), k)
         /\ Stretch(snap, rows[k]).url = snap.url
<1>1. /\ 1..k = 1..(k - 1) \cup {k} /\ k \notin 1..(k - 1)
      /\ \A j \in 1..k : rows[j].ts \in Nat
  <2>1. 1..k = 1..(k - 1) \cup {k} /\ k \notin 1..(k - 1)
    OBVIOUS
  <2>2. \A j \in 1..k : rows[j] \in RowT
    OBVIOUS
  <2> QED
    BY <2>1, <2>2 DEF RowT
<1>2. rows[k].url # snap.url => Spans(rows, snap, k)
  BY <1>1 DEF Spans
<1> DEFINE x == Stretch(snap, rows[k])
           t == rows[k].ts
<1>3. /\ x.url = snap.url
      /\ x.first = IF t < snap.first THEN t ELSE snap.first
      /\ x.last = IF t > snap.last THEN t ELSE snap.last
  BY DEF Stretch, SnapT
<1>4. t \in Nat /\ snap.first \in Nat /\ snap.last \in Nat
  BY <1>1 DEF SnapT
<1> HIDE DEF x
<1>5. ASSUME rows[k].url = snap.url PROVE Spans(rows, x, k)
  <2>1. \E j \in 1..k : rows[j].url = x.url /\ rows[j].ts = x.first
    BY <1>1, <1>3, <1>5 DEF Spans
  <2>2. \E j \in 1..k : rows[j].url = x.url /\ rows[j].ts = x.last
    BY <1>1, <1>3, <1>5 DEF Spans
  <2>3. \A j \in 1..k : rows[j].url = x.url => x.first <= rows[j].ts /\ rows[j].ts <= x.last
    <3> SUFFICES ASSUME NEW j \in 1..k, rows[j].url = x.url
                 PROVE  x.first <= rows[j].ts /\ rows[j].ts <= x.last
      OBVIOUS
    <3>1. CASE j = k
      BY <1>3, <1>4, <3>1
    <3>2. CASE j # k
      <4>1. snap.first <= rows[j].ts /\ rows[j].ts <= snap.last
        BY <1>1, <1>3, <3>2 DEF Spans
      <4>2. rows[j].ts \in Nat
        BY <1>1
      <4> QED
        BY <1>3, <1>4, <4>1, <4>2
    <3> QED
      BY <3>1, <3>2
  <2> QED
    BY <2>1, <2>2, <2>3 DEF Spans
<1> QED
  BY <1>2, <1>3, <1>5 DEF x

LEMMA MergeStep ==
  ASSUME NEW rows \in Seq(RowT), NEW k \in 1..Len(rows), NEW snaps, Collapsed(rows, snaps, k - 1)
  PROVE  Collapsed(rows, Merge(snaps, rows[k]), k)
<1> DEFINE row == rows[k]
           new == Merge(snaps, row)
           known == KnownAt(snaps, row)
<1>1. /\ snaps \in Seq(SnapT) /\ DOMAIN snaps = 1..Len(snaps) /\ Len(snaps) \in Nat
      /\ \A i \in DOMAIN snaps : snaps[i] \in SnapT
      /\ row \in RowT
      /\ 1..k = 1..(k - 1) \cup {k}
  BY DEF Collapsed
<1>2. /\ new \in Seq(SnapT)
      /\ row.url = Junk => new = snaps /\ known = {}
      /\ row.url # Junk /\ known = {} => new = Append(snaps, Fresh(row)) /\ Fresh(row) \in SnapT
      /\ known # {} => /\ row.url # Junk
                       /\ new = [i \in DOMAIN snaps |-> IF i \notin known THEN snaps[i]
                                                        ELSE Stretch(snaps[i], row)]
  BY <1>1, MergeCases
<1>3. \A i \in DOMAIN snaps : /\ snaps[i].url # row.url => Spans(rows, snaps[i], k)
                              /\ snaps[i].url = row.url => Spans(rows, Stretch(snaps[i], row), k)
                              /\ Stretch(snaps[i], row).url = snaps[i].url
  <2> TAKE i \in DOMAIN snaps
  <2>1. snaps[i] \in SnapT /\ Spans(rows, snaps[i], k - 1)
    BY <1>1 DEF Collapsed
  <2> QED
    BY <2>1, SpansOn
<1>4. known = {i \in DOMAIN snaps : snaps[i].url = row.url}
  BY DEF KnownAt
<1> HIDE DEF new, known
<1>5. CASE row.url = Junk
  <2>1. new = snaps /\ \A i \in DOMAIN snaps : snaps[i].url # row.url
    BY <1>2, <1>4, <1>5
  <2>2. \A j \in 1..k : rows[j].url # Junk => \E i \in DOMAIN snaps : snaps[i].url = rows[j].url
    BY <1>1, <1>5 DEF Collapsed
  <2>3. \A i, j \in DOMAIN snaps : snaps[i].url = snaps[j].url => i = j
    BY DEF Collapsed
  <2>4. Collapsed(rows, snaps, k)
    BY <1>1, <1>3, <2>1, <2>2, <2>3 DEF Collapsed
  <2> QED
    BY <2>1, <2>4 DEF new
<1>6. CASE row.url # Junk /\ known = {}
  <2> DEFINE x == Fresh(row)
             m == Len(snaps) + 1
  <2>1. /\ DOMAIN new = DOMAIN snaps \cup {m} /\ m \notin DOMAIN snaps
        /\ \A i \in DOMAIN snaps : new[i] = snaps[i]
        /\ new[m] = x
    <3>1. new = Append(snaps, x) /\ x \in SnapT
      BY <1>2, <1>6
    <3> HIDE DEF x
    <3> QED
      BY <1>1, <3>1, AppendFacts
  <2>2. x.url = row.url /\ x.first = row.ts /\ x.last = row.ts
    BY DEF Fresh
  <2>3. row.ts \in Nat
    BY <1>1 DEF RowT
  <2> HIDE DEF x, m
  <2>4. \A i \in DOMAIN snaps : snaps[i].url # row.url
    BY <1>4, <1>6
  <2>5. \A i, j \in DOMAIN new : new[i].url = new[j].url => i = j
    BY <2>1, <2>2, <2>4 DEF Collapsed
  <2>6. \A j \in 1..k : rows[j].url # Junk => \E i \in DOMAIN new : new[i].url = rows[j].url
    BY <1>1, <2>1, <2>2 DEF Collapsed
  <2>7. Spans(rows, x, k)
    <3>1. \A j \in 1..(k - 1) : rows[j].url # row.url
      BY <1>6, <2>4 DEF Collapsed
    <3>2. k \in 1..k /\ row.ts <= row.ts
      BY <2>3
    <3> QED
      BY <1>1, <2>2, <3>1, <3>2 DEF Spans
  <2>8. \A i \in DOMAIN new : Spans(rows, new[i], k)
    BY <1>3, <2>1, <2>4, <2>7
  <2>9. Collapsed(rows, new, k)
    BY <1>2, <2>5, <2>6, <2>8 DEF Collapsed
  <2> QED
    BY <2>9 DEF new
<1>7. CASE known # {}
  <2>1. /\ DOMAIN new = DOMAIN snaps
        /\ \A i \in DOMAIN snaps : /\ i \notin known => new[i] = snaps[i]
                                   /\ i \in known => new[i] = Stretch(snaps[i], row)
    BY <1>2, <1>7
  <2>2. \A i \in DOMAIN snaps : new[i].url = snaps[i].url /\ Spans(rows, new[i], k)
    BY <1>3, <1>4, <2>1
  <2>3. \E i \in DOMAIN snaps : snaps[i].url = row.url
    BY <1>4, <1>7
  <2>4. \A i, j \in DOMAIN new : new[i].url = new[j].url => i = j
    BY <2>1, <2>2 DEF Collapsed
  <2>5. \A j \in 1..k : rows[j].url # Junk => \E i \in DOMAIN new : new[i].url = rows[j].url
    BY <1>1, <2>1, <2>2, <2>3 DEF Collapsed
  <2>6. Collapsed(rows, new, k)
    BY <1>2, <2>1, <2>2, <2>4, <2>5 DEF Collapsed
  <2> QED
    BY <2>6 DEF new
<1> QED
  BY <1>5, <1>6, <1>7

LEMMA CollapseSound ==
  ASSUME NEW rows \in Seq(RowT)
  PROVE  Collapsed(rows, CollapseRows(rows), Len(rows))
<1> DEFINE n == Len(rows)
<1>1. n \in Nat
  OBVIOUS
<1>2. PICK v \in [0..n -> Seq(SnapT)] :
        /\ v[0] = <<>>
        /\ \A k \in 1..n : v[k] = Merge(v[k - 1], rows[k])
        /\ CollapseRows(rows) = v[n]
  BY CollapseUnfolds
<1>3. Collapsed(rows, v[0], 0)
  BY <1>2 DEF Collapsed
<1>4. ASSUME NEW k \in 1..n, Collapsed(rows, v[k - 1], k - 1)
      PROVE  Collapsed(rows, v[k], k)
  BY <1>2, <1>4, MergeStep
<1> DEFINE S == {k \in 0..n : Collapsed(rows, v[k], k)}
<1>5. 0 \in S
  BY <1>1, <1>3
<1>6. ASSUME NEW k \in 1..n, k - 1 \in S PROVE k \in S
  BY <1>1, <1>4, <1>6
<1>7. 0..n \subseteq S
  <2> HIDE DEF S, n
  <2> QED
    BY <1>1, <1>5, <1>6, UpTo
<1> QED
  BY <1>1, <1>2, <1>7

-----------------------------------------------------------------------------
(* wayback_cdx: the stable sort                                             *)

Below(snaps, i) ==
  {j \in DOMAIN snaps : \/ snaps[j].first < snaps[i].first
                        \/ snaps[j].first = snaps[i].first /\ j <= i}

\* Ranks are positions, and no two snapshots have the same.
LEMMA RankFacts ==
  ASSUME NEW snaps \in Seq(SnapT)
  PROVE  /\ \A i \in DOMAIN snaps : Rank(snaps, i) \in DOMAIN snaps
         /\ \A i, j \in DOMAIN snaps :
              snaps[i].first < snaps[j].first => Rank(snaps, i) < Rank(snaps, j)
         /\ \A i, j \in DOMAIN snaps : Rank(snaps, i) = Rank(snaps, j) => i = j
<1> DEFINE n == Len(snaps)
           D == 1..n
<1>1. n \in Nat /\ DOMAIN snaps = D
  OBVIOUS
<1>2. \A i \in D : snaps[i].first \in Nat /\ i \in Nat
  <2>1. \A i \in D : snaps[i] \in SnapT
    OBVIOUS
  <2> QED
    BY <2>1 DEF SnapT
<1>3. IsFiniteSet(D) /\ Cardinality(D) = n
  BY <1>1, FS_Interval
<1> HIDE DEF D, n
<1>4. ASSUME NEW i \in D
      PROVE  /\ Below(snaps, i) \in SUBSET D /\ i \in Below(snaps, i)
             /\ IsFiniteSet(Below(snaps, i))
             /\ Rank(snaps, i) = Cardinality(Below(snaps, i))
             /\ Rank(snaps, i) \in 1..n
  <2>1. Below(snaps, i) \in SUBSET D /\ i \in Below(snaps, i)
    BY <1>1, <1>2 DEF Below
  <2>2. IsFiniteSet(Below(snaps, i)) /\ Cardinality(Below(snaps, i)) <= n
    BY <1>3, <2>1, FS_Subset
  <2>3. Cardinality(Below(snaps, i)) \in Nat /\ Cardinality(Below(snaps, i)) # 0
    BY <2>1, <2>2, FS_CardinalityType, FS_EmptySet
  <2>4. Rank(snaps, i) = Cardinality(Below(snaps, i))
    BY DEF Rank, Below
  <2> QED
    BY <1>1, <2>1, <2>2, <2>3, <2>4
<1>5. ASSUME NEW i \in D, NEW j \in D, i # j,
             snaps[i].first < snaps[j].first \/ (snaps[i].first = snaps[j].first /\ i < j)
      PROVE  Rank(snaps, i) < Rank(snaps, j)
  <2>1. Below(snaps, i) \in SUBSET Below(snaps, j)
    BY <1>1, <1>2, <1>5 DEF Below
  <2>2. j \notin Below(snaps, i)
    BY <1>1, <1>2, <1>5 DEF Below
  <2>3. Below(snaps, i) # Below(snaps, j)
    BY <1>4, <2>2
  <2>4. /\ Cardinality(Below(snaps, i)) <= Cardinality(Below(snaps, j))
        /\ Cardinality(Below(snaps, i)) # Cardinality(Below(snaps, j))
    BY <1>4, <2>1, <2>3, FS_Subset
  <2> QED
    BY <1>1, <1>4, <2>4
<1>6. ASSUME NEW i \in D, NEW j \in D, i # j PROVE Rank(snaps, i) # Rank(snaps, j)
  <2>1. \/ snaps[i].first < snaps[j].first
        \/ snaps[i].first = snaps[j].first /\ i < j
        \/ snaps[j].first < snaps[i].first
        \/ snaps[j].first = snaps[i].first /\ j < i
    BY <1>2, <1>6
  <2>2. Rank(snaps, i) < Rank(snaps, j) \/ Rank(snaps, j) < Rank(snaps, i)
    BY <1>5, <1>6, <2>1
  <2>3. Rank(snaps, i) \in Nat /\ Rank(snaps, j) \in Nat
    BY <1>1, <1>4
  <2> QED
    BY <2>2, <2>3
<1>7. \A i \in D : Rank(snaps, i) \in D
  BY <1>4 DEF D
<1>8. ASSUME NEW i \in D, NEW j \in D, snaps[i].first < snaps[j].first
      PROVE  Rank(snaps, i) < Rank(snaps, j)
  <2>1. i # j
    BY <1>2, <1>8
  <2> QED
    BY <1>5, <1>8, <2>1
<1> QED
  BY <1>1, <1>6, <1>7, <1>8

\* Every position is some snapshot's rank.
LEMMA RankFills ==
  ASSUME NEW snaps \in Seq(SnapT)
  PROVE  \A k \in DOMAIN snaps : \E i \in DOMAIN snaps : Rank(snaps, i) = k
<1> DEFINE D == DOMAIN snaps
           f == [i \in D |-> Rank(snaps, i)]
<1>1. IsFiniteSet(D)
  <2>1. D = 1..Len(snaps) /\ 1 \in Int /\ Len(snaps) \in Int
    OBVIOUS
  <2> HIDE DEF D
  <2> QED
    BY <2>1, FS_Interval
<1>2. f \in [D -> D] /\ \A i, j \in D : f[i] = f[j] => i = j
  BY RankFacts
<1> HIDE DEF D, f
<1>3. f \in Injection(D, D)
  BY <1>2, Fun_IsInj
<1>4. f \in Surjection(D, D)
  BY <1>1, <1>3, FS_Injection
<1>5. \A k \in D : \E i \in D : f[i] = k
  BY <1>4, Fun_SurjectionProperties
<1> QED
  BY <1>5 DEF D, f

\* Sorting keeps the snapshots and orders them.
LEMMA SortSound ==
  ASSUME NEW snaps \in Seq(SnapT)
  PROVE  /\ SortByFirst(snaps) \in Seq(SnapT)
         /\ Len(SortByFirst(snaps)) = Len(snaps)
         /\ \E at \in [DOMAIN snaps -> DOMAIN snaps] :
              /\ \A k \in DOMAIN snaps : SortByFirst(snaps)[k] = snaps[at[k]]
              /\ \A i \in DOMAIN snaps : \E k \in DOMAIN snaps : at[k] = i
              /\ \A k, l \in DOMAIN snaps : at[k] = at[l] => k = l
              /\ \A k, l \in DOMAIN snaps : k < l => snaps[at[k]].first <= snaps[at[l]].first
<1> DEFINE n == Len(snaps)
           D == DOMAIN snaps
           at == [k \in D |-> CHOOSE i \in D : Rank(snaps, i) = k]
           out == SortByFirst(snaps)
<1>1. n \in Nat /\ D = 1..n /\ (\A i \in D : snaps[i] \in SnapT)
  OBVIOUS
<1>2. \A k \in D : at[k] \in D /\ Rank(snaps, at[k]) = k
  <2>1. \A k \in D : \E i \in D : Rank(snaps, i) = k
    BY RankFills
  <2> HIDE DEF D
  <2> QED
    BY <2>1
<1>3. at \in [D -> D]
  BY <1>2
<1>4. out = [k \in D |-> snaps[at[k]]]
  BY DEF SortByFirst
<1> HIDE DEF out, at
<1>5. out \in [1..n -> SnapT]
  BY <1>1, <1>3, <1>4
<1>6. out \in Seq(SnapT) /\ Len(out) = n
  BY <1>1, <1>5
<1>7. ASSUME NEW i \in D PROVE \E k \in D : at[k] = i
  <2>1. Rank(snaps, i) \in D
    BY RankFacts
  <2>2. Rank(snaps, at[Rank(snaps, i)]) = Rank(snaps, i) /\ at[Rank(snaps, i)] \in D
    BY <1>2, <2>1
  <2>3. at[Rank(snaps, i)] = i
    BY <2>2, RankFacts
  <2> QED
    BY <2>1, <2>3
<1>8. \A k, l \in D : at[k] = at[l] => k = l
  BY <1>2
<1>9. ASSUME NEW k \in D, NEW l \in D, k < l
      PROVE  snaps[at[k]].first <= snaps[at[l]].first
  <2>1. at[k] \in D /\ at[l] \in D /\ Rank(snaps, at[k]) = k /\ Rank(snaps, at[l]) = l
    BY <1>2
  <2>2. snaps[at[l]].first < snaps[at[k]].first => l < k
    BY <2>1, RankFacts
  <2>3. snaps[at[l]].first \in Nat /\ snaps[at[k]].first \in Nat
    BY <1>1, <2>1 DEF SnapT
  <2>4. k \in Nat /\ l \in Nat
    BY <1>1
  <2> QED
    BY <1>9, <2>2, <2>3, <2>4
<1>10. \A k \in D : out[k] = snaps[at[k]]
  BY <1>4
<1> HIDE DEF D
<1> QED
  BY <1>3, <1>6, <1>7, <1>8, <1>9, <1>10 DEF D, n, out

\* The property of the snapshots, as a fact about the rows.
LEMMA SnapshotsSound ==
  ASSUME NEW rows \in Seq(RowT)
  PROVE  /\ ExtractSnapshots(rows) \in Seq(SnapT)
         /\ {ExtractSnapshots(rows)[i].url : i \in DOMAIN ExtractSnapshots(rows)}
              = {rows[i].url : i \in DOMAIN rows} \ {Junk}
         /\ \A i \in DOMAIN ExtractSnapshots(rows) :
              Spans(rows, ExtractSnapshots(rows)[i], Len(rows))
         /\ \A i, j \in DOMAIN ExtractSnapshots(rows) :
              i < j => /\ ExtractSnapshots(rows)[i].url # ExtractSnapshots(rows)[j].url
                       /\ ExtractSnapshots(rows)[i].first <= ExtractSnapshots(rows)[j].first
<1> DEFINE snaps == CollapseRows(rows)
           out == ExtractSnapshots(rows)
           n == Len(rows)
           D == DOMAIN snaps
<1>1. /\ Collapsed(rows, snaps, n) /\ snaps \in Seq(SnapT)
      /\ n \in Nat /\ DOMAIN rows = 1..n
  BY CollapseSound DEF Collapsed
<1>2. out = SortByFirst(snaps)
  BY DEF ExtractSnapshots
<1> HIDE DEF snaps, out, n
<1>3. D = 1..Len(snaps) /\ Len(snaps) \in Nat /\ \A i \in D : snaps[i] \in SnapT /\ i \in Nat
  BY <1>1
<1>4. out \in Seq(SnapT) /\ Len(out) = Len(snaps)
  BY <1>1, <1>2, SortSound
<1>5. PICK at \in [D -> D] :
        /\ \A k \in D : out[k] = snaps[at[k]]
        /\ \A i \in D : \E k \in D : at[k] = i
        /\ \A k, l \in D : at[k] = at[l] => k = l
        /\ \A k, l \in D : k < l => snaps[at[k]].first <= snaps[at[l]].first
  BY <1>1, <1>2, SortSound
<1>6. DOMAIN out = D
  BY <1>3, <1>4
<1> HIDE DEF D
<1>7. {out[i].url : i \in D} = {rows[i].url : i \in 1..n} \ {Junk}
  <2>1. \A i \in D : /\ snaps[i].url \in {rows[j].url : j \in 1..n}
                     /\ snaps[i].url # Junk
    <3> TAKE i \in D
    <3>1. Spans(rows, snaps[i], n)
      BY <1>1 DEF Collapsed, D
    <3>2. snaps[i].url # Junk
      BY <1>3, Atoms DEF SnapT
    <3> QED
      BY <3>1, <3>2 DEF Spans
  <2>2. \A j \in 1..n : rows[j].url # Junk => \E i \in D : snaps[i].url = rows[j].url
    BY <1>1 DEF Collapsed, D
  <2>3. {out[i].url : i \in D} = {snaps[i].url : i \in D}
    BY <1>5
  <2>4. {snaps[i].url : i \in D} = {rows[i].url : i \in 1..n} \ {Junk}
    BY <2>1, <2>2
  <2> QED
    BY <2>3, <2>4
<1>8. \A i \in D : Spans(rows, out[i], n)
  BY <1>1, <1>5 DEF Collapsed, D
<1>9. \A i, j \in D : i < j => out[i].url # out[j].url /\ out[i].first <= out[j].first
  <2> SUFFICES ASSUME NEW i \in D, NEW j \in D, i < j
               PROVE  out[i].url # out[j].url /\ out[i].first <= out[j].first
    OBVIOUS
  <2>1. i # j
    BY <1>3
  <2>2. at[i] # at[j] /\ at[i] \in D /\ at[j] \in D
    BY <1>5, <2>1
  <2>3. snaps[at[i]].url # snaps[at[j]].url
    BY <1>1, <2>2 DEF Collapsed, D
  <2> QED
    BY <1>5, <2>3
<1> QED
  BY <1>1, <1>4, <1>6, <1>7, <1>8, <1>9 DEF n, out

-----------------------------------------------------------------------------
(* The parts of a result                                                    *)

RefSet(entities) == {entities[i].ref : i \in DOMAIN entities}

\* Every link joins the input and one of refs.
Joins(links, refs) ==
  \A i \in DOMAIN links : \/ links[i].src = Input /\ links[i].dst \in refs
                          \/ links[i].dst = Input /\ links[i].src \in refs

ResultOK(res) ==
  /\ res.entities \in Seq(EntityT)
  /\ Distinct(res.entities)
  /\ Joins(res.links, RefSet(res.entities))
  /\ Len(res.evidence) \in {0, 1}

\* A result says which of the named pairs it lacks.
Marked(res, named) ==
  /\ Pairs(res.entities) \subseteq named
  /\ named \ Pairs(res.entities) # {} =>
       /\ Len(res.evidence) = 1
       /\ res.evidence[1].truncated \/ res.evidence[1].skipped > 0

\* Distinct refs are as many as the entities.
LEMMA DistinctCount ==
  ASSUME NEW entities \in Seq(EntityT), Distinct(entities)
  PROVE  Cardinality(RefSet(entities)) = Len(entities)
<1> DEFINE D == DOMAIN entities
           f == [i \in D |-> entities[i].ref]
<1>1. D = 1..Len(entities) /\ Len(entities) \in Nat
  OBVIOUS
<1>2. IsFiniteSet(D) /\ Cardinality(D) = Len(entities)
  BY <1>1, FS_Interval
<1>3. f \in [D -> RefSet(entities)]
  BY DEF RefSet
<1>4. \A i, j \in D : f[i] = f[j] => i = j
  BY DEF Distinct
<1>5. \A r \in RefSet(entities) : \E i \in D : f[i] = r
  BY DEF RefSet
<1> HIDE DEF D, f
<1>6. f \in Bijection(D, RefSet(entities))
  BY <1>3, <1>4, <1>5, Fun_IsBij
<1>7. ExistsBijection(D, RefSet(entities))
  BY <1>6, Fun_ExistsBij
<1> QED
  BY <1>2, <1>7, FS_Bijection

LEMMA NumberedFacts ==
  ASSUME NEW prefix \in RefKinds, NEW type \in Types, NEW labels \in Seq(Labels)
  PROVE  /\ Numbered(prefix, type, labels) \in Seq(EntityT)
         /\ Len(Numbered(prefix, type, labels)) = Len(labels)
         /\ Distinct(Numbered(prefix, type, labels))
         /\ RefSet(Numbered(prefix, type, labels)) \subseteq {prefix} \X Nat
         /\ Pairs(Numbered(prefix, type, labels)) = {<<type, l>> : l \in ToSet(labels)}
<1> DEFINE s == Numbered(prefix, type, labels)
           n == Len(labels)
<1>1. n \in Nat /\ DOMAIN labels = 1..n /\ \A i \in 1..n : labels[i] \in Labels
  OBVIOUS
<1>2. s = [i \in 1..n |-> Entity(<<prefix, i - 1>>, type, labels[i])]
  BY <1>1 DEF Numbered
<1>3. \A i \in 1..n : i - 1 \in Nat /\ <<prefix, i - 1>> \in RefT
  BY <1>1 DEF RefT
<1>4. \A i \in 1..n : Entity(<<prefix, i - 1>>, type, labels[i]) \in EntityT
  BY <1>1, <1>3 DEF Entity, EntityT
<1> HIDE DEF n, s
<1>5. s \in [1..n -> EntityT]
  BY <1>2, <1>4
<1>6. s \in Seq(EntityT) /\ Len(s) = n /\ DOMAIN s = 1..n
  BY <1>1, <1>5
<1>7. \A i \in 1..n : /\ s[i].ref = <<prefix, i - 1>> /\ s[i].type = type
                      /\ s[i].label = labels[i]
  BY <1>2 DEF Entity
<1>8. Distinct(s)
  <2> SUFFICES ASSUME NEW i \in 1..n, NEW j \in 1..n, s[i].ref = s[j].ref PROVE i = j
    BY <1>6 DEF Distinct
  <2>1. i - 1 = j - 1
    BY <1>7
  <2> QED
    BY <1>1, <2>1
<1>9. RefSet(s) \subseteq {prefix} \X Nat
  <2>1. \A i \in 1..n : <<prefix, i - 1>> \in {prefix} \X Nat
    BY <1>3
  <2>2. \A i \in 1..n : s[i].ref \in {prefix} \X Nat
    BY <1>7, <2>1
  <2> QED
    BY <1>6, <2>2 DEF RefSet
<1>10. Pairs(s) = {<<type, l>> : l \in ToSet(labels)}
  BY <1>1, <1>6, <1>7 DEF Pairs, ToSet
<1> QED
  BY <1>6, <1>8, <1>9, <1>10 DEF s, n

LEMMA ToInputJoins ==
  ASSUME NEW entities \in Seq(EntityT), NEW rel \in Rels
  PROVE  /\ ToInput(entities, rel) \in Seq(LinkT)
         /\ Joins(ToInput(entities, rel), RefSet(entities))
<1> DEFINE l == ToInput(entities, rel)
<1>1. /\ DOMAIN entities = 1..Len(entities) /\ Len(entities) \in Nat
      /\ \A i \in DOMAIN entities : entities[i] \in EntityT
  OBVIOUS
<1>2. l = [i \in DOMAIN entities |-> Link(entities[i].ref, Input, rel)]
  BY DEF ToInput
<1>3. \A i \in DOMAIN entities : Link(entities[i].ref, Input, rel) \in LinkT
  BY <1>1, Atoms DEF EntityT, Link, LinkT
<1> HIDE DEF l
<1>4. l \in [1..Len(entities) -> LinkT]
  BY <1>1, <1>2, <1>3
<1>5. l \in Seq(LinkT)
  BY <1>1, <1>4
<1>6. Joins(l, RefSet(entities))
  BY <1>2 DEF Joins, RefSet, Link
<1> QED
  BY <1>5, <1>6 DEF l

LEMMA ConcatFacts ==
  ASSUME NEW S, NEW s \in Seq(S), NEW t \in Seq(S)
  PROVE  /\ s \o t \in Seq(S)
         /\ \A i \in DOMAIN s : i \in DOMAIN (s \o t) /\ (s \o t)[i] = s[i]
         /\ \A i \in DOMAIN t : /\ Len(s) + i \in DOMAIN (s \o t)
                                /\ (s \o t)[Len(s) + i] = t[i]
         /\ \A k \in DOMAIN (s \o t) :
              \/ k \in DOMAIN s
              \/ k - Len(s) \in DOMAIN t /\ k = Len(s) + (k - Len(s)) /\ k \notin DOMAIN s
  OBVIOUS

\* One list of entities behind another, with other refs.
LEMMA ConcatEntities ==
  ASSUME NEW e \in Seq(EntityT), NEW f \in Seq(EntityT), Distinct(e), Distinct(f),
         RefSet(e) \cap RefSet(f) = {}
  PROVE  /\ e \o f \in Seq(EntityT)
         /\ Distinct(e \o f)
         /\ RefSet(e \o f) = RefSet(e) \cup RefSet(f)
<1> DEFINE g == e \o f
           n == Len(e)
<1>1. /\ g \in Seq(EntityT)
      /\ \A i \in DOMAIN e : i \in DOMAIN g /\ g[i] = e[i]
      /\ \A i \in DOMAIN f : n + i \in DOMAIN g /\ g[n + i] = f[i]
      /\ \A k \in DOMAIN g : \/ k \in DOMAIN e
                             \/ k - n \in DOMAIN f /\ k = n + (k - n) /\ k \notin DOMAIN e
  BY ConcatFacts
<1>2. n \in Nat /\ DOMAIN g = 1..Len(g)
  BY <1>1
<1> HIDE DEF g, n
<1>3. \A k \in DOMAIN g : /\ k \in DOMAIN e => g[k].ref \in RefSet(e)
                          /\ k \notin DOMAIN e => g[k] = f[k - n] /\ g[k].ref \in RefSet(f)
  <2> TAKE k \in DOMAIN g
  <2>1. CASE k \in DOMAIN e
    BY <1>1, <2>1 DEF RefSet
  <2>2. CASE k \notin DOMAIN e
    <3>1. k - n \in DOMAIN f /\ g[k] = f[k - n]
      BY <1>1, <2>2
    <3> QED
      BY <2>2, <3>1 DEF RefSet
  <2> QED
    BY <2>1, <2>2
<1>4. Distinct(g)
  <2> SUFFICES ASSUME NEW k \in DOMAIN g, NEW l \in DOMAIN g, g[k].ref = g[l].ref PROVE k = l
    BY DEF Distinct
  <2>1. CASE k \in DOMAIN e /\ l \in DOMAIN e
    BY <1>1, <2>1 DEF Distinct
  <2>2. CASE k \notin DOMAIN e /\ l \notin DOMAIN e
    <3>1. k - n \in DOMAIN f /\ l - n \in DOMAIN f /\ k = n + (k - n) /\ l = n + (l - n)
      BY <1>1, <2>2
    <3>2. g[k] = f[k - n] /\ g[l] = f[l - n]
      BY <1>3, <2>2
    <3>3. k - n = l - n
      BY <3>1, <3>2 DEF Distinct
    <3> QED
      BY <3>1, <3>3
  <2>3. CASE (k \in DOMAIN e) # (l \in DOMAIN e)
    BY <1>3, <2>3
  <2> QED
    BY <2>1, <2>2, <2>3
<1>5. RefSet(g) = RefSet(e) \cup RefSet(f)
  <2>1. RefSet(g) \subseteq RefSet(e) \cup RefSet(f)
    <3>1. \A k \in DOMAIN g : g[k].ref \in RefSet(e) \cup RefSet(f)
      BY <1>3
    <3> QED
      BY <3>1 DEF RefSet
  <2>2. \A i \in DOMAIN e : e[i].ref \in RefSet(g)
    BY <1>1 DEF RefSet
  <2>3. \A i \in DOMAIN f : f[i].ref \in RefSet(g)
    BY <1>1 DEF RefSet
  <2> QED
    BY <2>1, <2>2, <2>3 DEF RefSet
<1> QED
  BY <1>1, <1>4, <1>5 DEF g

LEMMA ConcatLinks ==
  ASSUME NEW l \in Seq(LinkT), NEW m \in Seq(LinkT), NEW R, NEW Q,
         Joins(l, R), Joins(m, Q)
  PROVE  Joins(l \o m, R \cup Q)
<1> DEFINE g == l \o m
           n == Len(l)
<1>1. /\ \A i \in DOMAIN l : i \in DOMAIN g /\ g[i] = l[i]
      /\ \A i \in DOMAIN m : n + i \in DOMAIN g /\ g[n + i] = m[i]
      /\ \A k \in DOMAIN g : \/ k \in DOMAIN l
                             \/ k - n \in DOMAIN m /\ k = n + (k - n) /\ k \notin DOMAIN l
  BY ConcatFacts
<1> HIDE DEF g, n
<1>2. ASSUME NEW k \in DOMAIN g
      PROVE  \/ g[k].src = Input /\ g[k].dst \in R \cup Q
             \/ g[k].dst = Input /\ g[k].src \in R \cup Q
  <2>1. CASE k \in DOMAIN l
    <3>1. g[k] = l[k]
      BY <1>1, <2>1
    <3> QED
      BY <2>1, <3>1 DEF Joins
  <2>2. CASE k \notin DOMAIN l
    <3>1. k - n \in DOMAIN m /\ g[k] = m[k - n]
      BY <1>1, <2>2
    <3> QED
      BY <3>1 DEF Joins
  <2> QED
    BY <2>1, <2>2
<1> QED
  BY <1>2 DEF Joins, g

-----------------------------------------------------------------------------
(* The builders of Proposals                                                *)

NamesOf(type, items) == {<<type, x>> : x \in ToSet(items) \cap Names}
HostsOf(items) == {<<"DOMAIN", x>> : x \in ToSet(items) \cap Hosts}

LEMMA EvidenceFacts ==
  ASSUME NEW status, NEW truncated, NEW skipped
  PROVE  /\ Len(Evidence(status, truncated, skipped)) = 1
         /\ Evidence(status, truncated, skipped)[1].status = status
         /\ Evidence(status, truncated, skipped)[1].truncated = truncated
         /\ Evidence(status, truncated, skipped)[1].skipped = skipped
         /\ DOMAIN Evidence(status, truncated, skipped) = {1}
  BY DEF Evidence

LEMMA ResultFacts ==
  ASSUME NEW entities \in Seq(EntityT), Distinct(entities),
         NEW links, Joins(links, RefSet(entities)), NEW evidence, Len(evidence) \in {0, 1}
  PROVE  ResultOK(Result(entities, links, evidence))
  BY DEF ResultOK, Result

LEMMA BareResults ==
  /\ ResultOK(Nothing)
  /\ \A status : ResultOK(EvidenceOnly(status))
  /\ Pairs(Nothing.entities) = {} /\ \A status : Pairs(EvidenceOnly(status).entities) = {}
<1>1. ASSUME NEW evidence, Len(evidence) \in {0, 1}
      PROVE  /\ ResultOK(Result(<<>>, <<>>, evidence))
             /\ Pairs(Result(<<>>, <<>>, evidence).entities) = {}
  BY <1>1 DEF ResultOK, Result, Distinct, Joins, Pairs
<1>2. ResultOK(Nothing) /\ Pairs(Nothing.entities) = {}
  BY <1>1 DEF Nothing
<1>3. ASSUME NEW status
      PROVE  ResultOK(EvidenceOnly(status)) /\ Pairs(EvidenceOnly(status).entities) = {}
  <2> DEFINE ev == Evidence(status, FALSE, 0)
  <2>1. Len(ev) = 1
    BY DEF Evidence
  <2>2. EvidenceOnly(status) = Result(<<>>, <<>>, ev)
    BY DEF EvidenceOnly
  <2> HIDE DEF ev
  <2>3. Len(ev) \in {0, 1}
    BY <2>1
  <2>4. /\ ResultOK(Result(<<>>, <<>>, ev))
        /\ Pairs(Result(<<>>, <<>>, ev).entities) = {}
    BY <1>1, <2>3
  <2> QED
    BY <2>2, <2>4
<1> QED
  BY <1>2, <1>3

LEMMA CrtShSound ==
  ASSUME NEW lines \in Seq(Labels)
  PROVE  ResultOK(CrtSh(lines)) /\ Marked(CrtSh(lines), NamesOf("DOMAIN", lines))
<1> DEFINE sub == ExtractSubdomains(lines)
           es == Numbered("sub", "DOMAIN", sub.found)
           ls == ToInput(es, "SUBDOMAIN_OF")
           ev == Evidence("ok", sub.truncated, 0)
           res == Result(es, ls, ev)
<1>1. CrtSh(lines) = res
  BY DEF CrtSh
<1>2. /\ sub \in SubT /\ sub.found \in Seq(Names)
      /\ ToSet(sub.found) \subseteq ToSet(lines) \cap Names
      /\ sub.truncated \/ ToSet(lines) \cap Names \subseteq ToSet(sub.found)
  BY ExtractSound DEF SubT
<1> HIDE DEF sub
<1>3. sub.found \in Seq(Labels) /\ "sub" \in RefKinds /\ "DOMAIN" \in Types /\ "SUBDOMAIN_OF" \in Rels
  <2>1. sub.found \in Seq(Labels)
    BY <1>2, Atoms
  <2> QED
    BY <2>1 DEF RefKinds, Types, Rels
<1>4. es \in Seq(EntityT) /\ Distinct(es) /\ Pairs(es) = {<<"DOMAIN", l>> : l \in ToSet(sub.found)}
  BY <1>3, NumberedFacts
<1> HIDE DEF es
<1>5. Joins(ls, RefSet(es))
  BY <1>3, <1>4, ToInputJoins
<1>6. Len(ev) = 1 /\ ev[1].truncated = sub.truncated
  BY EvidenceFacts
<1> HIDE DEF ls, ev
<1>7. ResultOK(res)
  BY <1>4, <1>5, <1>6, ResultFacts
<1>8. Marked(res, NamesOf("DOMAIN", lines))
  BY <1>2, <1>4, <1>6 DEF Marked, NamesOf, Result
<1> HIDE DEF res
<1> QED
  BY <1>1, <1>7, <1>8

LEMMA FilterFacts ==
  ASSUME NEW items \in Seq(Labels), NEW accepted, accepted \subseteq Names, NEW kind
  PROVE  /\ Filter(items, accepted) \in Seq(Labels)
         /\ PairsOf(Filter(items, accepted), kind)
              = {<<kind.type, x>> : x \in ToSet(items) \cap accepted}
<1> DEFINE s == Filter(items, accepted)
           n == Len(items)
<1>1. n \in Nat /\ DOMAIN items = 1..n /\ \A i \in 1..n : items[i] \in Labels
  OBVIOUS
<1>2. s = [i \in 1..n |-> IF items[i] \in accepted THEN items[i] ELSE Junk]
  BY <1>1 DEF Filter
<1> HIDE DEF s, n
<1>3. s \in [1..n -> Labels]
  BY <1>1, <1>2, Atoms
<1>4. s \in Seq(Labels) /\ DOMAIN s = 1..n
  BY <1>1, <1>3
<1>5. ToSet(s) \ {Junk} = ToSet(items) \cap accepted
  <2>1. \A i \in 1..n : s[i] = IF items[i] \in accepted THEN items[i] ELSE Junk
    BY <1>2
  <2>2. Junk \notin accepted
    BY Atoms
  <2> QED
    BY <1>1, <1>4, <2>1, <2>2 DEF ToSet
<1> QED
  BY <1>4, <1>5 DEF PairsOf, s

LEMMA NoneYetOK ==
  LoopOK(NoneYet) /\ Pairs(NoneYet.entities) = {} /\ DOMAIN NoneYet.entities = {}
<1>1. /\ NoneYet.entities = <<>> /\ NoneYet.links = <<>>
      /\ NoneYet \in LoopT
  BY DEF NoneYet, LoopT
<1> QED
  BY <1>1, Atoms DEF LoopOK, Pairs

\* A cap, once for all entities, and a relationship with each.
CapOK(res) == Len(res.entities) <= MaxEntities /\ Len(res.links) = Len(res.entities)

LEMMA CappedSound ==
  ASSUME NEW a, LoopOK(a), NEW named, Pairs(a.entities) \subseteq named,
         a.truncated \/ named \subseteq Pairs(a.entities)
  PROVE  ResultOK(Capped(a)) /\ Marked(Capped(a), named) /\ CapOK(Capped(a))
<1> DEFINE ev == Evidence("ok", a.truncated, 0)
<1>1. Capped(a) = Result(a.entities, a.links, ev)
  BY DEF Capped
<1>2. Len(ev) = 1 /\ ev[1].truncated = a.truncated
  BY EvidenceFacts
<1> HIDE DEF ev
<1>3. a.entities \in Seq(EntityT) /\ a.links \in Seq(LinkT) /\ Len(a.links) = Len(a.entities)
  BY DEF LoopOK, LoopT
<1>4. Distinct(a.entities)
  <2> SUFFICES ASSUME NEW i \in DOMAIN a.entities, NEW j \in DOMAIN a.entities,
                      a.entities[i].ref = a.entities[j].ref
               PROVE  i = j
    BY DEF Distinct
  <2>1. i - 1 = j - 1
    BY DEF LoopOK
  <2>2. i \in Nat /\ j \in Nat
    BY <1>3
  <2> QED
    BY <2>1, <2>2
<1>5. Joins(a.links, RefSet(a.entities))
  <2>1. DOMAIN a.links = DOMAIN a.entities
    BY <1>3
  <2>2. \A i \in DOMAIN a.links : a.entities[i].ref \in RefSet(a.entities)
    BY <2>1 DEF RefSet
  <2> QED
    BY <2>2 DEF LoopOK, Joins
<1>6. ResultOK(Result(a.entities, a.links, ev))
  BY <1>2, <1>3, <1>4, <1>5, ResultFacts
<1>7. Marked(Result(a.entities, a.links, ev), named)
  BY <1>2 DEF Marked, Result
<1>8. CapOK(Result(a.entities, a.links, ev))
  BY <1>3 DEF CapOK, Result, LoopOK
<1> QED
  BY <1>1, <1>6, <1>7, <1>8

LEMMA VirusTotalIpSound ==
  ASSUME NEW names \in Seq(Items)
  PROVE  /\ ResultOK(VirusTotalIp(names)) /\ CapOK(VirusTotalIp(names))
         /\ Marked(VirusTotalIp(names), HostsOf(names))
<1> DEFINE kind == Found("domain", "DOMAIN", "RESOLVES_TO", FALSE, FALSE)
           items == Filter(names, Hosts)
           a == Loop(NoneYet, items, kind)
<1>1. VirusTotalIp(names) = Capped(a)
  BY DEF VirusTotalIp
<1>2. kind \in KindT /\ kind.type = "DOMAIN" /\ ~kind.once
  BY DEF Found, KindT, RefKinds, Types, Rels
<1> HIDE DEF kind
<1>3. names \in Seq(Labels) /\ Hosts \subseteq Names
  BY Atoms DEF Labels
<1>4. items \in Seq(Labels) /\ PairsOf(items, kind) = HostsOf(names)
  BY <1>2, <1>3, FilterFacts DEF HostsOf
<1> HIDE DEF items
<1>5. LoopOK(a) /\ Adds(NoneYet, a, PairsOf(items, kind), kind)
  BY <1>2, <1>4, NoneYetOK, LoopSound
<1> HIDE DEF a
<1>6. Pairs(a.entities) \subseteq HostsOf(names) /\ (a.truncated \/ HostsOf(names) \subseteq Pairs(a.entities))
  BY <1>4, <1>5, NoneYetOK DEF Adds
<1> QED
  BY <1>1, <1>5, <1>6, CappedSound

LEMMA ShodanSound ==
  ASSUME NEW answers \in [hostnames : Seq(Items), domains : Seq(Items)]
  PROVE  /\ ResultOK(Shodan(answers)) /\ CapOK(Shodan(answers))
         /\ Marked(Shodan(answers), HostsOf(answers.hostnames \o answers.domains))
<1> DEFINE kind == Found("host", "DOMAIN", "RESOLVES_TO", FALSE, TRUE)
           s == answers.hostnames
           t == answers.domains
           first == Filter(s, Hosts)
           second == Filter(t, Hosts)
           a == Loop(NoneYet, first, kind)
           b == Loop(a, second, kind)
<1>1. Shodan(answers) = Capped(b)
  BY DEF Shodan
<1>2. kind \in KindT /\ kind.type = "DOMAIN" /\ kind.once
  BY DEF Found, KindT, RefKinds, Types, Rels
<1>3. s \in Seq(Items) /\ t \in Seq(Items)
  OBVIOUS
<1> HIDE DEF kind, s, t
<1>4. s \in Seq(Labels) /\ t \in Seq(Labels) /\ Hosts \subseteq Names
  BY <1>3, Atoms DEF Labels
<1>5. /\ first \in Seq(Labels) /\ PairsOf(first, kind) = HostsOf(s)
      /\ second \in Seq(Labels) /\ PairsOf(second, kind) = HostsOf(t)
  BY <1>2, <1>4, FilterFacts DEF HostsOf
<1> HIDE DEF first, second
<1>6. LoopOK(a) /\ Adds(NoneYet, a, HostsOf(s), kind)
  BY <1>2, <1>5, NoneYetOK, LoopSound
<1> HIDE DEF a
<1>7. LoopOK(b) /\ Adds(a, b, HostsOf(t), kind)
  <2>1. kind.once => \A i \in DOMAIN a.entities : a.entities[i].type = kind.type
    BY <1>6 DEF Adds
  <2> QED
    BY <1>2, <1>5, <1>6, <2>1, LoopSound
<1> HIDE DEF b
<1>8. HostsOf(s \o t) = HostsOf(s) \cup HostsOf(t)
  <2>1. ToSet(s \o t) = ToSet(s) \cup ToSet(t)
    <3>1. /\ \A i \in DOMAIN s : i \in DOMAIN (s \o t) /\ (s \o t)[i] = s[i]
          /\ \A i \in DOMAIN t : Len(s) + i \in DOMAIN (s \o t) /\ (s \o t)[Len(s) + i] = t[i]
          /\ \A k \in DOMAIN (s \o t) :
               \/ k \in DOMAIN s
               \/ k - Len(s) \in DOMAIN t /\ k = Len(s) + (k - Len(s)) /\ k \notin DOMAIN s
      BY <1>3, ConcatFacts
    <3>2. \A k \in DOMAIN (s \o t) : (s \o t)[k] \in ToSet(s) \cup ToSet(t)
      <4> TAKE k \in DOMAIN (s \o t)
      <4>1. CASE k \in DOMAIN s
        BY <3>1, <4>1 DEF ToSet
      <4>2. CASE k \notin DOMAIN s
        <5>1. k - Len(s) \in DOMAIN t /\ (s \o t)[k] = t[k - Len(s)]
          BY <3>1, <4>2
        <5> QED
          BY <5>1 DEF ToSet
      <4> QED
        BY <4>1, <4>2
    <3>3. \A i \in DOMAIN s : s[i] \in ToSet(s \o t)
      BY <3>1 DEF ToSet
    <3>4. \A i \in DOMAIN t : t[i] \in ToSet(s \o t)
      BY <3>1 DEF ToSet
    <3> QED
      BY <3>2, <3>3, <3>4 DEF ToSet
  <2> QED
    BY <2>1 DEF HostsOf
<1>9. /\ Pairs(b.entities) \subseteq HostsOf(s \o t)
      /\ b.truncated \/ HostsOf(s \o t) \subseteq Pairs(b.entities)
  BY <1>6, <1>7, <1>8, NoneYetOK DEF Adds
<1>10. ResultOK(Capped(b)) /\ Marked(Capped(b), HostsOf(s \o t)) /\ CapOK(Capped(b))
  BY <1>7, <1>9, CappedSound
<1> QED
  BY <1>1, <1>10 DEF s, t

RecT == [type : STRING, value : Labels]

\* The values of the records of one type, as the loops see them.
ValuesOf(recs, type) ==
  [i \in DOMAIN recs |-> IF recs[i].type = type THEN recs[i].value ELSE Junk]

LEMMA VirusTotalDomainSound ==
  ASSUME NEW recs \in Seq(RecT)
  PROVE  /\ ResultOK(VirusTotalDomain(recs)) /\ CapOK(VirusTotalDomain(recs))
         /\ Marked(VirusTotalDomain(recs),
                   NamesOf("IP_ADDRESS", ValuesOf(recs, "A")) \cup HostsOf(ValuesOf(recs, "CNAME")))
<1> DEFINE s == ValuesOf(recs, "A")
           t == ValuesOf(recs, "CNAME")
           ip == Found("ip", "IP_ADDRESS", "RESOLVES_TO", TRUE, FALSE)
           alias == Found("sub", "DOMAIN", "SUBDOMAIN_OF", FALSE, FALSE)
           first == Filter(s, Names)
           second == Filter(t, Hosts)
           a == Loop(NoneYet, first, ip)
           b == Loop(a, second, alias)
           new == NamesOf("IP_ADDRESS", s) \cup HostsOf(t)
<1>1. VirusTotalDomain(recs) = Capped(b)
  BY DEF VirusTotalDomain, ValuesOf
<1>2. /\ ip \in KindT /\ ip.type = "IP_ADDRESS" /\ ~ip.once
      /\ alias \in KindT /\ alias.type = "DOMAIN" /\ ~alias.once
  BY DEF Found, KindT, RefKinds, Types, Rels
<1>3. ASSUME NEW type PROVE ValuesOf(recs, type) \in Seq(Labels)
  <2>1. DOMAIN recs = 1..Len(recs) /\ Len(recs) \in Nat
    OBVIOUS
  <2>2. \A i \in DOMAIN recs : recs[i] \in RecT
    OBVIOUS
  <2>3. \A i \in DOMAIN recs : recs[i].value \in Labels
    BY <2>2 DEF RecT
  <2>4. ValuesOf(recs, type) \in [1..Len(recs) -> Labels]
    BY <2>1, <2>3, Atoms DEF ValuesOf
  <2> QED
    BY <2>1, <2>4
<1>4. s \in Seq(Labels) /\ t \in Seq(Labels)
  BY <1>3
<1> HIDE DEF ip, alias, s, t
<1>5. /\ first \in Seq(Labels) /\ PairsOf(first, ip) = NamesOf("IP_ADDRESS", s)
      /\ second \in Seq(Labels) /\ PairsOf(second, alias) = HostsOf(t)
  <2>1. Names \subseteq Names /\ Hosts \subseteq Names
    BY Atoms
  <2> QED
    BY <1>2, <1>4, <2>1, FilterFacts DEF HostsOf, NamesOf
<1> HIDE DEF first, second
<1>6. LoopOK(a) /\ Adds(NoneYet, a, NamesOf("IP_ADDRESS", s), ip)
  BY <1>2, <1>5, NoneYetOK, LoopSound
<1> HIDE DEF a
<1>7. LoopOK(b) /\ Adds(a, b, HostsOf(t), alias)
  BY <1>2, <1>5, <1>6, LoopSound
<1> HIDE DEF b
<1>8. Pairs(b.entities) \subseteq new /\ (b.truncated \/ new \subseteq Pairs(b.entities))
  BY <1>6, <1>7, NoneYetOK DEF Adds
<1> HIDE DEF new
<1>9. ResultOK(Capped(b)) /\ Marked(Capped(b), new) /\ CapOK(Capped(b))
  BY <1>7, <1>8, CappedSound
<1> QED
  BY <1>1, <1>9 DEF s, t, new

LEMMA DnsWhoisSound ==
  ASSUME NEW dns \in [a : Seq(Labels), aaaa : Seq(Labels), ns : Seq(Labels), mx : Seq(Labels)],
         NEW rdap
  PROVE  ResultOK(DnsWhois(dns, rdap))
<1> DEFINE a == Numbered("ip-a", "IP_ADDRESS", dns.a)
           b == Numbered("ip-aaaa", "IP_ADDRESS", dns.aaaa)
           c == Numbered("ns", "DOMAIN", dns.ns)
           d == Numbered("mx", "DOMAIN", dns.mx)
           es == a \o b \o c \o d
           ls == ToInput(a \o b, "RESOLVES_TO") \o ToInput(c \o d, "ASSOCIATED_WITH")
           ev == Evidence(rdap, FALSE, 0)
<1>1. DnsWhois(dns, rdap) = Result(es, ls, ev)
  BY DEF DnsWhois
<1>2. /\ a \in Seq(EntityT) /\ Distinct(a) /\ RefSet(a) \subseteq {"ip-a"} \X Nat
      /\ b \in Seq(EntityT) /\ Distinct(b) /\ RefSet(b) \subseteq {"ip-aaaa"} \X Nat
      /\ c \in Seq(EntityT) /\ Distinct(c) /\ RefSet(c) \subseteq {"ns"} \X Nat
      /\ d \in Seq(EntityT) /\ Distinct(d) /\ RefSet(d) \subseteq {"mx"} \X Nat
  <2>1. /\ dns.a \in Seq(Labels) /\ dns.aaaa \in Seq(Labels)
        /\ dns.ns \in Seq(Labels) /\ dns.mx \in Seq(Labels)
    OBVIOUS
  <2>2. /\ "ip-a" \in RefKinds /\ "ip-aaaa" \in RefKinds /\ "ns" \in RefKinds
        /\ "mx" \in RefKinds /\ "IP_ADDRESS" \in Types /\ "DOMAIN" \in Types
    BY DEF RefKinds, Types
  <2> QED
    BY <2>1, <2>2, NumberedFacts
<1> HIDE DEF a, b, c, d
<1>3. Len(ev) \in {0, 1}
  BY DEF Evidence
<1> HIDE DEF ev
<1>4. a \o b \in Seq(EntityT) /\ Distinct(a \o b) /\ RefSet(a \o b) = RefSet(a) \cup RefSet(b)
  <2>1. RefSet(a) \cap RefSet(b) = {}
    BY <1>2
  <2> QED
    BY <1>2, <2>1, ConcatEntities
<1>5. c \o d \in Seq(EntityT) /\ Distinct(c \o d) /\ RefSet(c \o d) = RefSet(c) \cup RefSet(d)
  <2>1. RefSet(c) \cap RefSet(d) = {}
    BY <1>2
  <2> QED
    BY <1>2, <2>1, ConcatEntities
<1>6. /\ a \o b \o c \in Seq(EntityT) /\ Distinct(a \o b \o c)
      /\ RefSet(a \o b \o c) = RefSet(a) \cup RefSet(b) \cup RefSet(c)
  <2> DEFINE e == a \o b
  <2>1. RefSet(e) \cap RefSet(c) = {}
    BY <1>2, <1>4
  <2> HIDE DEF e
  <2>2. e \in Seq(EntityT) /\ Distinct(e) /\ RefSet(e) = RefSet(a) \cup RefSet(b)
    BY <1>4 DEF e
  <2>3. e \o c \in Seq(EntityT) /\ Distinct(e \o c) /\ RefSet(e \o c) = RefSet(e) \cup RefSet(c)
    BY <1>2, <2>1, <2>2, ConcatEntities
  <2> QED
    BY <2>2, <2>3 DEF e
<1>7. /\ es \in Seq(EntityT) /\ Distinct(es)
      /\ RefSet(es) = RefSet(a \o b) \cup RefSet(c \o d)
  <2> DEFINE e == a \o b \o c
  <2>1. RefSet(e) \cap RefSet(d) = {}
    BY <1>2, <1>6
  <2> HIDE DEF e
  <2>2. e \in Seq(EntityT) /\ Distinct(e) /\ RefSet(e) = RefSet(a) \cup RefSet(b) \cup RefSet(c)
    BY <1>6 DEF e
  <2>3. e \o d \in Seq(EntityT) /\ Distinct(e \o d) /\ RefSet(e \o d) = RefSet(e) \cup RefSet(d)
    BY <1>2, <2>1, <2>2, ConcatEntities
  <2>4. es = e \o d
    BY DEF e
  <2> HIDE DEF es
  <2> QED
    BY <1>4, <1>5, <2>2, <2>3, <2>4
<1>8. Joins(ls, RefSet(es))
  <2> DEFINE l == ToInput(a \o b, "RESOLVES_TO")
             m == ToInput(c \o d, "ASSOCIATED_WITH")
  <2>1. "RESOLVES_TO" \in Rels /\ "ASSOCIATED_WITH" \in Rels
    BY DEF Rels
  <2>2. l \in Seq(LinkT) /\ Joins(l, RefSet(a \o b))
    BY <1>4, <2>1, ToInputJoins
  <2>3. m \in Seq(LinkT) /\ Joins(m, RefSet(c \o d))
    BY <1>5, <2>1, ToInputJoins
  <2> HIDE DEF l, m
  <2>4. Joins(l \o m, RefSet(a \o b) \cup RefSet(c \o d))
    BY <2>2, <2>3, ConcatLinks
  <2> HIDE DEF es
  <2> QED
    BY <1>7, <2>4 DEF l, m
<1> HIDE DEF es, ls
<1>9. es \in Seq(EntityT) /\ Distinct(es)
  BY <1>7
<1>10. ResultOK(Result(es, ls, ev))
  BY <1>3, <1>8, <1>9, ResultFacts
<1> QED
  BY <1>1, <1>10

\* The named items of a list, each with the number it has in the list.
LEMMA KeepNamed ==
  ASSUME NEW prefix \in RefKinds, NEW type \in Types, NEW items \in Seq(Items)
  PROVE  /\ Keep(Numbered(prefix, type, items), {Junk}) \in Seq(EntityT)
         /\ Distinct(Keep(Numbered(prefix, type, items), {Junk}))
         /\ Pairs(Keep(Numbered(prefix, type, items), {Junk})) = NamesOf(type, items)
<1> DEFINE all == Numbered(prefix, type, items)
           es == Keep(all, {Junk})
<1>1. items \in Seq(Labels) /\ \A x \in ToSet(items) : x \in Items
  BY DEF Labels, ToSet
<1>2. /\ all \in Seq(EntityT) /\ Distinct(all)
      /\ Pairs(all) = {<<type, l>> : l \in ToSet(items)}
  BY <1>1, NumberedFacts
<1> HIDE DEF all
<1>3. /\ es \in Seq(EntityT) /\ Distinct(es)
      /\ Pairs(es) = {p \in Pairs(all) : p[2] \notin {Junk}}
  BY <1>2, KeepSound
<1> HIDE DEF es
<1>4. Pairs(es) = NamesOf(type, items)
  <2>1. Junk \notin Names /\ \A x \in ToSet(items) : x # Junk => x \in Names
    BY <1>1, Atoms DEF Items
  <2>2. {p \in Pairs(all) : p[2] \notin {Junk}} = {<<type, l>> : l \in ToSet(items) \ {Junk}}
    BY <1>2
  <2>3. ToSet(items) \ {Junk} = ToSet(items) \cap Names
    BY <2>1
  <2> QED
    BY <1>3, <2>2, <2>3 DEF NamesOf
<1> QED
  BY <1>3, <1>4 DEF all, es

LEMMA GithubSound ==
  ASSUME NEW items \in Seq(Items), NEW status
  PROVE  /\ ResultOK(GithubPublic(items, status))
         /\ Marked(GithubPublic(items, status), NamesOf("PERSON", items))
<1> DEFINE es == Keep(Numbered("gh", "PERSON", items), {Junk})
           ls == ToInput(es, "ASSOCIATED_WITH")
           ev == Evidence(status, FALSE, 0)
<1>1. GithubPublic(items, status) = Result(es, ls, ev)
  BY DEF GithubPublic
<1>2. "gh" \in RefKinds /\ "PERSON" \in Types /\ "ASSOCIATED_WITH" \in Rels
  BY DEF RefKinds, Types, Rels
<1>3. es \in Seq(EntityT) /\ Distinct(es) /\ Pairs(es) = NamesOf("PERSON", items)
  BY <1>2, KeepNamed
<1> HIDE DEF es
<1>4. Joins(ls, RefSet(es))
  BY <1>2, <1>3, ToInputJoins
<1>5. Len(ev) \in {0, 1}
  BY DEF Evidence
<1> HIDE DEF ls, ev
<1>6. ResultOK(Result(es, ls, ev))
  BY <1>3, <1>4, <1>5, ResultFacts
<1>7. Marked(Result(es, ls, ev), NamesOf("PERSON", items))
  BY <1>3 DEF Marked, Result
<1> QED
  BY <1>1, <1>6, <1>7

\* A list cut off at a cap.
Cut(s, cap) == IF Len(s) > cap THEN SubSeq(s, 1, cap) ELSE s

LEMMA CutFacts ==
  ASSUME NEW S, NEW s \in Seq(S), NEW cap \in Nat
  PROVE  /\ Cut(s, cap) \in Seq(S)
         /\ \A i \in DOMAIN Cut(s, cap) : i \in DOMAIN s /\ Cut(s, cap)[i] = s[i]
         /\ Len(s) > cap \/ Cut(s, cap) = s
<1>1. CASE Len(s) > cap
  <2>1. /\ SubSeq(s, 1, cap) \in Seq(S)
        /\ DOMAIN SubSeq(s, 1, cap) = 1..cap
        /\ \A i \in 1..cap : i \in DOMAIN s /\ SubSeq(s, 1, cap)[i] = s[i]
    BY <1>1
  <2> QED
    BY <1>1, <2>1 DEF Cut
<1>2. CASE ~(Len(s) > cap)
  BY <1>2 DEF Cut
<1> QED
  BY <1>1, <1>2

LEMMA OpenCorporatesSound ==
  ASSUME NEW companies \in Seq(Items), NEW status
  PROVE  /\ ResultOK(OpenCorporates(companies, status))
         /\ Marked(OpenCorporates(companies, status), NamesOf("ORGANIZATION", companies))
<1> DEFINE cut == Len(companies) > MaxMatches
           kept == Cut(companies, MaxMatches)
           es == Keep(Numbered("co", "ORGANIZATION", kept), {Junk})
           ls == <<>>
           ev == Evidence(status, cut, 0)
<1>1. OpenCorporates(companies, status) = Result(es, ls, ev)
  BY DEF OpenCorporates, Cut
<1>2. "co" \in RefKinds /\ "ORGANIZATION" \in Types
  BY DEF RefKinds, Types
<1>3. /\ kept \in Seq(Items) /\ (cut \/ kept = companies)
      /\ \A i \in DOMAIN kept : i \in DOMAIN companies /\ kept[i] = companies[i]
  BY Atoms, CutFacts
<1> HIDE DEF kept
<1>4. es \in Seq(EntityT) /\ Distinct(es) /\ Pairs(es) = NamesOf("ORGANIZATION", kept)
  BY <1>2, <1>3, KeepNamed
<1> HIDE DEF es
<1>5. Joins(ls, RefSet(es))
  BY DEF Joins
<1>6. Len(ev) \in {0, 1} /\ Len(ev) = 1 /\ ev[1].truncated = cut
  BY DEF Evidence
<1>7. /\ NamesOf("ORGANIZATION", kept) \subseteq NamesOf("ORGANIZATION", companies)
      /\ cut \/ NamesOf("ORGANIZATION", kept) = NamesOf("ORGANIZATION", companies)
  BY <1>3 DEF NamesOf, ToSet
<1> HIDE DEF ls, ev, cut
<1>8. ResultOK(Result(es, ls, ev))
  BY <1>4, <1>5, <1>6, ResultFacts
<1>9. Marked(Result(es, ls, ev), NamesOf("ORGANIZATION", companies))
  BY <1>4, <1>6, <1>7 DEF Marked, Result
<1> QED
  BY <1>1, <1>8, <1>9

UrlsOf(rows) == [i \in DOMAIN rows |-> rows[i].url]

LEMMA WaybackSound ==
  ASSUME NEW rows \in Seq(RowT), NEW status
  PROVE  /\ ResultOK(Wayback(rows, status))
         /\ Marked(Wayback(rows, status), NamesOf("URL", UrlsOf(rows)))
<1> DEFINE snaps == ExtractSnapshots(rows)
           cut == Len(snaps) > MaxSnapshots
           kept == Cut(snaps, MaxSnapshots)
           urls == UrlsOf(kept)
           all == Numbered("snap", "URL", urls)
           es == Keep(all, TooLong)
           ls == ToInput(es, "ASSOCIATED_WITH")
           skipped == Len(all) - Len(es)
           ev == Evidence(status, cut, skipped)
           named == NamesOf("URL", UrlsOf(rows))
<1>1. Wayback(rows, status) = Result(es, ls, ev)
  BY DEF Wayback, Cut, UrlsOf
<1>2. "snap" \in RefKinds /\ "URL" \in Types /\ "ASSOCIATED_WITH" \in Rels
  BY DEF RefKinds, Types, Rels
<1>3. /\ snaps \in Seq(SnapT)
      /\ {snaps[i].url : i \in DOMAIN snaps} = {rows[i].url : i \in DOMAIN rows} \ {Junk}
  BY SnapshotsSound
<1> HIDE DEF snaps
<1>4. /\ kept \in Seq(SnapT) /\ (cut \/ kept = snaps)
      /\ \A i \in DOMAIN kept : i \in DOMAIN snaps /\ kept[i] = snaps[i]
  BY <1>3, Atoms, CutFacts
<1> HIDE DEF kept, cut
<1>5. urls \in Seq(Labels) /\ DOMAIN urls = DOMAIN kept /\ \A i \in DOMAIN kept : urls[i] = kept[i].url
  <2>1. DOMAIN kept = 1..Len(kept) /\ Len(kept) \in Nat /\ \A i \in DOMAIN kept : kept[i] \in SnapT
    BY <1>4
  <2>2. \A i \in DOMAIN kept : kept[i].url \in Labels
    BY <2>1, Atoms DEF SnapT
  <2>3. urls \in [1..Len(kept) -> Labels]
    BY <2>1, <2>2 DEF UrlsOf
  <2>4. urls \in Seq(Labels)
    BY <2>1, <2>3
  <2> QED
    BY <2>4 DEF UrlsOf
<1> HIDE DEF urls
<1>6. /\ all \in Seq(EntityT) /\ Distinct(all)
      /\ Pairs(all) = {<<"URL", l>> : l \in ToSet(urls)}
  BY <1>2, <1>5, NumberedFacts
<1> HIDE DEF all
<1>7. /\ es \in Seq(EntityT) /\ Distinct(es)
      /\ Pairs(es) \subseteq Pairs(all)
      /\ Pairs(es) = Pairs(all) \/ Len(es) < Len(all)
  <2>1. /\ es \in Seq(EntityT) /\ Distinct(es)
        /\ Pairs(es) = {p \in Pairs(all) : p[2] \notin TooLong}
        /\ Pairs(es) = Pairs(all) \/ Len(es) < Len(all)
    BY <1>6, KeepSound
  <2> HIDE DEF es
  <2> QED
    BY <2>1
<1> HIDE DEF es
<1>8. Joins(ls, RefSet(es))
  BY <1>2, <1>7, ToInputJoins
<1>9. Pairs(es) = Pairs(all) \/ skipped > 0
  <2>1. Len(es) \in Nat /\ Len(all) \in Nat
    BY <1>6, <1>7
  <2>2. Len(es) < Len(all) => skipped > 0
    BY <2>1
  <2> QED
    BY <1>7, <2>2
<1> HIDE DEF ls, skipped
<1>10. Len(ev) \in {0, 1} /\ Len(ev) = 1 /\ ev[1].truncated = cut /\ ev[1].skipped = skipped
  BY DEF Evidence
<1> HIDE DEF ev
<1>11. Pairs(all) \subseteq named /\ (cut \/ named = Pairs(all))
  <2>1. ToSet(UrlsOf(rows)) = {rows[i].url : i \in DOMAIN rows}
    BY DEF ToSet, UrlsOf
  <2>2. {snaps[i].url : i \in DOMAIN snaps} = ToSet(UrlsOf(rows)) \cap Names
    <3>1. \A i \in DOMAIN rows : rows[i].url \in Items
      <4>1. \A i \in DOMAIN rows : rows[i] \in RowT
        OBVIOUS
      <4> QED
        BY <4>1 DEF RowT
    <3> QED
      BY <1>3, <2>1, <3>1, Atoms DEF Items
  <2>3. ToSet(urls) = {kept[i].url : i \in DOMAIN kept}
    BY <1>5 DEF ToSet
  <2>4. ToSet(urls) \subseteq ToSet(UrlsOf(rows)) \cap Names
    BY <1>4, <2>2, <2>3
  <2>5. cut \/ ToSet(urls) = ToSet(UrlsOf(rows)) \cap Names
    BY <1>4, <2>2, <2>3
  <2> QED
    BY <1>6, <2>4, <2>5 DEF NamesOf
<1> HIDE DEF named
<1>12. ResultOK(Result(es, ls, ev))
  BY <1>7, <1>8, <1>10, ResultFacts
<1>13. Marked(Result(es, ls, ev), named)
  BY <1>7, <1>9, <1>10, <1>11 DEF Marked, Result
<1> QED
  BY <1>1, <1>12, <1>13 DEF named

-----------------------------------------------------------------------------
(* What query makes of an answer                                            *)

LEMMA BodyTyped ==
  ASSUME NEW q \in Queries, NEW a \in AnswersTo(q)
  PROVE  a.body \in Bodies(q) /\ a.kind \in Kinds(q)
<1>1. NoBody(q) \in Bodies(q)
  <2>1. CASE q = "shodan"
    BY <2>1 DEF NoBody, Bodies
  <2>2. CASE q # "shodan"
    <3>1. NoBody(q) = <<>> /\ \A S : <<>> \in Seq(S)
      BY <2>2 DEF NoBody
    <3>2. \/ Bodies(q) = Seq(Labels) \/ Bodies(q) = Seq(RecT)
          \/ Bodies(q) = Seq(RowT) \/ Bodies(q) = Seq(Items)
      BY <2>2 DEF Bodies, RecT, RowT
    <3> QED
      BY <3>1, <3>2
  <2> QED
    BY <2>1, <2>2
<1>2. Answers(q) \subseteq Bodies(q) /\ "data" \in Kinds(q)
  BY QueriesOK DEF Kinds
<1> QED
  BY <1>1, <1>2 DEF AnswersTo

\* The reference, query by query.
LEMMA NamedCases ==
  ASSUME NEW q \in Queries, NEW a
  PROVE  /\ q = "crtsh" => Named(q, a) = NamesOf("DOMAIN", a.body)
         /\ q = "virustotal_domain" =>
              Named(q, a) = NamesOf("IP_ADDRESS", ValuesOf(a.body, "A"))
                              \cup HostsOf(ValuesOf(a.body, "CNAME"))
         /\ q = "virustotal_ip" => Named(q, a) = HostsOf(a.body)
         /\ q = "shodan" => Named(q, a) = HostsOf(a.body.hostnames \o a.body.domains)
         /\ q = "wayback_cdx" => Named(q, a) = NamesOf("URL", UrlsOf(a.body))
         /\ q \in {"github_user", "github_email"} => Named(q, a) = NamesOf("PERSON", a.body)
         /\ q = "opencorporates" => Named(q, a) = NamesOf("ORGANIZATION", a.body)
         /\ q \in {"hibp", "virustotal_url", "urlhaus", "aleph_occrp", "opensanctions"} =>
              Named(q, a) = {}
  BY DEF Named, NamesOf, HostsOf, ValuesOf, UrlsOf

QuerySoundFor(q, dns, a) ==
  LET res == QueryResult(q, dns, a)
  IN  /\ ResultOK(res)
      /\ q \in {"virustotal_domain", "virustotal_ip", "shodan"} => CapOK(res)
      /\ q # "dns_whois" => Marked(res, Named(q, a))

\* Whatever upstream and the resolver answer, the result is sound.
LEMMA QuerySound ==
  ASSUME NEW q \in Queries, NEW dns \in Resolved(q), NEW a \in AnswersTo(q)
  PROVE  QuerySoundFor(q, dns, a)
<1> DEFINE res == QueryResult(q, dns, a)
           status == Status(q, a.kind)
<1>1. q \in QueryNames /\ a.body \in Bodies(q)
  BY BodyTyped, QueriesOK
<1> HIDE DEF status
<1>2. CASE q = "crtsh"
  <2>1. res = CrtSh(a.body) /\ a.body \in Seq(Labels)
    BY <1>1, <1>2 DEF QueryResult, Bodies
  <2>2. Named(q, a) = NamesOf("DOMAIN", a.body)
    BY <1>2, NamedCases
  <2> QED
    BY <1>2, <2>1, <2>2, CrtShSound DEF QuerySoundFor
<1>3. CASE q = "virustotal_domain"
  <2>1. res = VirusTotalDomain(a.body) /\ a.body \in Seq(RecT)
    BY <1>1, <1>3 DEF QueryResult, Bodies, RecT
  <2>2. Named(q, a) = NamesOf("IP_ADDRESS", ValuesOf(a.body, "A"))
                        \cup HostsOf(ValuesOf(a.body, "CNAME"))
    BY <1>3, NamedCases
  <2> QED
    BY <1>3, <2>1, <2>2, VirusTotalDomainSound DEF QuerySoundFor
<1>4. CASE q = "virustotal_ip"
  <2>1. res = VirusTotalIp(a.body) /\ a.body \in Seq(Items)
    BY <1>1, <1>4 DEF QueryResult, Bodies
  <2>2. Named(q, a) = HostsOf(a.body)
    BY <1>4, NamedCases
  <2> QED
    BY <1>4, <2>1, <2>2, VirusTotalIpSound DEF QuerySoundFor
<1>5. CASE q = "shodan"
  <2>1. res = Shodan(a.body) /\ a.body \in [hostnames : Seq(Items), domains : Seq(Items)]
    BY <1>1, <1>5 DEF QueryResult, Bodies
  <2>2. Named(q, a) = HostsOf(a.body.hostnames \o a.body.domains)
    BY <1>5, NamedCases
  <2> QED
    BY <1>5, <2>1, <2>2, ShodanSound DEF QuerySoundFor
<1>6. CASE q = "dns_whois"
  <2>1. res = DnsWhois(dns, Status(q, a.kind))
    BY <1>6 DEF QueryResult
  <2>2. dns \in [a : Seq(Labels), aaaa : Seq(Labels), ns : Seq(Labels), mx : Seq(Labels)]
    BY <1>6, QueriesOK DEF Resolved
  <2> QED
    BY <1>6, <2>1, <2>2, DnsWhoisSound DEF QuerySoundFor
<1>7. CASE q = "wayback_cdx"
  <2>1. res = Wayback(a.body, Status(q, a.kind)) /\ a.body \in Seq(RowT)
    BY <1>1, <1>7 DEF QueryResult, Bodies, RowT
  <2>2. Named(q, a) = NamesOf("URL", UrlsOf(a.body))
    BY <1>7, NamedCases
  <2> QED
    BY <1>7, <2>1, <2>2, WaybackSound DEF QuerySoundFor
<1>8. CASE q \in {"github_user", "github_email"}
  <2>1. res = GithubPublic(a.body, Status(q, a.kind)) /\ a.body \in Seq(Items)
    BY <1>1, <1>8 DEF QueryResult, Bodies
  <2>2. Named(q, a) = NamesOf("PERSON", a.body)
    BY <1>8, NamedCases
  <2> QED
    BY <1>8, <2>1, <2>2, GithubSound DEF QuerySoundFor
<1>9. CASE q = "opencorporates"
  <2>1. res = OpenCorporates(a.body, Status(q, a.kind)) /\ a.body \in Seq(Items)
    BY <1>1, <1>9 DEF QueryResult, Bodies
  <2>2. Named(q, a) = NamesOf("ORGANIZATION", a.body)
    BY <1>9, NamedCases
  <2> QED
    BY <1>9, <2>1, <2>2, OpenCorporatesSound DEF QuerySoundFor
<1>10. CASE q \in {"hibp", "virustotal_url", "urlhaus", "aleph_occrp", "opensanctions"}
  <2>1. res = Nothing \/ \E s : res = EvidenceOnly(s)
    BY <1>10 DEF QueryResult, VirusTotalUrl
  <2>2. ResultOK(res) /\ Pairs(res.entities) = {}
    BY <2>1, BareResults
  <2>3. Named(q, a) = {}
    BY <1>10, NamedCases
  <2>4. Marked(res, Named(q, a))
    BY <2>2, <2>3 DEF Marked
  <2> HIDE DEF res
  <2>5. q \notin {"virustotal_domain", "virustotal_ip", "shodan"}
    BY <1>10
  <2> QED
    BY <2>2, <2>4, <2>5 DEF QuerySoundFor, res
<1> QED
  BY <1>1, <1>2, <1>3, <1>4, <1>5, <1>6, <1>7, <1>8, <1>9, <1>10 DEF QueryNames

\* A failure that does not leave query has marked the evidence.
LEMMA FailureShows ==
  ASSUME NEW q \in Queries, NEW dns, NEW a \in AnswersTo(q), a.kind \in Failures,
         Fetched(q, a.kind) \/ Swallows(q, a.kind)
  PROVE  LET res == QueryResult(q, dns, a)
         IN  \/ \E i \in DOMAIN res.evidence :
                  res.evidence[i].status \in {"error", "unavailable", "not_found"}
             \/ q = "hibp" /\ a.kind = "404" /\ res = Nothing
<1> DEFINE res == QueryResult(q, dns, a)
           status == Status(q, a.kind)
<1>1. a.kind # "data" /\ a.kind # "garbled"
  BY DEF Failures
<1>2. \/ q = "dns_whois" /\ status = "unavailable"
      \/ q \in {"wayback_cdx", "opencorporates"} /\ status = "error"
      \/ q \in {"github_user", "github_email"} /\ status \in {"error", "not_found"}
      \/ q = "hibp" /\ a.kind = "404"
  <2>1. CASE Fetched(q, a.kind)
    <3>1. a.kind = "404" /\ q \in {"hibp", "dns_whois", "github_user", "github_email"}
      BY <1>1, <2>1 DEF Fetched, NotFound
    <3> QED
      BY <2>1, <3>1 DEF Status
  <2>2. CASE ~Fetched(q, a.kind)
    <3>1. Swallows(q, a.kind)
      BY <2>2
    <3>2. q \in {"dns_whois", "wayback_cdx", "opencorporates", "github_user", "github_email"}
      BY <3>1 DEF Swallows
    <3>3. q = "dns_whois" => status = "unavailable"
      BY <1>1 DEF Status
    <3>4. q # "dns_whois" => status = "error"
      BY <2>2, <3>2 DEF Status
    <3> QED
      BY <3>2, <3>3, <3>4
  <2> QED
    BY <2>1, <2>2
<1> HIDE DEF status
<1>3. CASE q \in {"dns_whois", "wayback_cdx", "opencorporates", "github_user", "github_email"}
  <2>1. \E truncated, skipped : res.evidence = Evidence(status, truncated, skipped)
    <3>1. CASE q = "dns_whois"
      <4>1. res = DnsWhois(dns, status)
        BY <3>1 DEF QueryResult, status
      <4> HIDE DEF res
      <4>2. res.evidence = Evidence(status, FALSE, 0)
        BY <4>1 DEF DnsWhois, Result
      <4> QED
        BY <4>2
    <3>2. CASE q = "wayback_cdx"
      <4>1. res = Wayback(a.body, status)
        BY <3>2 DEF QueryResult, status
      <4> HIDE DEF res
      <4>2. \E truncated, skipped : res.evidence = Evidence(status, truncated, skipped)
        BY <4>1 DEF Wayback, Result
      <4> QED
        BY <4>2
    <3>3. CASE q = "opencorporates"
      <4>1. res = OpenCorporates(a.body, status)
        BY <3>3 DEF QueryResult, status
      <4> HIDE DEF res
      <4>2. res.evidence = Evidence(status, Len(a.body) > MaxMatches, 0)
        BY <4>1 DEF OpenCorporates, Result
      <4> QED
        BY <4>2
    <3>4. CASE q \in {"github_user", "github_email"}
      <4>1. res = GithubPublic(a.body, status)
        BY <3>4 DEF QueryResult, status
      <4> HIDE DEF res
      <4>2. res.evidence = Evidence(status, FALSE, 0)
        BY <4>1 DEF GithubPublic, Result
      <4> QED
        BY <4>2
    <3> QED
      BY <1>3, <3>1, <3>2, <3>3, <3>4
  <2>2. 1 \in DOMAIN res.evidence /\ res.evidence[1].status = status
    BY <2>1, EvidenceFacts
  <2>3. status \in {"error", "unavailable", "not_found"}
    BY <1>2, <1>3
  <2> QED
    BY <2>2, <2>3
<1>4. CASE q = "hibp" /\ a.kind = "404"
  BY <1>4 DEF QueryResult
<1> QED
  BY <1>2, <1>3, <1>4

-----------------------------------------------------------------------------
(* The query                                                                *)

Outcomes == {"fetching", "returned", "persist", "validation_error", "upstream_timeout",
             "upstream_http_error", "upstream_network_error", "unknown", "plugin_internal"}

\* Upstream has answered, and the answer has become the result.
Answered ==
  /\ attempts # 0 /\ answer \in AnswersTo(query)
  /\ Fetched(query, answer.kind) \/ Swallows(query, answer.kind)
  /\ result = QueryResult(query, records, answer)

\* The result is of the last answer, and there is none as long as requests go out.
QueryInv ==
  /\ query \in Queries /\ records \in Resolved(query)
  /\ attempts \in 0..MaxAttempts /\ outcome \in Outcomes
  /\ IF attempts = 0 THEN answer = Unanswered ELSE answer \in AnswersTo(query)
  /\ result = Nothing \/ Answered
  /\ outcome = "fetching" => result = Nothing
  /\ outcome \in {"returned", "persist"} => (answer = Unanswered /\ result = Nothing) \/ Answered

LEMMA InvHolds == Spec => []QueryInv
<1>1. Init => QueryInv
  <2> SUFFICES ASSUME Init PROVE QueryInv
    OBVIOUS
  <2>1. attempts \in 0..MaxAttempts /\ attempts = 0
    BY QueriesOK DEF Init
  <2> QED
    BY <2>1 DEF Init, QueryInv, Outcomes
<1>2. QueryInv /\ [Next]_vars => QueryInv'
  <2> SUFFICES ASSUME QueryInv, [Next]_vars PROVE QueryInv'
    OBVIOUS
  <2>1. CASE SkipQuery
    BY <2>1 DEF QueryInv, SkipQuery, Outcomes, Answered
  <2>2. CASE Request
    <3>1. attempts + 1 \in 0..MaxAttempts /\ attempts + 1 # 0
      BY <2>2, QueriesOK DEF QueryInv, Request
    <3> QED
      BY <2>2, <3>1 DEF QueryInv, Request
  <2>3. CASE Return
    <3>1. /\ attempts # 0 /\ answer \in AnswersTo(query) /\ result = Nothing
          /\ Fetched(query, answer.kind) \/ Swallows(query, answer.kind)
      BY <2>3 DEF QueryInv, Return
    <3>2. CASE result' = QueryResult(query, records, answer) /\ outcome' = "returned"
      BY <2>3, <3>1, <3>2 DEF QueryInv, Return, Outcomes, Answered
    <3>3. CASE outcome' = "validation_error" /\ UNCHANGED result
      BY <2>3, <3>1, <3>3 DEF QueryInv, Return, Outcomes, Answered
    <3> QED
      BY <2>3, <3>2, <3>3 DEF Return
  <2>4. CASE Raise
    <3>1. attempts # 0 /\ answer \in AnswersTo(query) /\ result = Nothing
      BY <2>4 DEF QueryInv, Raise
    <3>2. /\ answer.kind \in Failures /\ answer.kind \notin {"data", "garbled"}
      BY <2>4, <3>1, BodyTyped DEF QueryInv, Raise, Kinds, Fetched
    <3>3. ErrorClass(query, answer.kind) \in
            {"validation_error", "unknown", "upstream_timeout", "upstream_http_error",
             "upstream_network_error"}
      BY <3>2 DEF ErrorClass, Failures, Retryable
    <3> QED
      BY <2>4, <3>1, <3>3 DEF QueryInv, Raise, Outcomes, Answered
  <2>5. CASE CountProposals
    BY <2>5 DEF QueryInv, CountProposals, Outcomes, Answered
  <2>6. CASE UNCHANGED vars
    BY <2>6 DEF QueryInv, vars, Answered
  <2> QED
    BY <2>1, <2>2, <2>3, <2>4, <2>5, <2>6 DEF Next
<1> QED
  BY <1>1, <1>2, PTL DEF Spec

\* The result of a query is Nothing or what the builders make of its answer.
LEMMA ResultSound ==
  ASSUME QueryInv
  PROVE  /\ ResultOK(result)
         /\ query \in {"virustotal_domain", "virustotal_ip", "shodan"} => CapOK(result)
         /\ Answered /\ query # "dns_whois" => Marked(result, Named(query, answer))
<1>1. ASSUME Answered
      PROVE  /\ ResultOK(result)
             /\ query \in {"virustotal_domain", "virustotal_ip", "shodan"} => CapOK(result)
             /\ query # "dns_whois" => Marked(result, Named(query, answer))
  <2>1. query \in Queries /\ records \in Resolved(query) /\ answer \in AnswersTo(query)
    BY <1>1 DEF QueryInv, Answered
  <2>2. QuerySoundFor(query, records, answer)
    BY <2>1, QuerySound
  <2> QED
    BY <1>1, <2>2 DEF Answered, QuerySoundFor
<1>2. ASSUME result = Nothing
      PROVE  /\ ResultOK(result) /\ CapOK(result)
  <2>1. CapOK(Nothing)
    <3>1. Len(Nothing.entities) = 0 /\ Len(Nothing.links) = 0
      BY DEF Nothing, Result
    <3> QED
      BY <3>1, Atoms DEF CapOK
  <2> QED
    BY <1>2, <2>1, BareResults
<1> QED
  BY <1>1, <1>2 DEF QueryInv

\* A query keeps to its attempts, its answers and its outcomes, and its result
\* has at most one evidence row.
THEOREM QueryTyped == Spec => []TypeOK
<1>1. QueryInv => TypeOK
  <2> SUFFICES ASSUME QueryInv PROVE TypeOK
    OBVIOUS
  <2>1. Len(result.evidence) \in {0, 1}
    BY ResultSound DEF ResultOK
  <2>2. Len(result.evidence) <= 1
    <3>1. 0 <= 1 /\ 1 <= 1
      OBVIOUS
    <3>2. \A k \in {0, 1} : k <= 1
      BY <3>1
    <3> QED
      BY <2>1, <3>2
  <2> QED
    BY <2>2 DEF QueryInv, TypeOK, Outcomes
<1> QED
  BY <1>1, InvHolds, PTL

\* For answers of any length, a result's refs are distinct, and each of its
\* relationships joins the input to one of its own entities.
THEOREM RefsAreKnown == Spec => []RefsResolve
<1>1. QueryInv => RefsResolve
  <2> SUFFICES ASSUME QueryInv PROVE RefsResolve
    OBVIOUS
  <2>1. ResultOK(result)
    BY ResultSound
  <2>2. Refs(result) = RefSet(result.entities)
    BY DEF Refs, RefSet
  <2>3. Cardinality(Refs(result)) = Len(result.entities)
    BY <2>1, <2>2, DistinctCount DEF ResultOK
  <2>4. ASSUME NEW i \in DOMAIN result.links
        PROVE  /\ Input \in {result.links[i].src, result.links[i].dst}
               /\ {result.links[i].src, result.links[i].dst} \subseteq Refs(result) \cup {Input}
    BY <2>1, <2>2 DEF ResultOK, Joins
  <2> QED
    BY <2>3, <2>4 DEF RefsResolve
<1> QED
  BY <1>1, InvHolds, PTL

\* The cap of virustotal and shodan holds for all loops of a query together, and
\* no entity is without its relationship.
THEOREM CapIsShared == Spec => []CapSpansLoops
<1>1. QueryInv => CapSpansLoops
  BY ResultSound DEF CapSpansLoops, CapOK
<1> QED
  BY <1>1, InvHolds, PTL

\* A plugin proposes nothing that the answer does not name, and its evidence row
\* says so when it leaves out anything that the answer names.
THEOREM LossShows == Spec => []LossIsMarked
<1>1. QueryInv => LossIsMarked
  <2> SUFFICES ASSUME QueryInv, query # "dns_whois", answer.kind = "data",
                      outcome \in {"returned", "persist"}
               PROVE  Marked(result, Named(query, answer))
    BY DEF LossIsMarked, Marked, Pairs
  <2>1. answer # Unanswered
    BY DEF Unanswered
  <2>2. Answered
    BY <2>1 DEF QueryInv
  <2> QED
    BY <2>2, ResultSound
<1> QED
  BY <1>1, InvHolds, PTL

\* No upstream failure reaches the graph as an empty answer.
THEOREM FailureShowsUp == Spec => []FailureIsVisible
<1>1. QueryInv => FailureIsVisible
  <2> SUFFICES ASSUME QueryInv, outcome = "persist", answer.kind \in Failures
               PROVE  \/ \E i \in DOMAIN result.evidence :
                           result.evidence[i].status \in {"error", "unavailable", "not_found"}
                      \/ query = "hibp" /\ answer.kind = "404" /\ result = Nothing
    BY DEF FailureIsVisible
  <2>1. answer # Unanswered
    BY DEF Unanswered, Failures
  <2>2. Answered /\ query \in Queries
    BY <2>1 DEF QueryInv
  <2> QED
    BY <2>2, FailureShows DEF Answered
<1> QED
  BY <1>1, InvHolds, PTL

\* For rows of any number and order, a snapshot is a URL's first and last time,
\* each URL is there once, and the snapshots ascend.
THEOREM SnapshotsSpan == Spec => []SnapshotsAreRanges
<1>1. QueryInv => SnapshotsAreRanges
  <2> SUFFICES ASSUME QueryInv, query = "wayback_cdx", answer.kind = "data"
               PROVE  SnapshotsAreRanges
    BY DEF SnapshotsAreRanges
  <2> DEFINE rows == answer.body
             out == ExtractSnapshots(rows)
             times(url) == {rows[i].ts : i \in {j \in DOMAIN rows : rows[j].url = url}}
  <2>1. rows \in Seq(RowT)
    <3>1. answer # Unanswered
      BY DEF Unanswered
    <3>2. answer \in AnswersTo(query) /\ query \in Queries
      BY <3>1 DEF QueryInv
    <3>3. answer.body \in Bodies(query)
      BY <3>2, BodyTyped
    <3> QED
      BY <3>3 DEF Bodies, RowT
  <2>2. DOMAIN rows = 1..Len(rows)
    BY <2>1
  <2> HIDE DEF rows
  <2>3. /\ {out[i].url : i \in DOMAIN out} = {rows[i].url : i \in DOMAIN rows} \ {Junk}
        /\ \A i \in DOMAIN out : Spans(rows, out[i], Len(rows))
        /\ \A i, j \in DOMAIN out :
             i < j => out[i].url # out[j].url /\ out[i].first <= out[j].first
    BY <2>1, SnapshotsSound
  <2> HIDE DEF out
  <2>4. ASSUME NEW i \in DOMAIN out
        PROVE  /\ {out[i].first, out[i].last} \subseteq times(out[i].url)
               /\ \A t \in times(out[i].url) : out[i].first <= t /\ t <= out[i].last
    BY <2>2, <2>3 DEF Spans
  <2> QED
    BY <2>3, <2>4 DEF SnapshotsAreRanges, rows, out
<1> QED
  BY <1>1, InvHolds, PTL
=============================================================================
