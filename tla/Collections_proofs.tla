------------------------- MODULE Collections_proofs -------------------------
(***************************************************************************)
(* The list and the dictionary of an OrderedCollection stay in step, and   *)
(* the collection implements the abstract order of objects, for every set  *)
(* of objects and every list a caller passes; and the two collections of a *)
(* SpillContainerPair show a spill and its copy at the same position.  The *)
(* first part is what each operation does to a collection whose list and   *)
(* dictionary are in step.                                                 *)
(***************************************************************************)
EXTENDS OrderedCollection, SpillPair, FiniteSetTheorems, TLAPS

\* A good collection has one slot per member.
LEMMA SlotsDiffer ==
    ASSUME NEW c, IsCollection(c), InStep(c),
           NEW x \in Members(c), NEW y \in Members(c), x # y
    PROVE  c.index[x] # c.index[y]
BY DEF InStep, Members

LEMMA MemberFacts ==
    ASSUME NEW c, IsCollection(c), InStep(c), NEW x \in Members(c)
    PROVE  /\ x \in Objects /\ x # Hole
           /\ c.index[x] \in DOMAIN c.elems
           /\ c.index[x] \in 1 .. Len(c.elems)
           /\ c.index[x] \in Filled(c)
           /\ c.elems[c.index[x]] = x
<1>1. c.index[x] \in DOMAIN c.elems /\ x \in Objects /\ c.elems \in Seq(Objects \cup {Hole})
  BY DEF IsCollection, Members
<1>2. c.elems[c.index[x]] = x
  BY DEF InStep
<1>3. x # Hole
  BY <1>1, HoleAssumption
<1> QED
  BY <1>1, <1>2, <1>3 DEF Filled

\* Iteration shows the members in the order of their slots.
LEMMA ViewIsMembers ==
    ASSUME NEW c, IsCollection(c), InStep(c)
    PROVE  /\ Iterated(c) = Members(c)
           /\ Values(c) = Members(c)
           /\ Precedence(c) = {p \in Members(c) \X Members(c) :
                                  c.index[p[1]] < c.index[p[2]]}
<1>1. Iterated(c) = Members(c)
  BY DEF Iterated, InStep
<1>2. Values(c) = Members(c)
  BY MemberFacts DEF Values, InStep
<1>3. Precedence(c) = {p \in Members(c) \X Members(c) :
                          c.index[p[1]] < c.index[p[2]]}
  <2> DEFINE Q == {q \in Members(c) \X Members(c) : c.index[q[1]] < c.index[q[2]]}
  <2>1. \A q \in Q : <<c.elems[c.index[q[1]]], c.elems[c.index[q[2]]]>> = q
    BY DEF InStep
  <2>2. {<<c.elems[c.index[q[1]]], c.elems[c.index[q[2]]]>> : q \in Q} = Q
    BY <2>1
  <2> QED
    BY <2>2 DEF Precedence
<1> QED
  BY <1>1, <1>2, <1>3

LEMMA AddedInStep ==
    ASSUME NEW c, IsCollection(c), InStep(c),
           NEW e \in Objects, e \notin Members(c)
    PROVE  /\ IsCollection(Added(c, e)) /\ InStep(Added(c, e))
           /\ Members(Added(c, e)) = Members(c) \cup {e}
           /\ \A x \in Members(c) : Added(c, e).index[x] = c.index[x]
           /\ \A x \in Members(c) : Added(c, e).index[x] < Added(c, e).index[e]
<1> DEFINE L == c.elems
           n == Len(L)
           d == Added(c, e)
<1>1. L \in Seq(Objects \cup {Hole}) /\ n \in Nat /\ DOMAIN L = 1 .. n
  BY DEF IsCollection
<1>2. d.elems = Append(L, e) /\ Members(d) = Members(c) \cup {e}
      /\ d.index = [x \in Members(c) \cup {e} |-> IF x = e THEN n + 1 ELSE c.index[x]]
      /\ d = [elems |-> d.elems, index |-> d.index]
  BY DEF Added, Members
<1>3. /\ DOMAIN d.elems = 1 .. n + 1
      /\ d.elems \in Seq(Objects \cup {Hole})
      /\ d.elems[n + 1] = e
      /\ \A s \in 1 .. n : d.elems[s] = L[s]
  BY <1>1, <1>2
<1>4. \A x \in Members(c) : c.index[x] \in 1 .. n /\ L[c.index[x]] = x /\ x \in Objects
  BY MemberFacts
<1>5. \A x \in Members(c) : d.index[x] = c.index[x] /\ d.index[x] < d.index[e]
  BY <1>1, <1>2, <1>4
<1>6. IsCollection(d)
  BY <1>1, <1>2, <1>3, <1>4 DEF IsCollection, Members
<1>7. \A x \in Members(d) : d.elems[d.index[x]] = x
  BY <1>1, <1>2, <1>3, <1>4
<1>8. \A s \in Filled(d) : d.elems[s] \in Members(d) /\ d.index[d.elems[s]] = s
  <2> SUFFICES ASSUME NEW s \in Filled(d)
               PROVE  d.elems[s] \in Members(d) /\ d.index[d.elems[s]] = s
    OBVIOUS
  <2>1. CASE s = n + 1
    BY <2>1, <1>2, <1>3
  <2>2. CASE s # n + 1
    <3>1. s \in 1 .. n /\ L[s] # Hole
      BY <2>2, <1>1, <1>3 DEF Filled
    <3>2. s \in Filled(c)
      BY <3>1, <1>1 DEF Filled
    <3>3. L[s] \in Members(c) /\ c.index[L[s]] = s
      BY <3>2 DEF InStep
    <3> QED
      BY <3>1, <3>3, <1>2, <1>3, <1>5
  <2> QED
    BY <2>1, <2>2
<1> HIDE DEF d
<1> QED
  BY <1>2, <1>5, <1>6, <1>7, <1>8 DEF InStep, d

LEMMA RemovedInStep ==
    ASSUME NEW c, IsCollection(c), InStep(c), NEW e \in Members(c)
    PROVE  /\ IsCollection(Removed(c, e)) /\ InStep(Removed(c, e))
           /\ Members(Removed(c, e)) = Members(c) \ {e}
           /\ \A x \in Members(c) \ {e} : Removed(c, e).index[x] = c.index[x]
<1> DEFINE d == Removed(c, e)
           L == c.elems
<1>1. L \in Seq(Objects \cup {Hole}) /\ DOMAIN L = 1 .. Len(L)
  BY DEF IsCollection
<1>2. /\ d.elems = [L EXCEPT ![c.index[e]] = Hole]
      /\ d.index = [x \in Members(c) \ {e} |-> c.index[x]]
      /\ Members(d) = Members(c) \ {e}
      /\ d = [elems |-> d.elems, index |-> d.index]
  BY DEF Removed, Members
<1>3. /\ DOMAIN d.elems = DOMAIN L
      /\ d.elems \in Seq(Objects \cup {Hole})
      /\ d.elems[c.index[e]] = Hole
      /\ \A s \in DOMAIN L : s # c.index[e] => d.elems[s] = L[s]
  BY <1>1, <1>2, MemberFacts
<1>4. \A x \in Members(c) : c.index[x] \in DOMAIN L /\ L[c.index[x]] = x /\ x \in Objects
  BY MemberFacts
<1>5. IsCollection(d)
  BY <1>2, <1>3, <1>4 DEF IsCollection, Members
<1>6. \A x \in Members(d) : d.elems[d.index[x]] = x
  BY <1>2, <1>3, <1>4
<1>7. \A s \in Filled(d) : d.elems[s] \in Members(d) /\ d.index[d.elems[s]] = s
  <2> SUFFICES ASSUME NEW s \in Filled(d)
               PROVE  d.elems[s] \in Members(d) /\ d.index[d.elems[s]] = s
    OBVIOUS
  <2>1. s \in DOMAIN L /\ s # c.index[e] /\ d.elems[s] = L[s] /\ L[s] # Hole
    BY <1>3 DEF Filled
  <2>2. L[s] \in Members(c) /\ c.index[L[s]] = s
    BY <2>1 DEF InStep, Filled
  <2> QED
    BY <2>1, <2>2, <1>2
<1> HIDE DEF d
<1> QED
  BY <1>2, <1>5, <1>6, <1>7 DEF InStep, d

LEMMA ReplacedInStep ==
    ASSUME NEW c, IsCollection(c), InStep(c), NEW old \in Members(c),
           NEW new \in Objects, new \notin Members(c) \ {old}
    PROVE  LET d == Replaced(c, old, c.index[old], new)
           IN  /\ IsCollection(d) /\ InStep(d)
               /\ Members(d) = (Members(c) \ {old}) \cup {new}
               /\ \A x \in Members(c) \ {old} : d.index[x] = c.index[x]
               /\ d.index[new] = c.index[old]
<1> DEFINE t == c.index[old]
           d == Replaced(c, old, t, new)
           L == c.elems
<1>1. L \in Seq(Objects \cup {Hole}) /\ DOMAIN L = 1 .. Len(L)
  BY DEF IsCollection
<1>2. /\ d.elems = [L EXCEPT ![t] = new]
      /\ d.index = [x \in (Members(c) \ {old}) \cup {new} |->
                       IF x = new THEN t ELSE c.index[x]]
      /\ Members(d) = (Members(c) \ {old}) \cup {new}
      /\ d = [elems |-> d.elems, index |-> d.index]
  BY DEF Replaced, Members
<1>3. /\ DOMAIN d.elems = DOMAIN L
      /\ d.elems \in Seq(Objects \cup {Hole})
      /\ t \in DOMAIN L
      /\ d.elems[t] = new
      /\ \A s \in DOMAIN L : s # t => d.elems[s] = L[s]
  BY <1>1, <1>2, MemberFacts
<1>4. \A x \in Members(c) : c.index[x] \in DOMAIN L /\ L[c.index[x]] = x /\ x \in Objects
  BY MemberFacts
<1>5. /\ \A x \in Members(c) \ {old} : d.index[x] = c.index[x] /\ c.index[x] # t
      /\ d.index[new] = t
  BY <1>2, SlotsDiffer
<1>6. IsCollection(d)
  BY <1>2, <1>3, <1>4, <1>5 DEF IsCollection, Members
<1>7. \A x \in Members(d) : d.elems[d.index[x]] = x
  BY <1>2, <1>3, <1>4, <1>5
<1>8. \A s \in Filled(d) : d.elems[s] \in Members(d) /\ d.index[d.elems[s]] = s
  <2> SUFFICES ASSUME NEW s \in Filled(d)
               PROVE  d.elems[s] \in Members(d) /\ d.index[d.elems[s]] = s
    OBVIOUS
  <2>1. CASE s = t
    BY <2>1, <1>2, <1>3, <1>5
  <2>2. CASE s # t
    <3>1. s \in DOMAIN L /\ d.elems[s] = L[s] /\ L[s] # Hole
      BY <2>2, <1>3 DEF Filled
    <3>2. L[s] \in Members(c) /\ c.index[L[s]] = s
      BY <3>1 DEF InStep, Filled
    <3> QED
      BY <2>2, <3>1, <3>2, <1>2, <1>5
  <2> QED
    BY <2>1, <2>2
<1> HIDE DEF d
<1> QED
  BY <1>2, <1>5, <1>6, <1>7, <1>8 DEF InStep, d

\* In a finite set of things with different keys, the number of keys up to
\* a thing's key is its rank, and it follows the keys.
LEMMA RankBounds ==
    ASSUME NEW S, IsFiniteSet(S), NEW key \in [S -> Nat]
    PROVE  LET rank(x) == Cardinality({y \in S : key[y] <= key[x]})
           IN  /\ \A x \in S : rank(x) \in 1 .. Cardinality(S)
               /\ \A x, y \in S : key[x] < key[y] => rank(x) < rank(y)
<1> DEFINE upto(x) == {y \in S : key[y] <= key[x]}
<1>1. Cardinality(S) \in Nat
  BY FS_CardinalityType
<1>2. ASSUME NEW x \in S
      PROVE  /\ IsFiniteSet(upto(x)) /\ Cardinality(upto(x)) \in Nat
             /\ Cardinality(upto(x)) <= Cardinality(S)
             /\ Cardinality(upto(x)) # 0
  <2>1. upto(x) \in SUBSET S /\ x \in upto(x)
    OBVIOUS
  <2>2. IsFiniteSet(upto(x)) /\ Cardinality(upto(x)) <= Cardinality(S)
    BY <2>1, FS_Subset
  <2> QED
    BY <2>1, <2>2, FS_CardinalityType, FS_EmptySet
<1>3. ASSUME NEW x \in S, NEW y \in S, key[x] < key[y]
      PROVE  Cardinality(upto(x)) < Cardinality(upto(y))
  <2>1. upto(x) \in SUBSET upto(y) /\ y \in upto(y) /\ y \notin upto(x)
    BY <1>3
  <2>2. /\ Cardinality(upto(x)) <= Cardinality(upto(y))
        /\ Cardinality(upto(x)) # Cardinality(upto(y))
    BY <2>1, <1>2, FS_Subset
  <2> QED
    BY <2>2, <1>2
<1> HIDE DEF upto
<1>4. \A x \in S : Cardinality(upto(x)) \in 1 .. Cardinality(S)
  BY <1>1, <1>2
<1> QED
  BY <1>3, <1>4 DEF upto

\* With different keys every rank is taken.
LEMMA RankOnto ==
    ASSUME NEW S, IsFiniteSet(S), NEW key \in [S -> Nat],
           \A x, y \in S : x # y => key[x] # key[y],
           NEW k \in 1 .. Cardinality(S)
    PROVE  \E x \in S : Cardinality({y \in S : key[y] <= key[x]}) = k
<1> DEFINE rank(x) == Cardinality({y \in S : key[y] <= key[x]})
           T == 1 .. Cardinality(S)
           f == [x \in S |-> rank(x)]
<1>1. /\ \A x \in S : rank(x) \in T
      /\ \A x, y \in S : key[x] < key[y] => rank(x) < rank(y)
  BY RankBounds
<1>2. Cardinality(S) \in Nat
  BY FS_CardinalityType
<1> HIDE DEF rank
<1>3. \A x, y \in S : x # y => rank(x) # rank(y)
  <2> SUFFICES ASSUME NEW x \in S, NEW y \in S, x # y
               PROVE  rank(x) # rank(y)
    OBVIOUS
  <2>1. key[x] \in Nat /\ key[y] \in Nat /\ key[x] # key[y]
    OBVIOUS
  <2>2. key[x] < key[y] \/ key[y] < key[x]
    BY <2>1
  <2>3. rank(x) < rank(y) \/ rank(y) < rank(x)
    BY <2>2, <1>1
  <2>4. rank(x) \in Int /\ rank(y) \in Int
    BY <1>1, <1>2
  <2> QED
    BY <2>3, <2>4
<1>4. f \in Injection(S, T)
  <2>1. f \in [S -> T] /\ \A x, y \in S : x # y => f[x] # f[y]
    BY <1>1, <1>3
  <2> QED
    BY <2>1, Zenon DEF Injection, IsInjective
<1>5. IsFiniteSet(T) /\ Cardinality(T) = Cardinality(S)
  BY <1>2, FS_Interval
<1>6. k \in T
  OBVIOUS
<1> HIDE DEF f, T
<1>7. f \in Surjection(S, T)
  BY <1>4, <1>5, FS_Injection
<1>8. \A j \in T : \E x \in S : f[x] = j
  BY <1>7 DEF Surjection
<1>9. PICK x \in S : f[x] = k
  BY <1>6, <1>8
<1> QED
  BY <1>9 DEF f, rank

\* Closing the holes numbers the filled slots from 1 to their number, in
\* their order.
LEMMA FilledIsFinite ==
    ASSUME NEW c, IsCollection(c)
    PROVE  /\ Filled(c) \subseteq Nat
           /\ IsFiniteSet(Filled(c)) /\ Cardinality(Filled(c)) \in Nat
<1>1. Len(c.elems) \in Nat /\ Filled(c) \in SUBSET (1 .. Len(c.elems))
  BY DEF IsCollection, Filled
<1>2. IsFiniteSet(1 .. Len(c.elems))
  BY <1>1, FS_Interval
<1>3. IsFiniteSet(Filled(c))
  BY <1>1, <1>2, FS_Subset
<1> QED
  BY <1>1, <1>3, FS_CardinalityType

LEMMA SlotAfterBounds ==
    ASSUME NEW c, IsCollection(c)
    PROVE  /\ \A s \in Filled(c) : SlotAfter(c, s) \in 1 .. Cardinality(Filled(c))
           /\ \A s, t \in Filled(c) : s < t => SlotAfter(c, s) < SlotAfter(c, t)
<1> DEFINE F == Filled(c)
           key == [s \in F |-> s]
           rank(s) == Cardinality({r \in F : key[r] <= key[s]})
<1>1. IsFiniteSet(F) /\ key \in [F -> Nat]
  BY FilledIsFinite
<1>2. \A s \in F : {r \in F : key[r] <= key[s]} = {r \in F : r <= s}
  OBVIOUS
<1>3. \A s \in F : SlotAfter(c, s) = rank(s)
  BY <1>2 DEF SlotAfter
<1>4. \A s \in F : key[s] = s
  OBVIOUS
<1> HIDE DEF F, key
<1>5. /\ \A s \in F : rank(s) \in 1 .. Cardinality(F)
      /\ \A s, t \in F : key[s] < key[t] => rank(s) < rank(t)
  BY <1>1, RankBounds
<1> HIDE DEF rank
<1>6. /\ \A s \in F : SlotAfter(c, s) \in 1 .. Cardinality(F)
      /\ \A s, t \in F : s < t => SlotAfter(c, s) < SlotAfter(c, t)
  BY <1>3, <1>4, <1>5
<1> QED
  BY <1>6 DEF F

LEMMA SlotAfterOnto ==
    ASSUME NEW c, IsCollection(c), NEW k \in 1 .. Cardinality(Filled(c))
    PROVE  \E s \in Filled(c) : SlotAfter(c, s) = k
<1> DEFINE F == Filled(c)
           key == [s \in F |-> s]
<1>1. IsFiniteSet(F) /\ key \in [F -> Nat]
  BY FilledIsFinite
<1>2. \A s \in F : {r \in F : key[r] <= key[s]} = {r \in F : r <= s}
  OBVIOUS
<1>3. \A s, t \in F : s # t => key[s] # key[t]
  OBVIOUS
<1>4. \A s \in F : SlotAfter(c, s) = Cardinality({r \in F : key[r] <= key[s]})
  BY <1>2 DEF SlotAfter
<1>5. k \in 1 .. Cardinality(F)
  OBVIOUS
<1> HIDE DEF F, key
<1>6. \A j \in 1 .. Cardinality(F) :
         \E s \in F : Cardinality({r \in F : key[r] <= key[s]}) = j
  BY <1>1, <1>3, RankOnto
<1>7. PICK s \in F : Cardinality({r \in F : key[r] <= key[s]}) = k
  BY <1>5, <1>6
<1> QED
  BY <1>4, <1>7 DEF F

\* Every position up to the number of members is that of some member.
LEMMA PositionsAreHeld ==
    ASSUME NEW c, IsCollection(c), InStep(c), NEW k \in 1 .. Cardinality(Members(c))
    PROVE  \E x \in Members(c) : IndexOf(c, x) = k
<1> DEFINE M == Members(c)
           key == c.index
<1>1. key \in [M -> Nat] /\ key \in [M -> Filled(c)]
  <2>1. \A x \in M : key[x] \in Nat /\ key[x] \in Filled(c)
    BY MemberFacts
  <2>2. key = [x \in M |-> key[x]]
    BY DEF IsCollection, Members
  <2> QED
    BY <2>1, <2>2
<1>2. \A x, y \in M : x # y => key[x] # key[y]
  BY SlotsDiffer
<1>3. \A x \in M : IndexOf(c, x) = Cardinality({y \in M : key[y] <= key[x]})
  BY DEF IndexOf
<1>4. IsFiniteSet(Filled(c))
  BY FilledIsFinite
<1>5. k \in 1 .. Cardinality(M)
  OBVIOUS
<1> HIDE DEF M, key
<1>6. key \in Injection(M, Filled(c))
  BY <1>1, <1>2, Zenon DEF Injection, IsInjective
<1>7. IsFiniteSet(M)
  BY <1>4, <1>6, FS_Injection
<1>8. PICK x \in M : Cardinality({y \in M : key[y] <= key[x]}) = k
  BY <1>1, <1>2, <1>5, <1>7, RankOnto
<1> QED
  BY <1>3, <1>8 DEF M

\* remake() changes neither the objects nor their order.
LEMMA RemadeInStep ==
    ASSUME NEW c, IsCollection(c), InStep(c)
    PROVE  /\ IsCollection(Remade(c)) /\ InStep(Remade(c))
           /\ Members(Remade(c)) = Members(c)
           /\ \A x, y \in Members(c) :
                 Remade(c).index[x] < Remade(c).index[y]
                 <=> c.index[x] < c.index[y]
<1>1. CASE Filled(c) = DOMAIN c.elems
  BY <1>1 DEF Remade
<1>2. CASE Filled(c) # DOMAIN c.elems
  <2> DEFINE F == Filled(c)
             N == Cardinality(F)
             g(k) == CHOOSE s \in F : SlotAfter(c, s) = k
             L == Closed(c)
             d == Holding(L)
             M == Members(c)
  <2>1. /\ N \in Nat
        /\ \A s \in F : SlotAfter(c, s) \in 1 .. N
        /\ \A s, t \in F : s < t => SlotAfter(c, s) < SlotAfter(c, t)
        /\ F \subseteq Nat
    BY FilledIsFinite, SlotAfterBounds
  <2>2. \A k \in 1 .. N : g(k) \in F /\ SlotAfter(c, g(k)) = k
    BY SlotAfterOnto
  <2>3. \A s, t \in F : SlotAfter(c, s) = SlotAfter(c, t) => s = t
    BY <2>1
  <2>4. DOMAIN L = 1 .. N /\ \A k \in 1 .. N : L[k] = c.elems[g(k)]
    BY DEF Closed
  <2> HIDE DEF N, L, g
  <2>5. \A k \in 1 .. N : L[k] \in M /\ c.index[L[k]] = g(k)
    <3> TAKE k \in 1 .. N
    <3>1. g(k) \in F /\ L[k] = c.elems[g(k)]
      BY <2>2, <2>4
    <3> QED
      BY <3>1 DEF InStep
  <2>6. \A x \in M : /\ c.index[x] \in F
                     /\ SlotAfter(c, c.index[x]) \in 1 .. N
                     /\ L[SlotAfter(c, c.index[x])] = x
    <3> TAKE x \in M
    <3> DEFINE t == c.index[x]
               k == SlotAfter(c, t)
    <3>1. t \in F /\ c.elems[t] = x
      BY MemberFacts
    <3>2. k \in 1 .. N
      BY <3>1, <2>1
    <3>3. g(k) \in F /\ SlotAfter(c, g(k)) = k
      BY <3>2, <2>2
    <3>4. g(k) = t
      BY <3>1, <3>3, <2>3
    <3> QED
      BY <3>1, <3>2, <3>4, <2>4
  <2>7. \A j, k \in 1 .. N : L[j] = L[k] => j = k
    BY <2>2, <2>5
  <2>8. {L[k] : k \in DOMAIN L} = M
    BY <2>4, <2>5, <2>6
  <2>9. /\ d.elems = L
        /\ Members(d) = M
        /\ d = [elems |-> d.elems, index |-> d.index]
        /\ d.index = [x \in M |-> CHOOSE s \in DOMAIN L :
                          /\ L[s] = x
                          /\ \A r \in DOMAIN L : L[r] = x => r <= s]
    BY <2>8 DEF Holding, Numbered, Members
  <2>10. \A x \in M : d.index[x] = SlotAfter(c, c.index[x])
    <3> TAKE x \in M
    <3> DEFINE k == SlotAfter(c, c.index[x])
               P(s) == L[s] = x /\ \A r \in DOMAIN L : L[r] = x => r <= s
    <3>1. k \in DOMAIN L /\ L[k] = x
      BY <2>4, <2>6
    <3>2. \A r \in DOMAIN L : L[r] = x => r = k
      BY <3>1, <2>4, <2>7
    <3>3. P(k)
      BY <3>1, <3>2, <2>4
    <3>4. (CHOOSE s \in DOMAIN L : P(s)) = k
      <4> HIDE DEF k
      <4>1. (CHOOSE s \in DOMAIN L : P(s)) \in DOMAIN L /\ P(CHOOSE s \in DOMAIN L : P(s))
        BY <3>1, <3>3
      <4> QED
        BY <4>1, <3>2
    <3> QED
      BY <3>4, <2>9
  <2>11. L \in Seq(Objects \cup {Hole})
    <3>1. \A k \in 1 .. N : L[k] \in Objects
      BY <2>5, MemberFacts
    <3>2. L = [k \in 1 .. N |-> L[k]]
      BY <2>4 DEF Closed, L
    <3> QED
      BY <3>1, <3>2, <2>1
  <2>12. IsCollection(d)
    <3>1. \A x \in M : x \in Objects /\ d.index[x] \in DOMAIN d.elems
      BY <2>4, <2>6, <2>9, <2>10, MemberFacts
    <3> QED
      BY <3>1, <2>9, <2>11 DEF IsCollection, Members
  <2>13. InStep(d)
    <3>1. \A x \in M : d.elems[d.index[x]] = x
      BY <2>6, <2>9, <2>10
    <3>2. \A s \in DOMAIN L : L[s] \in M /\ d.index[L[s]] = s
      BY <2>2, <2>4, <2>5, <2>10
    <3> QED
      BY <3>1, <3>2, <2>9 DEF InStep, Filled
  <2>14. \A x, y \in M : d.index[x] < d.index[y] <=> c.index[x] < c.index[y]
    <3> TAKE x, y \in M
    <3> DEFINE s == c.index[x]
               t == c.index[y]
    <3>1. s \in F /\ t \in F
      BY <2>6
    <3>2. s \in Nat /\ t \in Nat /\ SlotAfter(c, s) \in Nat /\ SlotAfter(c, t) \in Nat
      BY <3>1, <2>1
    <3>3. (s < t => SlotAfter(c, s) < SlotAfter(c, t)) /\ (t < s => SlotAfter(c, t) < SlotAfter(c, s))
      BY <3>1, <2>1
    <3>4. SlotAfter(c, s) < SlotAfter(c, t) <=> s < t
      BY <3>2, <3>3
    <3> QED
      BY <3>4, <2>10
  <2>15. Remade(c) = d
    BY <1>2 DEF Remade, L
  <2> QED
    BY <2>9, <2>12, <2>13, <2>14, <2>15
<1> QED
  BY <1>1, <1>2

\* A list without repetitions makes a collection of its objects, in its
\* order.
LEMMA HoldingInStep ==
    ASSUME NEW list \in Seq(Objects),
           \A i, j \in DOMAIN list : list[i] = list[j] => i = j
    PROVE  /\ IsCollection(Holding(list)) /\ InStep(Holding(list))
           /\ Members(Holding(list)) = {list[s] : s \in DOMAIN list}
           /\ \A s \in DOMAIN list : Holding(list).index[list[s]] = s
           /\ Members(Holding(list)) \subseteq Objects
<1> DEFINE d == Holding(list)
           M == {list[s] : s \in DOMAIN list}
<1>1. /\ d.elems = list
      /\ Members(d) = M
      /\ d = [elems |-> d.elems, index |-> d.index]
      /\ d.index = [x \in M |-> CHOOSE s \in DOMAIN list :
                        /\ list[s] = x
                        /\ \A r \in DOMAIN list : list[r] = x => r <= s]
  BY DEF Holding, Numbered, Members
<1>2. \A s \in DOMAIN list : list[s] \in Objects /\ s \in Nat
  OBVIOUS
<1>3. \A s \in DOMAIN list : d.index[list[s]] = s
  <2> TAKE s \in DOMAIN list
  <2> DEFINE P(t) == /\ list[t] = list[s]
                     /\ \A r \in DOMAIN list : list[r] = list[s] => r <= t
  <2>1. P(s)
    BY <1>2
  <2>2. (CHOOSE t \in DOMAIN list : P(t)) \in DOMAIN list /\ P(CHOOSE t \in DOMAIN list : P(t))
    BY <2>1
  <2> QED
    BY <2>2, <1>1
<1>4. \A x \in M : x \in Objects /\ d.index[x] \in DOMAIN list /\ list[d.index[x]] = x
  BY <1>2, <1>3
<1>5. list \in Seq(Objects \cup {Hole})
  OBVIOUS
<1> HIDE DEF d
<1>6. IsCollection(d)
  BY <1>1, <1>4, <1>5 DEF IsCollection, Members
<1>7. InStep(d)
  BY <1>1, <1>3, <1>4 DEF InStep, Filled
<1> QED
  BY <1>1, <1>3, <1>4, <1>6, <1>7 DEF d

LEMMA ClearedInStep ==
    IsCollection(Cleared) /\ InStep(Cleared) /\ Members(Cleared) = {}
<1>1. <<>> \in Seq(Objects) /\ DOMAIN <<>> = {}
  OBVIOUS
<1>2. IsCollection(Holding(<<>>)) /\ InStep(Holding(<<>>))
  BY <1>1, HoldingInStep
<1>3. Members(Holding(<<>>)) = {}
  BY <1>1 DEF Holding, Numbered, Members
<1> QED
  BY <1>2, <1>3 DEF Cleared

-----------------------------------------------------------------------------
(* What a reader sees of each operation                                    *)

LEMMA SeenAdded ==
    ASSUME NEW c, IsCollection(c), InStep(c),
           NEW e \in Objects, e \notin Members(c)
    PROVE  /\ Iterated(Added(c, e)) = Iterated(c) \cup {e}
           /\ Precedence(Added(c, e)) = Precedence(c) \cup (Iterated(c) \X {e})
<1> DEFINE d == Added(c, e)
           M == Members(c)
<1>1. /\ IsCollection(d) /\ InStep(d) /\ Members(d) = M \cup {e}
      /\ \A x \in M : d.index[x] = c.index[x] /\ d.index[x] < d.index[e]
  BY AddedInStep
<1>2. d.index[e] \in Int /\ \A x \in M : d.index[x] \in Int
  BY <1>1, MemberFacts
<1> HIDE DEF d
<1>3. /\ Iterated(c) = M
      /\ Precedence(c) = {p \in M \X M : c.index[p[1]] < c.index[p[2]]}
  BY ViewIsMembers
<1>4. /\ Iterated(d) = M \cup {e}
      /\ Precedence(d) = {p \in (M \cup {e}) \X (M \cup {e}) :
                             d.index[p[1]] < d.index[p[2]]}
  BY <1>1, ViewIsMembers
<1>5. Precedence(d) = Precedence(c) \cup (M \X {e})
  <2>1. \A x, y \in M : d.index[x] < d.index[y] <=> c.index[x] < c.index[y]
    BY <1>1
  <2>2. ~ (d.index[e] < d.index[e]) /\ \A x \in M : ~ (d.index[e] < d.index[x])
    BY <1>1, <1>2
  <2> HIDE DEF M
  <2>3. ASSUME NEW x, NEW y
        PROVE  <<x, y>> \in Precedence(d)
               <=> <<x, y>> \in Precedence(c) \cup (M \X {e})
    <3>1. <<x, y>> \in Precedence(d) <=>
             x \in M \cup {e} /\ y \in M \cup {e} /\ d.index[x] < d.index[y]
      BY <1>4
    <3>2. <<x, y>> \in Precedence(c) <=>
             x \in M /\ y \in M /\ c.index[x] < c.index[y]
      BY <1>3
    <3> QED
      BY <3>1, <3>2, <2>1, <2>2, <1>1
  <2> QED
    BY <2>3, <1>3, <1>4
<1> QED
  BY <1>3, <1>4, <1>5 DEF d

LEMMA SeenRemoved ==
    ASSUME NEW c, IsCollection(c), InStep(c), NEW e \in Members(c)
    PROVE  /\ Iterated(Removed(c, e)) = Iterated(c) \ {e}
           /\ Precedence(Removed(c, e)) =
                 {p \in Precedence(c) : p[1] # e /\ p[2] # e}
<1> DEFINE d == Removed(c, e)
           M == Members(c)
<1>1. /\ IsCollection(d) /\ InStep(d) /\ Members(d) = M \ {e}
      /\ \A x \in M \ {e} : d.index[x] = c.index[x]
  BY RemovedInStep
<1> HIDE DEF d
<1>2. /\ Iterated(c) = M
      /\ Precedence(c) = {p \in M \X M : c.index[p[1]] < c.index[p[2]]}
  BY ViewIsMembers
<1>3. /\ Iterated(d) = M \ {e}
      /\ Precedence(d) = {p \in (M \ {e}) \X (M \ {e}) :
                             d.index[p[1]] < d.index[p[2]]}
  BY <1>1, ViewIsMembers
<1> HIDE DEF M
<1>4. Precedence(d) = {p \in Precedence(c) : p[1] # e /\ p[2] # e}
  BY <1>1, <1>2, <1>3
<1> QED
  BY <1>2, <1>3, <1>4 DEF d

LEMMA SeenReplaced ==
    ASSUME NEW c, IsCollection(c), InStep(c), NEW old \in Members(c),
           NEW new \in Objects, new \notin Members(c) \ {old}
    PROVE  LET d == Replaced(c, old, c.index[old], new)
               put(x) == IF x = old THEN new ELSE x
           IN  /\ Iterated(d) = (Iterated(c) \ {old}) \cup {new}
               /\ Precedence(d) =
                     {<<put(p[1]), put(p[2])>> : p \in Precedence(c)}
<1> DEFINE d == Replaced(c, old, c.index[old], new)
           put(x) == IF x = old THEN new ELSE x
           M == Members(c)
           N == (M \ {old}) \cup {new}
<1>1. /\ IsCollection(d) /\ InStep(d) /\ Members(d) = N
      /\ \A x \in M \ {old} : d.index[x] = c.index[x]
      /\ d.index[new] = c.index[old]
  BY ReplacedInStep
<1> HIDE DEF d
<1>2. /\ Iterated(c) = M
      /\ Precedence(c) = {p \in M \X M : c.index[p[1]] < c.index[p[2]]}
  BY ViewIsMembers
<1>3. /\ Iterated(d) = N
      /\ Precedence(d) = {p \in N \X N : d.index[p[1]] < d.index[p[2]]}
  BY <1>1, ViewIsMembers
<1>4. old \in M /\ new \notin M \ {old}
  OBVIOUS
<1> HIDE DEF M
<1>5. \A x \in M : put(x) \in N /\ d.index[put(x)] = c.index[x]
  BY <1>1
<1>6. \A y \in N : \E x \in M : y = put(x)
  BY <1>4
<1> HIDE DEF put, N
<1>7. ASSUME NEW p \in Precedence(c)
      PROVE  <<put(p[1]), put(p[2])>> \in Precedence(d)
  BY <1>2, <1>3, <1>5
<1>8. ASSUME NEW q \in Precedence(d)
      PROVE  \E p \in Precedence(c) : q = <<put(p[1]), put(p[2])>>
  <2>1. q \in N \X N /\ d.index[q[1]] < d.index[q[2]]
    BY <1>3
  <2>2. PICK x \in M, y \in M : q[1] = put(x) /\ q[2] = put(y)
    BY <2>1, <1>6
  <2>3. <<x, y>> \in Precedence(c)
    BY <2>1, <2>2, <1>2, <1>5
  <2>4. q = <<put(<<x, y>>[1]), put(<<x, y>>[2])>>
    BY <2>1, <2>2
  <2> QED
    BY <2>3, <2>4
<1>9. Precedence(d) = {<<put(p[1]), put(p[2])>> : p \in Precedence(c)}
  BY <1>7, <1>8
<1> QED
  BY <1>2, <1>3, <1>9 DEF d, put, N

LEMMA SeenRemade ==
    ASSUME NEW c, IsCollection(c), InStep(c)
    PROVE  /\ Iterated(Remade(c)) = Iterated(c)
           /\ Precedence(Remade(c)) = Precedence(c)
<1> DEFINE d == Remade(c)
           M == Members(c)
<1>1. /\ IsCollection(d) /\ InStep(d) /\ Members(d) = M
      /\ \A x, y \in M : d.index[x] < d.index[y] <=> c.index[x] < c.index[y]
  BY RemadeInStep
<1> HIDE DEF d
<1>2. /\ Iterated(c) = M
      /\ Precedence(c) = {p \in M \X M : c.index[p[1]] < c.index[p[2]]}
  BY ViewIsMembers
<1>3. /\ Iterated(d) = M
      /\ Precedence(d) = {p \in M \X M : d.index[p[1]] < d.index[p[2]]}
  BY <1>1, ViewIsMembers
<1> HIDE DEF M
<1>4. Precedence(d) = Precedence(c)
  BY <1>1, <1>2, <1>3
<1> QED
  BY <1>2, <1>3, <1>4 DEF d

LEMMA SeenCleared == Iterated(Cleared) = {} /\ Precedence(Cleared) = {}
BY ClearedInStep, ViewIsMembers

\* Iteration is a strict total order of the members.
LEMMA SeenInOrder ==
    ASSUME NEW c, IsCollection(c), InStep(c)
    PROVE  LET B == Precedence(c)
           IN  /\ Iterated(c) \subseteq Objects
               /\ B \subseteq Iterated(c) \X Iterated(c)
               /\ \A x \in Iterated(c) : <<x, x>> \notin B
               /\ \A x, y \in Iterated(c) :
                     x # y => <<x, y>> \in B \/ <<y, x>> \in B
               /\ \A x, y, z \in Iterated(c) :
                     <<x, y>> \in B /\ <<y, z>> \in B => <<x, z>> \in B
<1> DEFINE M == Members(c)
           B == Precedence(c)
<1>1. Iterated(c) = M /\ B = {p \in M \X M : c.index[p[1]] < c.index[p[2]]}
  BY ViewIsMembers
<1>2. \A x \in M : x \in Objects /\ c.index[x] \in Int
  BY MemberFacts
<1>3. \A x, y \in M : x # y => c.index[x] # c.index[y]
  BY SlotsDiffer
<1> HIDE DEF M, B
<1>4. \A x, y \in M : <<x, y>> \in B <=> c.index[x] < c.index[y]
  BY <1>1
<1>5. \A x \in M : <<x, x>> \notin B
  BY <1>2, <1>4
<1>6. \A x, y \in M : x # y => <<x, y>> \in B \/ <<y, x>> \in B
  BY <1>2, <1>3, <1>4
<1>7. \A x, y, z \in M : <<x, y>> \in B /\ <<y, z>> \in B => <<x, z>> \in B
  BY <1>2, <1>4
<1> QED
  BY <1>1, <1>2, <1>5, <1>6, <1>7 DEF B

-----------------------------------------------------------------------------
(* The collection and its events                                           *)

\* The caller never replaces an object by another one of the collection.
PlainUse == "reuse" \notin Caller

IInv == TypeOK /\ IndexAgrees

LEMMA GoodCollection == ASSUME IInv PROVE IsCollection(coll) /\ InStep(coll)
BY DEF IInv, TypeOK, IndexAgrees

\* get() with an integer in range returns a member.
LEMMA NthIsMember ==
    ASSUME IInv, NEW k \in 1 .. Cardinality(Members(coll))
    PROVE  Nth(coll, k) \in Members(coll)
<1> DEFINE x == CHOOSE y \in Members(coll) : IndexOf(coll, y) = k
<1>1. x \in Members(coll)
  BY GoodCollection, PositionsAreHeld
<1>2. coll.elems[coll.index[x]] = x
  BY <1>1, GoodCollection DEF InStep
<1> HIDE DEF x
<1>3. Nth(coll, k) = coll.elems[coll.index[x]]
  BY DEF Nth, x
<1> QED
  BY <1>1, <1>2, <1>3

\* A filled slot is the slot of the member in it, so a replacement by
\* integer replaces that member.
LEMMA SlotOfMember ==
    ASSUME IInv, NEW slot \in DOMAIN coll.elems,
           coll.elems[slot] \in Members(coll)
    PROVE  coll.index[coll.elems[slot]] = slot
<1>1. coll.elems[slot] # Hole
  BY GoodCollection, MemberFacts
<1> QED
  BY <1>1, GoodCollection DEF InStep, Filled

\* What the changes of the collection come down to.
LEMMA EventTypes ==
    ASSUME NEW e \in Objects
    PROVE  /\ <<"add", e>> \in {"add", "remove", "replace"} \X Objects
           /\ <<"remove", e>> \in {"add", "remove", "replace"} \X Objects
           /\ <<"replace", e>> \in {"add", "remove", "replace"} \X Objects
OBVIOUS

LEMMA TakeKeeps ==
    ASSUME IInv, NEW e \in Members(coll), Take(e)
    PROVE  IInv'
<1>1. e \in Objects
  BY GoodCollection, MemberFacts
<1>2. IsCollection(coll') /\ InStep(coll')
  BY GoodCollection, RemovedInStep DEF Take
<1> QED
  BY <1>1, <1>2, EventTypes DEF Take, IInv, TypeOK, IndexAgrees

LEMMA PutKeeps ==
    ASSUME PlainUse, IInv, NEW old \in Members(coll), NEW new \in Objects,
           Put(old, coll.index[old], new)
    PROVE  IInv'
<1>1. new \notin Members(coll) \ {old}
  BY DEF Put, PlainUse
<1>2. IsCollection(coll') /\ InStep(coll')
  BY <1>1, GoodCollection, ReplacedInStep DEF Put
<1> QED
  BY <1>2, EventTypes DEF Put, IInv, TypeOK, IndexAgrees

LEMMA InitIInv == ASSUME Init PROVE IInv
<1>1. PICK list \in Lists :
          /\ \A i \in DOMAIN list : list[i] \in Objects
          /\ \A i, j \in DOMAIN list : list[i] = list[j] => i = j
          /\ coll = Holding(list)
  BY DEF Init
<1>2. list \in Seq(Objects)
  <2>1. list \in Seq(Objects \cup {Alien})
    BY CallAssumption
  <2> QED
    BY <1>1, <2>1
<1>3. IsCollection(coll) /\ InStep(coll)
  BY <1>1, <1>2, HoldingInStep
<1> QED
  BY <1>3 DEF Init, IInv, TypeOK, IndexAgrees

LEMMA StepIInv ==
    ASSUME PlainUse, IInv, [Next]_vars
    PROVE  IInv'
<1> USE DEF NoEvent
<1>1. ASSUME NEW list \in Lists, AddCall(list) PROVE IInv'
  BY <1>1, CallAssumption DEF AddCall, IInv, TypeOK, IndexAgrees
<1>2. ASSUME NEW list \in Lists, Update(list) PROVE IInv'
  BY <1>2, CallAssumption, ClearedInStep DEF Update, IInv, TypeOK, IndexAgrees
<1>3. CASE AddOne
  <2> DEFINE e == Head(pending)
  <2>1. /\ e \in Objects /\ coll' = Added(coll, e) /\ pending' = Tail(pending)
        /\ fired' = IF e \in Members(coll) THEN NoEvent ELSE <<"add", e>>
        /\ pending # <<>>
    BY <1>3 DEF AddOne
  <2>2. pending' \in Seq(Objects \cup {Alien})
    BY <2>1 DEF IInv, TypeOK
  <2> HIDE DEF e
  <2>3. IsCollection(coll') /\ InStep(coll')
    <3>1. CASE e \in Members(coll)
      BY <2>1, <3>1, GoodCollection DEF Added
    <3>2. CASE e \notin Members(coll)
      BY <2>1, <3>2, GoodCollection, AddedInStep
    <3> QED
      BY <3>1, <3>2
  <2> QED
    BY <2>1, <2>2, <2>3, EventTypes DEF IInv, TypeOK, IndexAgrees
<1>4. CASE AddRaises
  BY <1>4 DEF AddRaises, IInv, TypeOK, IndexAgrees
<1>5. ASSUME NEW e \in Objects, Remove(e) PROVE IInv'
  BY <1>5, TakeKeeps DEF Remove
<1>6. ASSUME NEW k \in 1 .. SlotBound, RemoveAt(k) PROVE IInv'
  <2>1. Nth(coll, k) \in Members(coll)
    BY <1>6, NthIsMember DEF RemoveAt
  <2> QED
    BY <1>6, <2>1, TakeKeeps DEF RemoveAt
<1>7. ASSUME NEW old \in Objects, NEW new \in Objects, Replace(old, new) PROVE IInv'
  BY <1>7, PutKeeps DEF Replace
<1>8. ASSUME NEW slot \in 1 .. SlotBound, NEW new \in Objects, ReplaceAt(slot, new)
      PROVE  IInv'
  <2>1. slot \in DOMAIN coll.elems
    BY <1>8 DEF ReplaceAt
  <2>2. CASE coll.elems[slot] \in Members(coll)
    BY <1>8, <2>1, <2>2, SlotOfMember, PutKeeps DEF ReplaceAt
  <2>3. CASE coll.elems[slot] \notin Members(coll)
    BY <1>8, <2>3 DEF ReplaceAt, Raises, IInv, TypeOK, IndexAgrees
  <2> QED
    BY <2>2, <2>3
<1>9. CASE Remake
  <2>1. IsCollection(coll') /\ InStep(coll')
    BY <1>9, GoodCollection, RemadeInStep DEF Remake
  <2> QED
    BY <1>9, <2>1 DEF Remake, IInv, TypeOK, IndexAgrees
<1>10. CASE UNCHANGED vars
  BY <1>10 DEF vars, IInv, TypeOK, IndexAgrees
<1> QED
  BY <1>1, <1>2, <1>3, <1>4, <1>5, <1>6, <1>7, <1>8, <1>9, <1>10 DEF Next

-----------------------------------------------------------------------------
(* The collection implements the abstract order                            *)

LEMMA InitRefines == ASSUME Init PROVE Order!Init
<1>1. IInv
  BY InitIInv
<1>2. /\ Iterated(coll) \subseteq Objects
      /\ Precedence(coll) \subseteq Iterated(coll) \X Iterated(coll)
      /\ Order!Ordered
  BY <1>1, GoodCollection, SeenInOrder DEF Order!Ordered
<1> QED
  BY <1>2 DEF Init, NoEvent, Order!Init, Order!NoEvent

LEMMA TakeRefines ==
    ASSUME IInv, NEW e \in Members(coll), Idle, Take(e)
    PROVE  e \in Objects /\ Order!Remove(e)
<1>1. /\ Iterated(coll') = Iterated(coll) \ {e}
      /\ Precedence(coll') = {p \in Precedence(coll) : p[1] # e /\ p[2] # e}
  BY GoodCollection, SeenRemoved DEF Take
<1>2. e \in Objects /\ e \in Iterated(coll)
  BY GoodCollection, MemberFacts, ViewIsMembers
<1> QED
  BY <1>1, <1>2 DEF Take, Idle, Order!Remove

LEMMA PutRefines ==
    ASSUME PlainUse, IInv, NEW old \in Members(coll), NEW new \in Objects,
           Idle, Put(old, coll.index[old], new)
    PROVE  old \in Objects /\ Order!Replace(old, new)
<1>1. new \notin Members(coll) \ {old}
  BY DEF Put, PlainUse
<1>2. /\ Iterated(coll') = (Iterated(coll) \ {old}) \cup {new}
      /\ Precedence(coll') =
            {<<IF p[1] = old THEN new ELSE p[1],
               IF p[2] = old THEN new ELSE p[2]>> : p \in Precedence(coll)}
  BY <1>1, GoodCollection, SeenReplaced DEF Put
<1>3. old \in Objects /\ Iterated(coll) = Members(coll)
  BY GoodCollection, MemberFacts, ViewIsMembers
<1> QED
  BY <1>1, <1>2, <1>3 DEF Put, Idle, Order!Replace, Order!InPlace

LEMMA StepRefines ==
    ASSUME PlainUse, IInv, [Next]_vars
    PROVE  [Order!Next]_(Order!vars)
<1> USE DEF NoEvent, Order!NoEvent, Idle
<1>1. ASSUME NEW list \in Lists, AddCall(list) PROVE Order!Next
  <2>1. Order!AddCall(list)
    BY <1>1 DEF AddCall, Order!AddCall
  <2> QED
    BY <2>1 DEF Order!Next
<1>2. ASSUME NEW list \in Lists, Update(list) PROVE Order!Next
  <2>1. Iterated(coll') = {} /\ Precedence(coll') = {}
    BY <1>2, SeenCleared DEF Update
  <2>2. Order!Renew(list)
    BY <1>2, <2>1 DEF Update, Order!Renew
  <2> QED
    BY <2>2 DEF Order!Next
<1>3. CASE AddOne
  <2> DEFINE e == Head(pending)
  <2>1. e \in Objects /\ coll' = Added(coll, e)
    BY <1>3 DEF AddOne
  <2>2. Iterated(coll) = Members(coll)
    BY GoodCollection, ViewIsMembers
  <2>3. CASE e \in Members(coll)
    <3>1. coll' = coll
      BY <2>1, <2>3 DEF Added
    <3> QED
      BY <1>3, <2>2, <2>3, <3>1 DEF AddOne, Order!AddOne, Order!Next
  <2>4. CASE e \notin Members(coll)
    <3>1. /\ Iterated(coll') = Iterated(coll) \cup {e}
          /\ Precedence(coll') = Precedence(coll) \cup (Iterated(coll) \X {e})
      BY <2>1, <2>4, GoodCollection, SeenAdded
    <3> QED
      BY <1>3, <2>2, <2>4, <3>1 DEF AddOne, Order!AddOne, Order!Next
  <2> QED
    BY <2>3, <2>4
<1>4. CASE AddRaises
  BY <1>4 DEF AddRaises, Order!AddRaises, Order!Next
<1>5. ASSUME NEW e \in Objects, Remove(e) PROVE Order!Next
  BY <1>5, TakeRefines DEF Remove, Order!Next
<1>6. ASSUME NEW k \in 1 .. SlotBound, RemoveAt(k) PROVE Order!Next
  <2>1. Nth(coll, k) \in Members(coll)
    BY <1>6, NthIsMember DEF RemoveAt
  <2>2. Nth(coll, k) \in Objects /\ Order!Remove(Nth(coll, k))
    BY <1>6, <2>1, TakeRefines DEF RemoveAt
  <2> QED
    BY <2>2 DEF Order!Next
<1>7. ASSUME NEW old \in Objects, NEW new \in Objects, Replace(old, new)
      PROVE  Order!Next
  BY <1>7, PutRefines DEF Replace, Order!Next
<1>8. ASSUME NEW slot \in 1 .. SlotBound, NEW new \in Objects, ReplaceAt(slot, new)
      PROVE  Order!Next
  <2>1. slot \in DOMAIN coll.elems
    BY <1>8 DEF ReplaceAt
  <2>2. CASE coll.elems[slot] \in Members(coll)
    <3> DEFINE old == coll.elems[slot]
    <3>1. Put(old, coll.index[old], new)
      BY <1>8, <2>1, <2>2, SlotOfMember DEF ReplaceAt
    <3> HIDE DEF old
    <3>2. old \in Objects /\ Order!Replace(old, new)
      BY <1>8, <2>2, <3>1, PutRefines DEF ReplaceAt, old
    <3> QED
      BY <3>2 DEF Order!Next
  <2>3. CASE coll.elems[slot] \notin Members(coll)
    BY <1>8, <2>3 DEF ReplaceAt, Raises, Order!NoChange, Order!Next
  <2> QED
    BY <2>2, <2>3
<1>9. CASE Remake
  <2>1. Iterated(coll') = Iterated(coll) /\ Precedence(coll') = Precedence(coll)
    BY <1>9, GoodCollection, SeenRemade DEF Remake
  <2> QED
    BY <1>9, <2>1 DEF Remake, Order!NoChange, Order!Next
<1>10. CASE UNCHANGED vars
  BY <1>10 DEF vars, Order!vars
<1> QED
  BY <1>1, <1>2, <1>3, <1>4, <1>5, <1>6, <1>7, <1>8, <1>9, <1>10 DEF Next

-----------------------------------------------------------------------------
\* The list and the dictionary of a collection are well typed and in step
\* after every sequence of calls and callbacks.
THEOREM IndexNeverStale ==
    ASSUME PlainUse
    PROVE  Spec => [](TypeOK /\ IndexAgrees)
<1>1. Init => IInv
  BY InitIInv
<1>2. IInv /\ [Next]_vars => IInv'
  BY StepIInv
<1> QED
  BY <1>1, <1>2, PTL DEF Spec, IInv

\* values() lists what iteration visits.
THEOREM ValuesAgree ==
    ASSUME PlainUse
    PROVE  Spec => []ValuesAreMembers
<1>1. IInv => ValuesAreMembers
  BY GoodCollection, ViewIsMembers DEF ValuesAreMembers
<1>2. Init => IInv
  BY InitIInv
<1>3. IInv /\ [Next]_vars => IInv'
  BY StepIInv
<1> QED
  BY <1>1, <1>2, <1>3, PTL DEF Spec

\* OrderedCollection implements the abstract order of objects: every call
\* changes the members and their order as ObjectOrder allows, and fires the
\* event that belongs to it.
THEOREM CollectionKeepsOrder ==
    ASSUME PlainUse
    PROVE  Spec => KeepsOrder
<1>1. Init => IInv /\ Order!Init
  BY InitIInv, InitRefines
<1>2. IInv /\ [Next]_vars => IInv' /\ [Order!Next]_(Order!vars)
  BY StepIInv, StepRefines
<1> QED
  BY <1>1, <1>2, PTL DEF Spec, KeepsOrder, Order!Spec

-----------------------------------------------------------------------------
(* Positions.                                                              *)

Good(c) == IsCollection(c) /\ InStep(c)

\* Positions follow the slots.
LEMMA PositionBounds ==
    ASSUME NEW c, Good(c)
    PROVE  /\ IsFiniteSet(Members(c)) /\ Cardinality(Members(c)) \in Nat
           /\ \A x \in Members(c) :
                 IndexOf(c, x) \in 1 .. Cardinality(Members(c)) /\ c.index[x] \in Nat
           /\ \A x, y \in Members(c) :
                 c.index[x] < c.index[y] => IndexOf(c, x) < IndexOf(c, y)
<1> USE DEF Good
<1> DEFINE M == Members(c)
           key == c.index
<1>1. key \in [M -> Nat] /\ key \in [M -> Filled(c)]
  <2>1. \A x \in M : key[x] \in Nat /\ key[x] \in Filled(c)
    BY MemberFacts
  <2>2. key = [x \in M |-> key[x]]
    BY DEF IsCollection, Members
  <2> QED
    BY <2>1, <2>2
<1>2. \A x, y \in M : x # y => key[x] # key[y]
  BY SlotsDiffer
<1>3. \A x \in M : IndexOf(c, x) = Cardinality({y \in M : key[y] <= key[x]})
  BY DEF IndexOf
<1>4. IsFiniteSet(Filled(c))
  BY FilledIsFinite
<1> HIDE DEF M, key, Good
<1>5. key \in Injection(M, Filled(c))
  BY <1>1, <1>2, Zenon DEF Injection, IsInjective
<1>6. IsFiniteSet(M) /\ Cardinality(M) \in Nat
  BY <1>4, <1>5, FS_Injection, FS_CardinalityType
<1>7. /\ \A x \in M : Cardinality({y \in M : key[y] <= key[x]}) \in 1 .. Cardinality(M)
      /\ \A x, y \in M : key[x] < key[y] =>
            Cardinality({z \in M : key[z] <= key[x]}) < Cardinality({z \in M : key[z] <= key[y]})
  BY <1>1, <1>6, RankBounds
<1>8. \A x \in M : key[x] \in Nat
  BY <1>1
<1> QED
  BY <1>3, <1>6, <1>7, <1>8 DEF M, key

\* Two members are in the order of their positions.
LEMMA PositionsDiffer ==
    ASSUME NEW c, Good(c), NEW x \in Members(c), NEW y \in Members(c)
    PROVE  /\ IndexOf(c, x) = IndexOf(c, y) => x = y
           /\ c.index[x] <= c.index[y] <=> IndexOf(c, x) <= IndexOf(c, y)
<1>1. /\ c.index[x] \in Nat /\ c.index[y] \in Nat
      /\ IndexOf(c, x) \in Nat /\ IndexOf(c, y) \in Nat
  BY PositionBounds
<1>2. /\ c.index[x] < c.index[y] => IndexOf(c, x) < IndexOf(c, y)
      /\ c.index[y] < c.index[x] => IndexOf(c, y) < IndexOf(c, x)
  BY PositionBounds
<1>3. x # y => c.index[x] # c.index[y]
  BY SlotsDiffer DEF Good
<1>4. c.index[x] = c.index[y] => x = y
  BY <1>3
<1> QED
  BY <1>1, <1>2, <1>4

\* What get() finds at a member's position is the member.
LEMMA NthOfPosition ==
    ASSUME NEW c, Good(c), NEW x \in Members(c)
    PROVE  Nth(c, IndexOf(c, x)) = x
<1> DEFINE y == CHOOSE z \in Members(c) : IndexOf(c, z) = IndexOf(c, x)
<1>1. y \in Members(c) /\ IndexOf(c, y) = IndexOf(c, x)
  OBVIOUS
<1>2. y = x
  BY <1>1, PositionsDiffer
<1> HIDE DEF y
<1>3. c.elems[c.index[x]] = x
  BY MemberFacts DEF Good
<1> QED
  BY <1>2, <1>3 DEF Nth, y

\* Every position has its member.
LEMMA NthFacts ==
    ASSUME NEW c, Good(c), NEW k \in 1 .. Cardinality(Members(c))
    PROVE  Nth(c, k) \in Members(c) /\ IndexOf(c, Nth(c, k)) = k
<1>1. PICK x \in Members(c) : IndexOf(c, x) = k
  BY PositionsAreHeld DEF Good
<1> QED
  BY <1>1, NthOfPosition

\* Without holes a member's slot is its position.
LEMMA SlotIsPosition ==
    ASSUME NEW c, Good(c), Filled(c) = DOMAIN c.elems, NEW x \in Members(c)
    PROVE  c.index[x] = IndexOf(c, x)
<1> DEFINE n == c.index[x]
           S == {y \in Members(c) : c.index[y] <= n}
           f == [s \in 1 .. n |-> c.elems[s]]
<1>1. n \in Nat /\ n \in 1 .. Len(c.elems) /\ DOMAIN c.elems = 1 .. Len(c.elems)
      /\ Len(c.elems) \in Nat
  BY MemberFacts DEF Good, IsCollection
<1>2. \A s \in 1 .. n : /\ c.elems[s] \in Members(c) /\ c.index[c.elems[s]] = s
                        /\ c.elems[s] \in S
  <2> HIDE DEF n
  <2> TAKE s \in 1 .. n
  <2>1. s \in Filled(c) /\ s <= n
    BY <1>1
  <2>2. c.elems[s] \in Members(c) /\ c.index[c.elems[s]] = s
    BY <2>1 DEF Good, InStep
  <2> QED
    BY <2>1, <2>2
<1>3. \A y \in S : c.index[y] \in 1 .. n /\ c.elems[c.index[y]] = y
  <2> TAKE y \in S
  <2>1. c.index[y] \in 1 .. Len(c.elems) /\ c.elems[c.index[y]] = y
    BY MemberFacts DEF Good
  <2> QED
    BY <1>1, <2>1
<1> HIDE DEF n, S
<1>4. f \in [1 .. n -> S]
  BY <1>2
<1>5. \A s, t \in 1 .. n : f[s] = f[t] => s = t
  BY <1>2
<1>6. \A y \in S : \E s \in 1 .. n : f[s] = y
  <2> TAKE y \in S
  <2> QED
    BY <1>3
<1> HIDE DEF f
<1>7. f \in Bijection(1 .. n, S)
  BY <1>4, <1>5, <1>6, Zenon DEF Bijection, Injection, Surjection, IsInjective
<1>8. ExistsBijection(1 .. n, S)
  BY <1>7 DEF ExistsBijection
<1>9. Cardinality(S) = n
  BY <1>1, <1>8, FS_CountingElements
<1> QED
  BY <1>9 DEF IndexOf, S, n

-----------------------------------------------------------------------------
(* The pair of collections.                                                *)

Fits(c) == Len(c.elems) <= PairBound

\* A copy is known by its spill and its slot.
Named(u) == \A x \in Members(u) : x[1] \in Spills /\ x = <<x[1], u.index[x]>>

\* Every spill has a copy, every copy its spill, and they are in the same
\* order, wherever the holes are.
Mirror(u, c) ==
    /\ \A x \in Members(u) : x[1] \in Members(c)
    /\ \A s \in Members(c) : \E x \in Members(u) : x[1] = s
    /\ \A x, y \in Members(u) :
          u.index[x] <= u.index[y] <=> c.index[x[1]] <= c.index[y[1]]

LEMMA ImageCount ==
    ASSUME NEW S, IsFiniteSet(S), NEW T, NEW f \in [S -> T],
           \A x, y \in S : f[x] = f[y] => x = y,
           \A z \in T : \E x \in S : f[x] = z
    PROVE  Cardinality(T) = Cardinality(S)
<1>1. f \in Bijection(S, T)
  BY Zenon DEF Bijection, Injection, Surjection, IsInjective
<1> QED
  BY <1>1, FS_Bijection DEF ExistsBijection

\* Then a spill has one copy, at its own position.
LEMMA MirrorPositions ==
    ASSUME NEW u, NEW c, Good(u), Good(c), Mirror(u, c)
    PROVE  /\ \A x, y \in Members(u) : x[1] = y[1] => x = y
           /\ \A x \in Members(u) : IndexOf(u, x) = IndexOf(c, x[1])
           /\ Cardinality(Members(u)) = Cardinality(Members(c))
           /\ MadeOf(InOrder(u)) = InOrder(c)
<1>1. ASSUME NEW x \in Members(u), NEW y \in Members(u), x[1] = y[1] PROVE x = y
  <2>1. /\ x[1] \in Members(c) /\ y[1] \in Members(c)
        /\ c.index[x[1]] \in Nat
        /\ u.index[x] \in Nat /\ u.index[y] \in Nat
    BY PositionBounds DEF Mirror
  <2>2. u.index[x] <= u.index[y] /\ u.index[y] <= u.index[x]
    BY <1>1, <2>1 DEF Mirror
  <2>3. u.index[x] = u.index[y]
    BY <2>1, <2>2
  <2> QED
    BY <2>3, SlotsDiffer DEF Good
<1>2. ASSUME NEW x \in Members(u) PROVE IndexOf(u, x) = IndexOf(c, x[1])
  <2> DEFINE S == {y \in Members(u) : u.index[y] <= u.index[x]}
             T == {s \in Members(c) : c.index[s] <= c.index[x[1]]}
             f == [y \in S |-> y[1]]
  <2>1. \A y \in S : y \in Members(u) /\ y[1] \in T
    BY DEF Mirror
  <2>2. \A s \in T : \E y \in S : y[1] = s
    <3> TAKE s \in T
    <3>1. PICK y \in Members(u) : y[1] = s
      BY DEF Mirror
    <3>2. u.index[y] <= u.index[x]
      BY <3>1 DEF Mirror
    <3> QED
      BY <3>1, <3>2
  <2>3. IsFiniteSet(S)
    BY PositionBounds, FS_Subset
  <2> HIDE DEF S, T
  <2>4. f \in [S -> T]
    BY <2>1
  <2>5. \A y, z \in S : f[y] = f[z] => y = z
    BY <1>1, <2>1
  <2>6. \A s \in T : \E y \in S : f[y] = s
    BY <2>2
  <2> HIDE DEF f
  <2>7. Cardinality(T) = Cardinality(S)
    BY <2>3, <2>4, <2>5, <2>6, ImageCount
  <2> QED
    BY <2>7 DEF IndexOf, S, T
<1>3. Cardinality(Members(u)) = Cardinality(Members(c))
  <2> DEFINE S == Members(u)
             T == Members(c)
             f == [y \in S |-> y[1]]
  <2>1. IsFiniteSet(S)
    BY PositionBounds
  <2>2. (\A y \in S : y[1] \in T) /\ (\A s \in T : \E y \in S : y[1] = s)
    BY DEF Mirror
  <2>3. \A y, z \in S : y[1] = z[1] => y = z
    BY <1>1
  <2> HIDE DEF S, T
  <2>4. /\ f \in [S -> T]
        /\ \A y, z \in S : f[y] = f[z] => y = z
        /\ \A s \in T : \E y \in S : f[y] = s
    BY <2>2, <2>3
  <2> HIDE DEF f
  <2>5. Cardinality(T) = Cardinality(S)
    BY <2>1, <2>4, ImageCount
  <2> QED
    BY <2>5 DEF S, T
<1>4. MadeOf(InOrder(u)) = InOrder(c)
  <2> DEFINE n == Cardinality(Members(u))
  <2>1. ASSUME NEW k \in 1 .. n PROVE Nth(u, k)[1] = Nth(c, k)
    <3>1. Nth(u, k) \in Members(u) /\ IndexOf(u, Nth(u, k)) = k
      BY NthFacts
    <3>2. Nth(u, k)[1] \in Members(c) /\ IndexOf(c, Nth(u, k)[1]) = k
      BY <1>2, <3>1 DEF Mirror
    <3> QED
      BY <3>2, NthOfPosition
  <2>2. InOrder(u) = [k \in 1 .. n |-> Nth(u, k)] /\ InOrder(c) = [k \in 1 .. n |-> Nth(c, k)]
    BY <1>3 DEF InOrder
  <2> HIDE DEF n
  <2>3. MadeOf(InOrder(u)) = [k \in 1 .. n |-> Nth(u, k)[1]]
    BY <2>2 DEF MadeOf
  <2> QED
    BY <2>1, <2>2, <2>3
<1> QED
  BY <1>1, <1>2, <1>3, <1>4

\* There are no more members than slots.
LEMMA MembersFit ==
    ASSUME NEW c, Good(c)
    PROVE  Cardinality(Members(c)) \in Nat /\ Cardinality(Members(c)) <= Len(c.elems)
<1> DEFINE n == Len(c.elems)
           key == c.index
           M == Members(c)
<1>1. n \in Nat /\ DOMAIN c.elems = 1 .. n
  BY DEF Good, IsCollection
<1>2. \A x \in M : key[x] \in 1 .. n
  BY MemberFacts DEF Good
<1>3. key = [x \in M |-> key[x]]
  BY DEF Good, IsCollection, Members
<1>4. \A x, y \in M : x # y => key[x] # key[y]
  BY SlotsDiffer DEF Good
<1>5. Cardinality(M) \in Nat
  BY PositionBounds
<1>6. IsFiniteSet(1 .. n) /\ Cardinality(1 .. n) = n
  BY <1>1, FS_Interval
<1> HIDE DEF n, key, M
<1>7. key \in [M -> 1 .. n]
  BY <1>2, <1>3
<1>8. key \in Injection(M, 1 .. n)
  BY <1>4, <1>7, Zenon DEF Injection, IsInjective
<1>9. Cardinality(M) <= Cardinality(1 .. n)
  BY <1>6, <1>8, FS_Injection
<1> QED
  BY <1>5, <1>6, <1>9 DEF n, M

\* The copies of a collection are named and mirror it.
LEMMA CopiesGood ==
    ASSUME NEW c, Good(c), Members(c) \subseteq Spills, Fits(c)
    PROVE  /\ Good(Copies(c)) /\ Fits(Copies(c))
           /\ Named(Copies(c)) /\ Mirror(Copies(c), c)
<1> DEFINE n == Cardinality(Members(c))
           list == [k \in 1 .. n |-> <<Nth(c, k), k>>]
           d == Holding(list)
<1>1. n \in Nat /\ n <= PairBound /\ PairBound \in Nat
  <2>1. Len(c.elems) \in Nat /\ Len(c.elems) <= PairBound /\ PairBound \in Nat
    BY PairAssumption DEF Good, IsCollection, Fits
  <2> QED
    BY <2>1, MembersFit
<1>2. \A k \in 1 .. n : Nth(c, k) \in Members(c) /\ IndexOf(c, Nth(c, k)) = k
  BY NthFacts
<1>3. \A k \in 1 .. n : Nth(c, k) \in Spills /\ k \in 1 .. PairBound
  BY <1>1, <1>2
<1>4. \A k \in 1 .. n : <<Nth(c, k), k>> \in Objects
  BY <1>3, PairAssumption
<1>5. \A x \in Members(c) : IndexOf(c, x) \in 1 .. n /\ Nth(c, IndexOf(c, x)) = x
  BY PositionBounds, NthOfPosition
<1>6. \A x, y \in Members(c) : c.index[x] <= c.index[y] <=> IndexOf(c, x) <= IndexOf(c, y)
  BY PositionsDiffer
<1> HIDE DEF n
<1>7. /\ list \in Seq(Objects) /\ DOMAIN list = 1 .. n /\ Len(list) = n
      /\ \A k \in 1 .. n : list[k] = <<Nth(c, k), k>>
  BY <1>1, <1>4
<1>8. \A i, j \in DOMAIN list : list[i] = list[j] => i = j
  BY <1>7
<1>9. Copies(c) = d /\ d.elems = list
  BY DEF Copies, Holding, n
<1> HIDE DEF list, d
<1>10. /\ Good(d) /\ Members(d) = {list[s] : s \in DOMAIN list}
       /\ \A s \in DOMAIN list : d.index[list[s]] = s
  BY <1>7, <1>8, HoldingInStep DEF Good, d
<1>11. ASSUME NEW x \in Members(d)
       PROVE  /\ x[1] \in Members(c) /\ x[1] \in Spills
              /\ d.index[x] = IndexOf(c, x[1])
              /\ x = <<x[1], d.index[x]>>
  <2>1. PICK k \in 1 .. n : x = list[k]
    BY <1>7, <1>10
  <2>2. x = <<Nth(c, k), k>> /\ d.index[x] = k
    BY <1>7, <1>10, <2>1
  <2> QED
    BY <1>2, <1>3, <2>2
<1>12. ASSUME NEW s \in Members(c) PROVE \E x \in Members(d) : x[1] = s
  <2>1. list[IndexOf(c, s)] \in Members(d) /\ list[IndexOf(c, s)][1] = s
    BY <1>5, <1>7, <1>10
  <2> QED
    BY <2>1
<1>13. Fits(d)
  BY <1>1, <1>7, <1>9 DEF Fits
<1>14. Named(d)
  BY <1>11 DEF Named
<1>15. Mirror(d, c)
  BY <1>6, <1>11, <1>12 DEF Mirror
<1> QED
  BY <1>9, <1>10, <1>13, <1>14, <1>15

\* Both collections are good and, if the model is uncertain, the copies are
\* named and mirror the spills.
PairInv ==
    /\ uncertain \in BOOLEAN
    /\ Good(spills) /\ Members(spills) \subseteq Spills /\ Fits(spills)
    /\ uncertain => /\ Good(u_spills) /\ Fits(u_spills)
                    /\ Named(u_spills) /\ Mirror(u_spills, spills)

\* The caller replaces no spill after it removed another and none by another
\* of the collection, and adds none that is in the collection.
PlainPair == PairCaller = {}

LEMMA AddedFits ==
    ASSUME NEW c, Good(c), Room(c), NEW e, e \notin Members(c)
    PROVE  Fits(Added(c, e)) /\ Added(c, e).index[e] = Len(c.elems) + 1
<1>1. c.elems \in Seq(Objects \cup {Hole}) /\ Len(c.elems) \in Nat /\ PairBound \in Nat
  BY PairAssumption DEF Good, IsCollection
<1>2. /\ Added(c, e).elems = Append(c.elems, e)
      /\ Added(c, e).index[e] = Len(c.elems) + 1
  BY DEF Added
<1>3. Len(Append(c.elems, e)) = Len(c.elems) + 1
  BY <1>1
<1> QED
  BY <1>1, <1>2, <1>3 DEF Fits, Room

\* A new spill and its copy are both last.
LEMMA BothAdded ==
    ASSUME NEW c, Good(c), Members(c) \subseteq Spills, Room(c),
           NEW u, Good(u), Named(u), Mirror(u, c), Room(u),
           NEW s \in Spills, s \notin Members(c)
    PROVE  LET x == <<s, Len(u.elems) + 1>>
           IN  /\ Good(Added(c, s)) /\ Members(Added(c, s)) \subseteq Spills /\ Fits(Added(c, s))
               /\ Good(Added(u, x)) /\ Fits(Added(u, x))
               /\ Named(Added(u, x)) /\ Mirror(Added(u, x), Added(c, s))
<1> DEFINE n == Len(u.elems)
           x == <<s, n + 1>>
           f == Added(c, s)
           v == Added(u, x)
<1>1. n \in Nat /\ PairBound \in Nat /\ n + 1 \in 1 .. PairBound
  BY PairAssumption DEF Good, IsCollection, Room
<1>2. x \in Objects /\ s \in Objects
  BY <1>1, PairAssumption
<1>3. x[1] = s /\ x[2] = n + 1
  OBVIOUS
<1>4. \A y \in Members(u) : /\ y[1] \in Members(c) /\ y[1] \in Spills
                            /\ y = <<y[1], u.index[y]>> /\ u.index[y] \in 1 .. n
  BY MemberFacts DEF Good, Named, Mirror
<1>5. x \notin Members(u)
  BY <1>3, <1>4
<1>6. /\ Good(f) /\ Members(f) = Members(c) \cup {s} /\ Fits(f)
      /\ \A r \in Members(c) : f.index[r] = c.index[r] /\ f.index[r] < f.index[s]
  BY <1>2, AddedInStep, AddedFits DEF Good
<1> HIDE DEF x
<1>7. /\ Good(v) /\ Members(v) = Members(u) \cup {x} /\ Fits(v) /\ v.index[x] = n + 1
      /\ \A y \in Members(u) : v.index[y] = u.index[y] /\ v.index[y] < v.index[x]
  BY <1>2, <1>5, AddedInStep, AddedFits DEF Good
<1>8. (\A y \in Members(v) : v.index[y] \in Nat) /\ (\A r \in Members(f) : f.index[r] \in Nat)
  BY <1>6, <1>7, PositionBounds
<1> HIDE DEF n, f, v
<1>9. Named(v)
  <2> SUFFICES ASSUME NEW y \in Members(v)
               PROVE  y[1] \in Spills /\ y = <<y[1], v.index[y]>>
    BY DEF Named
  <2>1. CASE y \in Members(u)
    BY <1>4, <1>7, <2>1
  <2>2. CASE y = x
    BY <1>3, <1>7, <2>2 DEF x
  <2> QED
    BY <1>7, <2>1, <2>2
<1>10. \A y \in Members(v) : y[1] \in Members(f)
  BY <1>3, <1>4, <1>6, <1>7
<1>11. \A r \in Members(f) : \E y \in Members(v) : y[1] = r
  <2> TAKE r \in Members(f)
  <2>1. CASE r = s
    BY <1>3, <1>7, <2>1
  <2>2. CASE r \in Members(c)
    <3>1. PICK y \in Members(u) : y[1] = r
      BY <2>2 DEF Mirror
    <3> QED
      BY <1>7, <3>1
  <2> QED
    BY <1>6, <2>1, <2>2
<1>12. ASSUME NEW y \in Members(v), NEW z \in Members(v)
       PROVE  v.index[y] <= v.index[z] <=> f.index[y[1]] <= f.index[z[1]]
  <2>1. /\ v.index[y] \in Nat /\ v.index[z] \in Nat
        /\ f.index[y[1]] \in Nat /\ f.index[z[1]] \in Nat
    BY <1>8, <1>10
  <2>2. CASE y \in Members(u) /\ z \in Members(u)
    <3>1. u.index[y] <= u.index[z] <=> c.index[y[1]] <= c.index[z[1]]
      BY <2>2 DEF Mirror
    <3> QED
      BY <1>4, <1>6, <1>7, <2>2, <3>1
  <2>3. CASE y \in Members(u) /\ z = x
    <3>1. v.index[y] < v.index[x] /\ f.index[y[1]] < f.index[s]
      BY <1>4, <1>6, <1>7, <2>3
    <3> QED
      BY <1>3, <2>1, <2>3, <3>1
  <2>4. CASE y = x /\ z \in Members(u)
    <3>1. v.index[z] < v.index[x] /\ f.index[z[1]] < f.index[s]
      BY <1>4, <1>6, <1>7, <2>4
    <3> QED
      BY <1>3, <2>1, <2>4, <3>1
  <2>5. CASE y = x /\ z = x
    BY <2>1, <2>5
  <2> QED
    BY <1>7, <2>2, <2>3, <2>4, <2>5
<1>13. Mirror(v, f)
  BY <1>10, <1>11, <1>12 DEF Mirror
<1> QED
  BY <1>6, <1>7, <1>9, <1>13 DEF f, v, x, n

LEMMA AddSpillKeeps ==
    ASSUME PlainPair, PairInv, NEW s \in Spills, AddSpill(s)
    PROVE  PairInv'
<1>1. /\ uncertain' = uncertain /\ uncertain \in BOOLEAN
      /\ s \notin Members(spills) \/ ~uncertain
      /\ Room(spills) /\ spills' = Added(spills, s) /\ s \in Objects
      /\ uncertain => Room(u_spills) /\ u_spills' = Added(u_spills, NewCopy(s))
  BY PairAssumption DEF AddSpill, PlainPair, PairInv
<1>2. CASE uncertain
  BY <1>1, <1>2, BothAdded DEF PairInv, NewCopy
<1>3. CASE ~uncertain /\ s \notin Members(spills)
  BY <1>1, <1>3, AddedInStep, AddedFits DEF PairInv, Good
<1>4. CASE ~uncertain /\ s \in Members(spills)
  BY <1>1, <1>4 DEF PairInv, Added
<1> QED
  BY <1>2, <1>3, <1>4

\* A copy that is not in its collection is a new one.
LEMMA AddPairKeeps ==
    ASSUME PlainPair, PairInv, NEW s \in Spills,
           NEW u \in Members(u_spills) \cup {NewCopy(s)}, AddPair(s, u)
    PROVE  PairInv'
<1>1. /\ uncertain /\ uncertain' = uncertain
      /\ s \in Members(spills) <=> u \in Members(u_spills)
      /\ Room(spills) /\ Room(u_spills)
      /\ spills' = Added(spills, s) /\ u_spills' = Added(u_spills, u)
  BY DEF AddPair, PlainPair
<1>2. CASE s \in Members(spills)
  <2>1. spills' = spills /\ u_spills' = u_spills
    BY <1>1, <1>2 DEF Added
  <2> QED
    BY <1>1, <2>1 DEF PairInv
<1>3. CASE s \notin Members(spills)
  <2>1. u = NewCopy(s)
    BY <1>1, <1>3
  <2> QED
    BY <1>1, <1>3, <2>1, BothAdded DEF PairInv, NewCopy
<1> QED
  BY <1>2, <1>3

LEMMA RemovedFits ==
    ASSUME NEW c, Good(c), Fits(c), NEW e \in Members(c)
    PROVE  Fits(Removed(c, e))
<1>1. /\ Removed(c, e).elems = [c.elems EXCEPT ![c.index[e]] = Hole]
      /\ c.elems \in Seq(Objects \cup {Hole}) /\ c.index[e] \in DOMAIN c.elems
  BY MemberFacts DEF Removed, Good, IsCollection
<1>2. Len(Removed(c, e).elems) = Len(c.elems)
  BY <1>1
<1> QED
  BY <1>2 DEF Fits

LEMMA RemoveSpillKeeps ==
    ASSUME PairInv, NEW s \in Spills, RemoveSpill(s)
    PROVE  PairInv'
<1>1. s \in Members(spills) /\ spills' = Removed(spills, s) /\ uncertain' = uncertain
      /\ u_spills' = IF uncertain THEN Removed(u_spills, CopyOf(s)) ELSE u_spills
  BY DEF RemoveSpill
<1>2. /\ Good(spills') /\ Fits(spills') /\ Members(spills') = Members(spills) \ {s}
      /\ \A r \in Members(spills) \ {s} : spills'.index[r] = spills.index[r]
  BY <1>1, RemovedInStep, RemovedFits DEF PairInv, Good
<1>3. CASE uncertain
  <2>1. /\ Good(u_spills) /\ Fits(u_spills) /\ Named(u_spills)
        /\ Good(spills) /\ Mirror(u_spills, spills)
    BY <1>3 DEF PairInv
  <2>2. PICK x \in Members(u_spills) : x[1] = s
    BY <1>1, <2>1 DEF Mirror
  <2>3. CopyOf(s) = x
    BY <2>1, <2>2, MirrorPositions, NthOfPosition DEF CopyOf
  <2>4. /\ Good(u_spills') /\ Fits(u_spills') /\ Members(u_spills') = Members(u_spills) \ {x}
        /\ \A y \in Members(u_spills) \ {x} : u_spills'.index[y] = u_spills.index[y]
    BY <1>1, <1>3, <2>1, <2>3, RemovedInStep, RemovedFits DEF Good
  <2>5. \A y \in Members(u_spills) \ {x} : y[1] \in Members(spills) \ {s}
    BY <2>1, <2>2, MirrorPositions DEF Mirror
  <2>6. Named(u_spills')
    BY <2>1, <2>4 DEF Named
  <2>7. \A r \in Members(spills') : \E y \in Members(u_spills') : y[1] = r
    <3> TAKE r \in Members(spills')
    <3>1. PICK y \in Members(u_spills) : y[1] = r
      BY <1>2, <2>1 DEF Mirror
    <3>2. y # x
      BY <1>2, <2>2, <3>1
    <3> QED
      BY <2>4, <3>1, <3>2
  <2>8. \A y, z \in Members(u_spills') : u_spills'.index[y] <= u_spills'.index[z]
                                           <=> spills'.index[y[1]] <= spills'.index[z[1]]
    BY <1>2, <2>1, <2>4, <2>5 DEF Mirror
  <2>9. Mirror(u_spills', spills')
    BY <1>2, <2>4, <2>5, <2>7, <2>8 DEF Mirror
  <2> QED
    BY <1>1, <1>2, <2>4, <2>6, <2>9 DEF PairInv
<1> QED
  BY <1>1, <1>2, <1>3 DEF PairInv

LEMMA ReplacedFits ==
    ASSUME NEW c, Good(c), Fits(c), NEW e \in Members(c), NEW w \in Objects
    PROVE  Fits(Replaced(c, e, c.index[e], w))
<1>1. /\ Replaced(c, e, c.index[e], w).elems = [c.elems EXCEPT ![c.index[e]] = w]
      /\ c.elems \in Seq(Objects \cup {Hole}) /\ c.index[e] \in DOMAIN c.elems
  BY MemberFacts DEF Replaced, Good, IsCollection
<1>2. Len(Replaced(c, e, c.index[e], w).elems) = Len(c.elems)
  BY <1>1
<1> QED
  BY <1>2 DEF Fits

LEMMA SetSpillKeeps ==
    ASSUME PlainPair, PairInv, NEW old \in Spills, NEW new \in Spills, SetSpill(old, new)
    PROVE  PairInv'
<1> DEFINE f == Replaced(spills, old, spills.index[old], new)
           k == IndexOf(f, new)
           w == <<new, k>>
<1>1. /\ old \in Members(spills) /\ new \notin Members(spills) \ {old}
      /\ old \in Objects /\ new \in Objects
      /\ ~uncertain \/ Filled(u_spills) = DOMAIN u_spills.elems
      /\ spills' = f /\ uncertain' = uncertain
      /\ u_spills' = IF uncertain /\ k \in Filled(u_spills)
                     THEN Replaced(u_spills, u_spills.elems[k], k, w) ELSE u_spills
  BY PairAssumption DEF SetSpill, PlainPair
<1>2. /\ Good(f) /\ Members(f) = (Members(spills) \ {old}) \cup {new}
      /\ \A r \in Members(spills) \ {old} : f.index[r] = spills.index[r]
      /\ f.index[new] = spills.index[old]
      /\ Fits(f) /\ Members(f) \subseteq Spills
  <2>1. Good(spills) /\ Fits(spills) /\ Members(spills) \subseteq Spills
    BY DEF PairInv
  <2> QED
    BY <1>1, <2>1, ReplacedInStep, ReplacedFits DEF Good
<1>3. CASE uncertain
  <2>1. /\ Good(u_spills) /\ Fits(u_spills) /\ Named(u_spills)
        /\ Good(spills) /\ Mirror(u_spills, spills)
    BY <1>3 DEF PairInv
  <2>2. PICK x \in Members(u_spills) : x[1] = old
    BY <1>1, <2>1 DEF Mirror
  <2>3. k = IndexOf(spills, old)
    <3> DEFINE A == {r \in Members(f) : f.index[r] <= f.index[new]}
               B == {r \in Members(spills) : spills.index[r] <= spills.index[old]}
    <3> HIDE DEF f
    <3>1. A = (B \ {old}) \cup {new} /\ old \in B /\ new \notin B \ {old}
      <4>1. spills.index[old] \in Nat
        BY <1>1, <2>1, PositionBounds
      <4>2. f.index[new] <= f.index[new] /\ spills.index[old] <= spills.index[old]
        BY <1>2, <4>1
      <4> QED
        BY <1>1, <1>2, <4>2
    <3>2. IsFiniteSet(B)
      <4>1. IsFiniteSet(Members(spills)) /\ B \subseteq Members(spills)
        BY <2>1, PositionBounds
      <4> QED
        BY <4>1, FS_Subset
    <3> HIDE DEF A, B
    <3>3. IsFiniteSet(B \ {old}) /\ Cardinality(B \ {old}) = Cardinality(B) - 1
      BY <3>1, <3>2, FS_RemoveElement
    <3>4. Cardinality(A) = Cardinality(B \ {old}) + 1
      BY <3>1, <3>3, FS_AddElement
    <3>5. Cardinality(B) \in Nat
      BY <3>2, FS_CardinalityType
    <3>6. Cardinality(A) = Cardinality(B)
      BY <3>3, <3>4, <3>5
    <3> QED
      BY <3>6 DEF IndexOf, A, B
  <2> HIDE DEF f, k
  <2>4. k = u_spills.index[x]
    BY <1>1, <1>3, <2>1, <2>2, <2>3, MirrorPositions, SlotIsPosition
  <2>5. /\ u_spills.elems[k] = x /\ k \in Filled(u_spills)
        /\ k \in 1 .. Len(u_spills.elems)
    BY <2>1, <2>4, MemberFacts DEF Good
  <2>6. w \in Objects
    <3>1. k \in 1 .. PairBound
      BY <2>1, <2>5, PairAssumption DEF Fits, Good, IsCollection
    <3> QED
      BY <3>1, PairAssumption
  <2>7. w \notin Members(u_spills) \ {x}
    <3> SUFFICES ASSUME w \in Members(u_spills) PROVE w = x
      OBVIOUS
    <3>1. u_spills.index[w] = k
      <4>1. w = <<w[1], u_spills.index[w]>>
        BY <2>1 DEF Named
      <4> QED
        BY <4>1
    <3> QED
      BY <2>1, <2>4, <3>1, SlotsDiffer DEF Good
  <2> DEFINE u == Replaced(u_spills, x, u_spills.index[x], w)
  <2>8. u_spills' = u
    BY <1>1, <1>3, <2>4, <2>5
  <2>9. w[1] = new /\ w[2] = k
    OBVIOUS
  <2> HIDE DEF w
  <2>10. /\ Good(u) /\ Members(u) = (Members(u_spills) \ {x}) \cup {w}
         /\ \A y \in Members(u_spills) \ {x} : u.index[y] = u_spills.index[y]
         /\ u.index[w] = u_spills.index[x]
         /\ Fits(u)
    BY <2>1, <2>2, <2>6, <2>7, ReplacedInStep, ReplacedFits DEF Good
  <2> HIDE DEF u
  <2>11. Named(u)
    <3> SUFFICES ASSUME NEW y \in Members(u)
                 PROVE  y[1] \in Spills /\ y = <<y[1], u.index[y]>>
      BY DEF Named
    <3>1. CASE y = w
      BY <2>4, <2>9, <2>10, <3>1 DEF w
    <3>2. CASE y \in Members(u_spills) \ {x}
      BY <2>1, <2>10, <3>2 DEF Named
    <3> QED
      BY <2>10, <3>1, <3>2
  <2>12. \A y \in Members(u_spills) \ {x} : y[1] \in Members(spills) \ {old}
    BY <2>1, <2>2, MirrorPositions DEF Mirror
  <2>13. Mirror(u, f)
    <3> DEFINE was(y) == IF y = w THEN x ELSE y
    <3>1. \A y \in Members(u) : /\ was(y) \in Members(u_spills)
                                /\ u.index[y] = u_spills.index[was(y)]
                                /\ y[1] \in Members(f)
                                /\ f.index[y[1]] = spills.index[was(y)[1]]
      <4> TAKE y \in Members(u)
      <4>1. CASE y = w
        BY <1>2, <2>2, <2>9, <2>10, <4>1
      <4>2. CASE y # w
        BY <1>1, <1>2, <2>10, <2>12, <4>2
      <4> QED
        BY <4>1, <4>2
    <3>2. \A r \in Members(f) : \E y \in Members(u) : y[1] = r
      <4> TAKE r \in Members(f)
      <4>1. CASE r = new
        BY <2>9, <2>10, <4>1
      <4>2. CASE r # new
        <5>1. r \in Members(spills) /\ r # old
          BY <1>2, <4>2
        <5>2. PICK y \in Members(u_spills) : y[1] = r
          BY <2>1, <5>1 DEF Mirror
        <5>3. y # x
          BY <2>2, <5>1, <5>2
        <5> QED
          BY <2>10, <5>2, <5>3
      <4> QED
        BY <4>1, <4>2
    <3> HIDE DEF was
    <3>3. \A y, z \in Members(u) : u.index[y] <= u.index[z]
                                     <=> f.index[y[1]] <= f.index[z[1]]
      BY <2>1, <3>1 DEF Mirror
    <3> QED
      BY <3>1, <3>2, <3>3 DEF Mirror
  <2> QED
    BY <1>1, <1>2, <2>8, <2>10, <2>11, <2>13 DEF PairInv
<1> HIDE DEF f
<1> QED
  BY <1>1, <1>2, <1>3 DEF PairInv

LEMMA ClearedGood ==
    /\ Good(Cleared) /\ Members(Cleared) = {} /\ Fits(Cleared)
    /\ Named(Cleared) /\ Mirror(Cleared, Cleared)
<1>1. Good(Cleared) /\ Members(Cleared) = {}
  BY ClearedInStep DEF Good
<1>2. Fits(Cleared)
  BY PairAssumption DEF Fits, Cleared, Holding
<1> QED
  BY <1>1, <1>2 DEF Named, Mirror

\* The k-th copy is one of the k-th spill, and there are as many of them, for
\* any number of spills and any sequence of the calls of SpillContainerPair
\* in which an uncertain model is given no spill a second time, and no spill
\* is replaced after a removal, nor by another of the collection.
THEOREM CopiesStayInStep ==
    ASSUME PlainPair
    PROVE  PairSpec => []CopiesInStep
<1>1. PairInit => PairInv
  BY ClearedGood DEF PairInit, PairInv
<1>2. PairInv /\ [PairNext]_PairVars => PairInv'
  <2> SUFFICES ASSUME PairInv, [PairNext]_PairVars PROVE PairInv'
    OBVIOUS
  <2>1. CASE UNCHANGED PairVars
    BY <2>1 DEF PairVars, PairInv
  <2>2. ASSUME NEW s \in Spills, AddSpill(s) \/ RemoveSpill(s) PROVE PairInv'
    BY <2>2, AddSpillKeeps, RemoveSpillKeeps
  <2>3. ASSUME NEW s \in Spills, NEW u \in Members(u_spills) \cup {NewCopy(s)}, AddPair(s, u)
        PROVE  PairInv'
    BY <2>3, AddPairKeeps
  <2>4. ASSUME NEW old \in Spills, NEW new \in Spills, SetSpill(old, new) PROVE PairInv'
    BY <2>4, SetSpillKeeps
  <2>5. CASE ClearSpills
    BY <2>5, ClearedGood DEF ClearSpills, PairInv
  <2>6. ASSUME NEW b \in BOOLEAN, SetUncertain(b) PROVE PairInv'
    BY <2>6, CopiesGood DEF SetUncertain, PairInv
  <2>7. CASE RewindCopies
    <3>1. spills' = spills /\ uncertain' = uncertain
          /\ (u_spills' = u_spills \/ u_spills' = Copies(spills))
      BY <2>7 DEF RewindCopies
    <3> QED
      BY <3>1, CopiesGood DEF PairInv
  <2> QED
    BY <2>1, <2>2, <2>3, <2>4, <2>5, <2>6, <2>7 DEF PairNext
<1>3. PairInv => CopiesInStep
  BY MirrorPositions DEF PairInv, CopiesInStep
<1> QED
  BY <1>1, <1>2, <1>3, PTL DEF PairSpec

=============================================================================
