---------------------------- MODULE GpTargetsProofs ----------------------------
(***************************************************************************)
(* What the target selection returns, for every catalogue.                 *)
(***************************************************************************)
EXTENDS GpTargets, FiniteSetTheorems, WellFoundedInduction, TLAPS

LEMMA LeastNatural ==
    ASSUME NEW S, S \subseteq Nat, S # {}
    PROVE  \E least \in S : \A y \in S : least <= y
<1>1. PICK least \in S : \A y \in S : <<y, least>> \notin OpToRel(<, Nat)
  BY NatLessThanWellFounded, WFMin
<1>2. \A y \in S : <<y, least>> \in Nat \X Nat
  OBVIOUS
<1>3. \A y \in S : ~ (y < least)
  BY <1>1, <1>2 DEF OpToRel
<1> QED BY <1>3

LEMMA UnionBounded ==
    ASSUME NEW S, NEW T, IsFiniteSet(S), IsFiniteSet(T)
    PROVE  Cardinality(S \cup T) <= Cardinality(S) + Cardinality(T)
<1>1. IsFiniteSet(S \cap T)
  BY FS_Subset
<1>2. Cardinality(S \cap T) \in Nat /\ Cardinality(S) \in Nat /\ Cardinality(T) \in Nat
  BY <1>1, FS_CardinalityType
<1>3. Cardinality(S \cup T) = Cardinality(S) + Cardinality(T) - Cardinality(S \cap T)
  BY FS_Union
<1> QED BY <1>2, <1>3

(* LIMIT keeps an initial segment: with a row come all the rows before it.  *)
LEMMA LowestIsInitial ==
    ASSUME NEW S, S \subseteq Nat, IsFiniteSet(S), NEW n \in Int,
           NEW x \in LowestIds(S, n), NEW y \in S, y <= x
    PROVE  y \in LowestIds(S, n)
<1> DEFINE below(z) == {q \in S : q < z}
<1>1. x \in Nat /\ y \in Nat
  BY DEF LowestIds
<1>2. below(y) \subseteq below(x) /\ below(x) \subseteq S
  <2>1. ASSUME NEW q \in S, q < y PROVE q < x
    BY <1>1, <2>1
  <2> QED BY <2>1
<1>3. IsFiniteSet(below(x)) /\ IsFiniteSet(below(y))
  BY <1>2, FS_Subset
<1>4. /\ Cardinality(below(y)) <= Cardinality(below(x))
      /\ Cardinality(below(x)) \in Nat /\ Cardinality(below(y)) \in Nat
  BY <1>2, <1>3, FS_Subset, FS_CardinalityType
<1>5. Cardinality(below(x)) < n
  BY DEF LowestIds
<1>6. Cardinality(below(y)) < n
  <2> HIDE DEF below
  <2> QED BY <1>4, <1>5
<1> QED BY <1>6 DEF LowestIds

(* Fewer rows than the limit are all the rows there are.                    *)
LEMMA LowestShortIsAll ==
    ASSUME NEW S, S \subseteq Nat, IsFiniteSet(S), NEW n \in Int,
           Cardinality(LowestIds(S, n)) < n
    PROVE  LowestIds(S, n) = S
<1> DEFINE L == LowestIds(S, n)
<1>1. L \subseteq S
  BY DEF LowestIds
<1>2. SUFFICES ASSUME S \ L # {} PROVE FALSE
  BY <1>1
<1>3. PICK least \in S \ L : \A y \in S \ L : least <= y
  BY <1>2, LeastNatural
<1> DEFINE below == {q \in S : q < least}
<1>4. below \subseteq L
  <2>1. ASSUME NEW q \in S, q < least, q \notin L PROVE FALSE
    <3>1. least <= q
      BY <1>3, <2>1
    <3>2. q \in Nat /\ least \in Nat
      BY <1>3
    <3> HIDE DEF L
    <3> QED BY <2>1, <3>1, <3>2
  <2> QED BY <2>1
<1>5. IsFiniteSet(L) /\ IsFiniteSet(below)
  BY <1>1, <1>4, FS_Subset
<1>6. /\ Cardinality(below) <= Cardinality(L)
      /\ Cardinality(below) \in Nat /\ Cardinality(L) \in Nat
  BY <1>4, <1>5, FS_Subset, FS_CardinalityType
<1>7. Cardinality(below) < n
  <2> HIDE DEF below
  <2> QED BY <1>6
<1> QED BY <1>3, <1>7 DEF LowestIds

(* The batch that the two SELECTs make: the primary one sees the rows        *)
(* `first`, the other one the rows `ids`, to which some may have come since. *)
RotationBatch(first, ids, cursor, n, exclude) ==
    LET primary == PrimaryTargets(first, cursor, n, exclude)
    IN  [primary |-> primary,
         wrap |-> IF Cardinality(primary) < n THEN WrapTargets(ids, n, primary, exclude) ELSE {}]

(* `chosen` is what they make of a finite catalogue that only grew between.  *)
IsBatch(chosen, first, ids, cursor, n, exclude) ==
    /\ ids \subseteq Nat /\ IsFiniteSet(ids) /\ first \subseteq ids
    /\ cursor \in Int /\ n \in Int
    /\ chosen = RotationBatch(first, ids, cursor, n, exclude)

Above(first, cursor, exclude) == {o \in first \ exclude : o > cursor}

(* What the two SELECTs return, in terms of the rows that each may choose.   *)
Parts(above, rest, n, chosen) ==
    /\ chosen.primary = LowestIds(above, n) /\ chosen.primary \subseteq above
    /\ Cardinality(chosen.primary) < n
          => chosen.wrap = LowestIds(rest, n - Cardinality(chosen.primary))
    /\ ~ (Cardinality(chosen.primary) < n) => chosen.wrap = {}
    /\ chosen.wrap \subseteq rest
    /\ above \subseteq Nat /\ IsFiniteSet(above) /\ rest \subseteq Nat /\ IsFiniteSet(rest)
    /\ Cardinality(chosen.primary) \in Nat /\ Cardinality(chosen.wrap) \in Nat

LEMMA BatchParts ==
    ASSUME NEW first, NEW ids, NEW cursor, NEW n, NEW exclude, NEW chosen,
           IsBatch(chosen, first, ids, cursor, n, exclude)
    PROVE  Parts(Above(first, cursor, exclude), ids \ exclude, n, chosen)
<1> DEFINE above == Above(first, cursor, exclude)
           rest  == ids \ exclude
<1>1. /\ chosen.primary = LowestIds(above, n)
      /\ chosen.wrap = IF Cardinality(chosen.primary) < n
                       THEN LowestIds(rest, n - Cardinality(chosen.primary)) ELSE {}
  BY DEF IsBatch, RotationBatch, PrimaryTargets, WrapTargets, Above
<1>2. chosen.primary \subseteq above /\ chosen.wrap \subseteq rest
  BY <1>1 DEF LowestIds
<1>3. above \subseteq Nat /\ IsFiniteSet(above) /\ rest \subseteq Nat /\ IsFiniteSet(rest)
  <2>1. above \subseteq ids /\ rest \subseteq ids /\ ids \subseteq Nat /\ IsFiniteSet(ids)
    BY DEF IsBatch, Above
  <2> QED BY <2>1, FS_Subset
<1>4. Cardinality(chosen.primary) \in Nat /\ Cardinality(chosen.wrap) \in Nat
  BY <1>2, <1>3, FS_Subset, FS_CardinalityType
<1> HIDE DEF above, rest
<1>5. Parts(above, rest, n, chosen)
  BY <1>1, <1>2, <1>3, <1>4 DEF Parts
<1> QED BY <1>5 DEF above, rest

(* A batch that wraps has all the rows above the cursor that its primary     *)
(* SELECT saw, and of the others those up to any id of the wrap.             *)
LEMMA WrapCovers ==
    ASSUME NEW first, NEW ids, NEW cursor, NEW n, NEW exclude, NEW chosen,
           IsBatch(chosen, first, ids, cursor, n, exclude),
           NEW w \in chosen.wrap, NEW x \in first \ exclude
    PROVE  /\ x > cursor => x \in chosen.primary
           /\ x <= w => x \in chosen.wrap
<1> DEFINE above == Above(first, cursor, exclude)
           rest  == ids \ exclude
<1>1. Parts(above, rest, n, chosen)
  BY BatchParts
<1>2. x \in rest /\ (x > cursor => x \in above)
  BY DEF IsBatch, Above
<1> HIDE DEF above, rest
<1>3. /\ Cardinality(chosen.primary) < n /\ n - Cardinality(chosen.primary) \in Int
      /\ chosen.wrap = LowestIds(rest, n - Cardinality(chosen.primary)) /\ n \in Int
  BY <1>1 DEF Parts, IsBatch
<1>4. chosen.primary = above
  BY <1>1, <1>3, LowestShortIsAll DEF Parts
<1>5. x <= w => x \in chosen.wrap
  BY <1>1, <1>2, <1>3, LowestIsInitial DEF Parts
<1> QED BY <1>2, <1>4, <1>5

(* Between the cursor a batch was selected from and its last target, over    *)
(* the end of the catalogue if it wrapped, every row that the primary SELECT *)
(* saw is excluded or chosen.                                                *)
THEOREM ArcCovered ==
    ASSUME NEW first, NEW ids, NEW cursor, NEW n, NEW exclude, NEW chosen,
           IsBatch(chosen, first, ids, cursor, n, exclude),
           NEW last, IsLastTarget(last, chosen)
    PROVE  Arc(first, cursor, last, chosen.wrap # {})
              \subseteq exclude \cup chosen.primary \cup chosen.wrap
<1> DEFINE above == Above(first, cursor, exclude)
<1>1. SUFFICES ASSUME NEW x \in Arc(first, cursor, last, chosen.wrap # {}), x \notin exclude
               PROVE  x \in chosen.primary \cup chosen.wrap
  OBVIOUS
<1>2. x \in first \ exclude
  BY <1>1 DEF Arc
<1>3. CASE chosen.wrap = {}
  <2>1. last \in chosen.primary
    BY <1>3 DEF IsLastTarget, LastRun
  <2>2. x \in above /\ x <= last
    BY <1>2, <1>3 DEF Arc, Above
  <2>3. Parts(above, ids \ exclude, n, chosen)
    BY BatchParts
  <2> HIDE DEF above
  <2>4. /\ chosen.primary = LowestIds(above, n) /\ above \subseteq Nat /\ IsFiniteSet(above)
        /\ n \in Int
    BY <2>3 DEF Parts, IsBatch
  <2>5. last \in LowestIds(above, n)
    BY <2>1, <2>4
  <2>6. x \in LowestIds(above, n)
    BY <2>2, <2>4, <2>5, LowestIsInitial
  <2> QED BY <2>4, <2>6
<1>4. CASE chosen.wrap # {}
  <2>1. last \in chosen.wrap
    BY <1>4 DEF IsLastTarget, LastRun
  <2>2. x > cursor \/ x <= last
    BY <1>4 DEF Arc
  <2> QED BY <1>2, <2>1, <2>2, WrapCovers
<1> QED BY <1>3, <1>4

(* A finite set that is not empty has a member whose key is the greatest.   *)
LEMMA GreatestExists ==
    ASSUME NEW S, IsFiniteSet(S), S # {}, NEW key \in [S -> Int]
    PROVE  \E g \in S : \A x \in S : key[x] <= key[g]
<1> DEFINE above(x) == {y \in S : key[y] > key[x]}
           counts   == {Cardinality(above(x)) : x \in S}
<1>1. \A x \in S : IsFiniteSet(above(x)) /\ Cardinality(above(x)) \in Nat
  <2>1. ASSUME NEW x \in S PROVE above(x) \subseteq S
    OBVIOUS
  <2> HIDE DEF above
  <2> QED BY <2>1, FS_Subset, FS_CardinalityType
<1>2. counts \subseteq Nat /\ counts # {}
  <2> HIDE DEF above
  <2> QED BY <1>1
<1>3. PICK g \in S : \A x \in S : Cardinality(above(g)) <= Cardinality(above(x))
  <2>1. PICK least \in counts : \A k \in counts : least <= k
    <3> HIDE DEF counts
    <3> QED BY <1>2, LeastNatural
  <2>2. PICK g \in S : least = Cardinality(above(g))
    OBVIOUS
  <2>3. \A x \in S : Cardinality(above(x)) \in counts
    OBVIOUS
  <2> HIDE DEF counts, above
  <2> QED BY <2>1, <2>2, <2>3
<1>4. ASSUME NEW x \in S, ~ (key[x] <= key[g]) PROVE FALSE
  <2>1. key[x] \in Int /\ key[g] \in Int /\ key[x] > key[g]
    BY <1>4
  <2>2. above(x) \subseteq above(g)
    <3>1. ASSUME NEW y \in S, key[y] > key[x] PROVE key[y] > key[g]
      <4>1. key[y] \in Int
        OBVIOUS
      <4> QED BY <2>1, <3>1, <4>1
    <3> QED BY <3>1
  <2>3. x \in above(g) /\ x \notin above(x)
    BY <2>1
  <2> HIDE DEF above
  <2>4. /\ Cardinality(above(x)) <= Cardinality(above(g))
        /\ Cardinality(above(g)) = Cardinality(above(x)) => above(g) = above(x)
    BY <1>1, <2>2, FS_Subset
  <2> QED BY <1>1, <1>3, <2>3, <2>4
<1> QED BY <1>4

(* ORDER BY and LIMIT n return at most n rows: before[x] are the rows that  *)
(* come before x in the order, which is total.                              *)
LEMMA LimitBounded ==
    ASSUME NEW S, IsFiniteSet(S), NEW before \in [S -> SUBSET S], NEW n \in Nat,
           \A x \in S : x \notin before[x],
           \A x, y \in S : y \in before[x] => before[y] \subseteq before[x],
           \A x, y \in S : x = y \/ x \in before[y] \/ y \in before[x]
    PROVE  Cardinality({x \in S : Cardinality(before[x]) < n}) <= n
<1> DEFINE limited == {x \in S : Cardinality(before[x]) < n}
           rank == [x \in limited |-> Cardinality(before[x])]
<1>0. SUFFICES Cardinality(limited) <= n
  OBVIOUS
<1>1. \A x \in S : IsFiniteSet(before[x]) /\ Cardinality(before[x]) \in Nat
  BY FS_Subset, FS_CardinalityType
<1>2. limited \subseteq S /\ IsFiniteSet(limited)
  BY FS_Subset
<1>3. CASE limited = {}
  BY <1>3, FS_EmptySet
<1>4. CASE limited # {}
  <2>1. rank \in [limited -> Int] /\ \A x \in limited : rank[x] = Cardinality(before[x])
    BY <1>1
  <2>2. PICK g \in limited : \A x \in limited : rank[x] <= rank[g]
    <3> HIDE DEF limited, rank
    <3> QED BY <1>2, <1>4, <2>1, GreatestExists
  <2>3. ASSUME NEW x \in limited, x # g, x \notin before[g] PROVE FALSE
    <3>1. g \in before[x] /\ before[g] \subseteq before[x] /\ g \notin before[g]
      BY <2>3
    <3>2. /\ Cardinality(before[g]) <= Cardinality(before[x])
          /\ Cardinality(before[x]) = Cardinality(before[g]) => before[x] = before[g]
      BY <1>1, <3>1, FS_Subset
    <3>3. Cardinality(before[x]) <= Cardinality(before[g])
      BY <2>1, <2>2
    <3> QED BY <1>1, <3>1, <3>2, <3>3
  <2>4. limited \subseteq before[g] \cup {g} /\ IsFiniteSet(before[g] \cup {g})
    <3>1. IsFiniteSet(before[g] \cup {g})
      BY <1>1, FS_AddElement
    <3> HIDE DEF limited
    <3> QED BY <2>3, <3>1
  <2>5. Cardinality(before[g] \cup {g}) = Cardinality(before[g]) + 1
    BY <1>1, FS_AddElement
  <2>6. Cardinality(limited) <= Cardinality(before[g]) + 1 /\ Cardinality(limited) \in Nat
    <3> HIDE DEF limited
    <3> QED BY <1>2, <2>4, <2>5, FS_Subset, FS_CardinalityType
  <2>7. Cardinality(before[g]) < n /\ Cardinality(before[g]) \in Nat
    BY <1>1
  <2> HIDE DEF limited
  <2> QED BY <2>6, <2>7
<1> QED BY <1>3, <1>4

LEMMA LowestBounded ==
    ASSUME NEW S, S \subseteq Nat, IsFiniteSet(S), NEW n \in Nat
    PROVE  Cardinality(LowestIds(S, n)) <= n
<1> DEFINE before == [x \in S |-> {q \in S : q < x}]
<1>1. \A x \in S : before[x] = {q \in S : q < x}
  OBVIOUS
<1>2. /\ before \in [S -> SUBSET S]
      /\ \A x \in S : x \notin before[x]
      /\ \A x, y \in S : y \in before[x] => before[y] \subseteq before[x]
      /\ \A x, y \in S : x = y \/ x \in before[y] \/ y \in before[x]
  <2>1. before \in [S -> SUBSET S]
    OBVIOUS
  <2>2. \A x, y \in S : (y \in before[x] <=> y < x) /\ x \in Nat /\ y \in Nat
    OBVIOUS
  <2>3. ASSUME NEW x \in S, NEW y \in before[x], NEW z \in before[y] PROVE z \in before[x]
    <3>1. x \in S /\ y \in S /\ z \in S
      OBVIOUS
    <3> HIDE DEF before
    <3> QED BY <2>2, <2>3, <3>1
  <2> HIDE DEF before
  <2>4. \A x \in S : x \notin before[x]
    BY <2>2
  <2>5. \A x, y \in S : x = y \/ x \in before[y] \/ y \in before[x]
    BY <2>2
  <2>6. \A x, y \in S : y \in before[x] => before[y] \subseteq before[x]
    BY <2>3
  <2> QED BY <2>1, <2>4, <2>5, <2>6
<1>3. LowestIds(S, n) = {x \in S : Cardinality(before[x]) < n}
  BY <1>1 DEF LowestIds
<1> HIDE DEF before
<1> QED BY <1>2, <1>3, LimitBounded

(* The hot slice never takes more slots than it is given. *)
LEMMA HotTargetsBounded ==
    ASSUME NEW live, IsFiniteSet(live), live \subseteq Nat, NEW featured,
           NEW hits, \A o \in live : hits[o] \in Nat, NEW limit \in Nat
    PROVE  Cardinality(HotTargets(live, featured, hits, limit)) <= limit
<1> DEFINE hot    == {o \in live : o \in featured \/ hits[o] > 0}
           before == [o \in hot |-> {q \in hot : Outranks(q, o, featured, hits)}]
<1>1. \A o \in hot : before[o] = {q \in hot : Outranks(q, o, featured, hits)}
  OBVIOUS
<1>2. IsFiniteSet(hot) /\ \A o \in hot : o \in Nat /\ hits[o] \in Nat
  BY FS_Subset
<1>3. before \in [hot -> SUBSET hot]
  OBVIOUS
<1>4. \A q, o \in hot : q \in before[o] <=> Outranks(q, o, featured, hits)
  OBVIOUS
<1>5. HotTargets(live, featured, hits, limit) = {o \in hot : Cardinality(before[o]) < limit}
  BY <1>1 DEF HotTargets
<1> HIDE DEF hot, before
<1>6. \A o \in hot : o \notin before[o]
  BY <1>2, <1>4 DEF Outranks, MorePopular
<1>7. \A o, q \in hot : o = q \/ o \in before[q] \/ q \in before[o]
  BY <1>2, <1>4 DEF Outranks, MorePopular
<1>8. ASSUME NEW o \in hot, NEW q \in hot, q \in before[o], NEW m \in before[q]
      PROVE  m \in before[o]
  <2>1. m \in hot
    BY <1>3
  <2> QED BY <1>2, <1>4, <1>8, <2>1 DEF Outranks, MorePopular
<1> QED BY <1>2, <1>3, <1>5, <1>6, <1>7, <1>8, LimitBounded

(* The marked rows, if they fit, and then the most popular ones are hot. *)
LEMMA HotTargetsKeepPromises ==
    ASSUME NEW live, IsFiniteSet(live), live \subseteq Nat, NEW featured,
           NEW hits, \A o \in live : hits[o] \in Nat, NEW limit \in Nat,
           NEW marked, marked = featured \cap live
    PROVE  /\ limit - Cardinality(marked) >= 0 =>
                 marked \subseteq HotTargets(live, featured, hits, limit)
           /\ \A o \in PopularObjects(live, hits, limit - Cardinality(marked)) :
                 hits[o] > 0 => o \in HotTargets(live, featured, hits, limit)
<1> DEFINE hot      == {o \in live : o \in featured \/ hits[o] > 0}
           first(o) == {q \in hot : Outranks(q, o, featured, hits)}
           liked(o) == {q \in live : MorePopular(q, o, hits)}
<1>1. \A o \in hot : Cardinality(first(o)) < limit
                    => o \in HotTargets(live, featured, hits, limit)
  BY DEF HotTargets
<1>2. IsFiniteSet(marked) /\ Cardinality(marked) \in Nat
  <2>1. marked \subseteq live
    OBVIOUS
  <2> QED BY <2>1, FS_Subset, FS_CardinalityType
<1>3. ASSUME NEW o \in live, o \in featured, limit - Cardinality(marked) >= 0
      PROVE  o \in HotTargets(live, featured, hits, limit)
  <2>1. first(o) \subseteq marked \ {o}
    BY <1>3 DEF Outranks, MorePopular
  <2>2. o \in marked /\ o \in hot
    BY <1>3
  <2> HIDE DEF first, hot
  <2>3. IsFiniteSet(marked \ {o}) /\ Cardinality(marked \ {o}) = Cardinality(marked) - 1
    BY <1>2, <2>2, FS_RemoveElement
  <2>4. Cardinality(first(o)) <= Cardinality(marked) - 1 /\ Cardinality(first(o)) \in Nat
    BY <2>1, <2>3, FS_Subset, FS_CardinalityType
  <2> QED BY <1>1, <1>2, <1>3, <2>2, <2>4
<1>4. ASSUME NEW o \in PopularObjects(live, hits, limit - Cardinality(marked)), hits[o] > 0
      PROVE  o \in HotTargets(live, featured, hits, limit)
  <2>1. o \in live /\ o \in hot /\ Cardinality(liked(o)) < limit - Cardinality(marked)
    BY <1>4 DEF PopularObjects
  <2>2. IsFiniteSet(liked(o)) /\ Cardinality(liked(o)) \in Nat
    <3>1. liked(o) \subseteq live
      OBVIOUS
    <3> HIDE DEF liked
    <3> QED BY <3>1, FS_Subset, FS_CardinalityType
  <2>3. CASE o \in featured
    <3> HIDE DEF liked
    <3> QED BY <1>2, <1>3, <2>1, <2>2, <2>3
  <2>4. CASE o \notin featured
    <3>1. first(o) \subseteq marked \cup liked(o)
      BY <2>4 DEF Outranks
    <3> HIDE DEF first, liked, hot
    <3>2. /\ IsFiniteSet(marked \cup liked(o))
          /\ Cardinality(marked \cup liked(o)) <= Cardinality(marked) + Cardinality(liked(o))
      BY <1>2, <2>2, FS_Union, UnionBounded
    <3>3. /\ Cardinality(first(o)) <= Cardinality(marked \cup liked(o))
          /\ Cardinality(first(o)) \in Nat /\ Cardinality(marked \cup liked(o)) \in Nat
      BY <3>1, <3>2, FS_Subset, FS_CardinalityType
    <3> QED BY <1>1, <1>2, <2>1, <2>2, <3>2, <3>3
  <2> QED BY <2>3, <2>4
<1> QED BY <1>3, <1>4

(* A batch has no more than n targets, and fewer only if they are all there. *)
Fills(chosen, n, rest) ==
    /\ Cardinality(chosen.primary) \in Nat /\ Cardinality(chosen.wrap) \in Nat
    /\ Cardinality(chosen.primary) + Cardinality(chosen.wrap) <= n
    /\ \/ Cardinality(chosen.primary) + Cardinality(chosen.wrap) = n
       \/ rest \subseteq chosen.primary \cup chosen.wrap

LEMMA RotationFillsSlots ==
    ASSUME NEW first, NEW ids, NEW cursor, NEW n, NEW exclude, NEW chosen,
           IsBatch(chosen, first, ids, cursor, n, exclude),
           n \in Nat
    PROVE  Fills(chosen, n, ids \ exclude)
<1> DEFINE rest  == ids \ exclude
           above == Above(first, cursor, exclude)
           k     == Cardinality(chosen.primary)
           room  == n - k
<1>1. n \in Int /\ Parts(above, rest, n, chosen)
  BY BatchParts DEF IsBatch
<1>2. k \in Nat /\ Cardinality(chosen.wrap) \in Nat
  BY <1>1 DEF Parts
<1>3. k <= n
  <2> HIDE DEF above, rest
  <2> QED BY <1>1, LowestBounded DEF Parts
<1>4. CASE k < n
  <2>1. room \in Nat /\ room \in Int
    BY <1>2, <1>4
  <2>2. chosen.wrap = LowestIds(rest, room)
    BY <1>1, <1>4 DEF Parts
  <2>3. Cardinality(chosen.wrap) <= room
    <3> HIDE DEF rest, room, above
    <3> QED BY <1>1, <2>1, <2>2, LowestBounded DEF Parts
  <2>4. Cardinality(chosen.wrap) < room => chosen.wrap = rest
    <3> HIDE DEF rest, room, above
    <3> QED BY <1>1, <2>1, <2>2, LowestShortIsAll DEF Parts
  <2> QED BY <1>2, <1>4, <2>3, <2>4 DEF Fills
<1>5. CASE ~ (k < n)
  <2>1. Cardinality(chosen.wrap) = 0
    BY <1>1, <1>5, FS_EmptySet DEF Parts
  <2> QED BY <1>2, <1>3, <1>5, <2>1 DEF Fills
<1> QED BY <1>4, <1>5

(* It names no excluded id; and if it names one twice, it has all the rows   *)
(* that the primary SELECT saw.                                              *)
LEMMA RepeatsCostNothing ==
    ASSUME NEW first, NEW ids, NEW cursor, NEW n, NEW exclude, NEW chosen,
           IsBatch(chosen, first, ids, cursor, n, exclude)
    PROVE  /\ exclude \cap (chosen.primary \cup chosen.wrap) = {}
           /\ chosen.primary \cap chosen.wrap # {}
                 => first \subseteq exclude \cup chosen.primary \cup chosen.wrap
<1> DEFINE rest  == ids \ exclude
           above == Above(first, cursor, exclude)
<1>1. Parts(above, rest, n, chosen)
  BY BatchParts
<1>2. /\ exclude \cap rest = {} /\ exclude \cap above = {} /\ \A x \in above : x > cursor
      /\ first \subseteq Nat /\ cursor \in Int
  BY DEF IsBatch, Above
<1>3. exclude \cap (chosen.primary \cup chosen.wrap) = {}
  <2> HIDE DEF rest, above
  <2> QED BY <1>1, <1>2 DEF Parts
<1>4. ASSUME NEW twice \in chosen.primary \cap chosen.wrap, NEW x \in first, x \notin exclude
      PROVE  x \in chosen.primary \cup chosen.wrap
  <2>1. twice \in Nat /\ twice > cursor /\ x \in Nat /\ cursor \in Int
    <3> HIDE DEF rest, above
    <3> QED BY <1>1, <1>2 DEF Parts
  <2>2. /\ x > cursor => x \in chosen.primary
        /\ x <= twice => x \in chosen.wrap
    <3>1. x \in first \ exclude /\ twice \in chosen.wrap
      BY <1>4
    <3> QED BY <3>1, WrapCovers
  <2> QED BY <2>1, <2>2
<1> QED BY <1>3, <1>4

(* While an id is neither excluded nor chosen, a batch with a slot has a     *)
(* last target, ...                                                          *)
LEMMA BatchHasLastTarget ==
    ASSUME NEW first, NEW ids, NEW cursor, NEW n, NEW exclude, NEW chosen,
           IsBatch(chosen, first, ids, cursor, n, exclude),
           n \in Nat \ {0},
           NEW o \in ids, o \notin exclude \cup chosen.primary \cup chosen.wrap
    PROVE  LastRun(chosen) # {}
<1>1. Cardinality(chosen.primary) + Cardinality(chosen.wrap) = n
  <2>1. o \in ids \ exclude /\ n \in Nat
    OBVIOUS
  <2>2. Fills(chosen, n, ids \ exclude)
    BY <2>1, RotationFillsSlots
  <2> QED BY <2>1, <2>2 DEF Fills
<1>2. SUFFICES ASSUME chosen.primary = {}, chosen.wrap = {} PROVE FALSE
  BY DEF LastRun
<1> QED BY <1>1, <1>2, FS_EmptySet

(* ... and a sweep that goes on from there has fewer ids before one that the *)
(* primary SELECT saw: those it had before, without the last target.         *)
LEMMA LastTargetIsCloser ==
    ASSUME NEW first, NEW ids, NEW cursor, NEW n, NEW exclude, NEW chosen,
           IsBatch(chosen, first, ids, cursor, n, exclude),
           NEW last, IsLastTarget(last, chosen),
           NEW o \in first, o \notin exclude \cup chosen.primary \cup chosen.wrap
    PROVE  /\ Ahead(ids, last, o) \subseteq Ahead(ids, cursor, o)
           /\ last \in Ahead(ids, cursor, o) \ Ahead(ids, last, o)
<1>1. o \notin Arc(first, cursor, last, chosen.wrap # {})
  BY ArcCovered
<1>2. last \in ids /\ (chosen.wrap = {} => last > cursor)
  <2>1. Parts(Above(first, cursor, exclude), ids \ exclude, n, chosen)
    BY BatchParts
  <2>2. chosen.primary \subseteq Above(first, cursor, exclude) /\ chosen.wrap \subseteq ids
    BY <2>1 DEF Parts
  <2>3. last \in LastRun(chosen) /\ first \subseteq ids
    BY DEF IsLastTarget, IsBatch
  <2> QED BY <2>2, <2>3 DEF LastRun, Above
<1>3. o \in Nat /\ last \in Nat /\ cursor \in Int /\ ids \subseteq Nat
  BY <1>2 DEF IsBatch
<1>4. CASE chosen.wrap = {}
  <2>1. last > cursor /\ (o > last \/ o <= cursor)
    BY <1>1, <1>2, <1>3, <1>4 DEF Arc
  <2>2. ASSUME NEW q \in ids, q \in Ahead(ids, last, o) PROVE q \in Ahead(ids, cursor, o)
    <3>1. q \in Nat
      BY <1>3
    <3> QED BY <1>3, <2>1, <2>2, <3>1 DEF Ahead, Arc
  <2>3. last \in Ahead(ids, cursor, o) \ Ahead(ids, last, o)
    BY <1>2, <1>3, <2>1 DEF Ahead, Arc
  <2>4. Ahead(ids, last, o) \subseteq ids
    BY DEF Ahead, Arc
  <2> QED BY <2>2, <2>3, <2>4
<1>5. CASE chosen.wrap # {}
  <2>1. last < o /\ o <= cursor
    BY <1>1, <1>3, <1>5 DEF Arc
  <2>2. ASSUME NEW q \in ids, q \in Ahead(ids, last, o) PROVE q \in Ahead(ids, cursor, o)
    <3>1. q \in Nat
      BY <1>3
    <3> QED BY <1>3, <2>1, <2>2, <3>1 DEF Ahead, Arc
  <2>3. last \in Ahead(ids, cursor, o) \ Ahead(ids, last, o)
    BY <1>2, <1>3, <2>1 DEF Ahead, Arc
  <2>4. Ahead(ids, last, o) \subseteq ids
    BY DEF Ahead, Arc
  <2> QED BY <2>2, <2>3, <2>4
<1> QED BY <1>4, <1>5
=============================================================================
